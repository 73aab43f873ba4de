--------------------------- MODULE WindowManager ---------------------------
(***************************************************************************)
(* MaWiM's event and command handlers (src/events.c, src/commands.c) on    *)
(* the window lists and structs of src/window.c, driven by a queue of X    *)
(* events and by mawimctl commands.  Lists are singly linked structs on a  *)
(* heap, as in the code: a struct can be on two lists, be pointed to after *)
(* it is freed, and its address can be used again.                         *)
(*                                                                         *)
(* A handler is a function from one mawim record to the next, as the code  *)
(* hands on mawim_t*.  Where the behaviour of the C program is undefined   *)
(* (a workspace index out of range, a use after free, a broken list, a     *)
(* free of an uninitialized pointer) the handler sets mawim.fault, and     *)
(* the model stops: anything could happen from there on.                   *)
(***************************************************************************)
EXTENDS Integers, FiniteSets, Sequences

CONSTANTS Windows,         \* the X11 windows
          Structs,         \* the addresses at which xmalloc places a mawim_window_t
          NULL,
          Wild,            \* 0xfeedface, the first value of windows.last
          Free,            \* what is at an address that is not allocated
          WorkspaceCount, MaxRows, DisplayWidth, DisplayHeight,
          MaxEvents        \* bound: X events queued at once

ASSUME WindowManagerAssumption ==
  /\ IsFiniteSet(Windows) /\ IsFiniteSet(Structs)
  /\ {NULL, Wild, Free} \cap Structs = {}
  /\ WorkspaceCount \in Nat \ {0} /\ MaxRows \in Nat \ {0}
  /\ DisplayWidth \in Nat /\ DisplayHeight \in Nat
  /\ MaxEvents \in Nat \ {0}

VARIABLES mawim,   \* mawim_t, its workspaces and its heap
          xwin,    \* the state of every window at the X server
          events,  \* the X events that XNextEvent has not delivered yet
          loop     \* where main() is: in its loop over X events or over commands

vars == <<mawim, xwin, events, loop>>

Workspaces == 1 .. WorkspaceCount

NoTile == [x |-> 0, y |-> 0, width |-> 0, height |-> 0]

Window == [next : Structs \cup {NULL}, x11_window : Windows, workspace : Workspaces,
           row : Int, col : Int,
           geometry : [x : Int, y : Int, width : Int, height : Int]]

\* What is at a free address is told from every struct.
ASSUME FreeAssumption == Free \notin Window

EventTypes == {"ConfigureRequest", "MapRequest", "DestroyNotify", "LeaveNotify"}

Faults == {"none", "workspace index", "use after free", "broken list", "uninitialized free"}

TypeOK ==
  /\ mawim \in [heap : [Structs -> Window \cup {Free}],
                first : [Workspaces -> Structs \cup {NULL}],
                last : [Workspaces -> Structs \cup {NULL, Wild}],
                focused_window : [Workspaces -> Structs \cup {NULL}],
                active_row : [Workspaces -> Int],
                row_count : [Workspaces -> Int],
                active_workspace : 0 .. WorkspaceCount,
                updated : SUBSET Structs,
                fault : Faults]
  /\ xwin \in [Windows -> {"none", "unmapped", "mapped"}]
  /\ events \in Seq([type : EventTypes, window : Windows \cup {NULL}])
  /\ loop \in {"x11", "mawimctl"}
-----------------------------------------------------------------------------
\* Window lists.

\* The structs of list i in order, from position 0; NULL beyond the end.
Chain(m, i) ==
  LET at[n \in 0 .. Cardinality(Structs)] ==
        IF n = 0 THEN m.first[i]
        ELSE LET s == at[n - 1]
             IN  IF s = NULL \/ m.heap[s] = Free THEN NULL ELSE m.heap[s].next
  IN  at

Positions == 0 .. Cardinality(Structs)

OnList(m, i) == {Chain(m, i)[n] : n \in Positions} \ {NULL}

Listed(m) == UNION {OnList(m, i) : i \in Workspaces}

\* The first struct of list i in S, and the one before it (NULL if none).
FirstOf(m, i, S) ==
  LET at == Chain(m, i)
      n == CHOOSE n \in Positions : at[n] \in S /\ \A k \in 0 .. n - 1 : at[k] \notin S
  IN  at[n]

Previous(m, i, s) ==
  LET before == {t \in OnList(m, i) : m.heap[t].next = s}
  IN  IF s = m.first[i] \/ before = {} THEN NULL ELSE CHOOSE t \in before : TRUE

Showing(m, i, w) == {s \in OnList(m, i) : m.heap[s].x11_window = w}

\* mawim_find_window
FindWindow(m, i, w) ==
  IF Showing(m, i, w) = {} THEN NULL ELSE FirstOf(m, i, Showing(m, i, w))

\* mawim_find_window_in_workspaces: the workspace id, 0 if there is none
FindInWorkspaces(m, w) ==
  LET found == {i \in Workspaces : Showing(m, i, w) # {}}
  IN  IF found = {} THEN 0 ELSE CHOOSE i \in found : \A j \in found : i <= j

\* Faulty: the walk begins at the second struct.
WinsAfterFirst(m, i, r) ==
  {s \in OnList(m, i) : m.heap[s].row = r /\ s # m.first[i] /\ m.heap[s].workspace = i}

\* mawim_get_wins_on_row; the workspace of the first struct is not compared.
WinsOnRow(m, i, r) ==
  {s \in OnList(m, i) : m.heap[s].row = r /\ (s = m.first[i] \/ m.heap[s].workspace = i)}

\* Faulty: without the test that avoids circular linkage.
AppendUnchecked(m, i, s) ==
  LET ended == [m EXCEPT !.heap[s].next = NULL]
      last == m.last[i]
  IN  IF m.first[i] = NULL THEN [ended EXCEPT !.first[i] = s, !.last[i] = s]
      ELSE IF last \notin Structs THEN [m EXCEPT !.fault = "broken list"]
      ELSE IF m.heap[last] = Free THEN [m EXCEPT !.fault = "use after free"]
      ELSE [ended EXCEPT !.heap[last].next = s, !.last[i] = s]

\* mawim_append_window
AppendWindow(m, i, s) ==
  LET ended == [m EXCEPT !.heap[s].next = NULL]
      last == m.last[i]
  IN  IF m.first[i] = NULL THEN [ended EXCEPT !.first[i] = s, !.last[i] = s]
      ELSE IF last = s THEN ended
      ELSE IF last \notin Structs THEN [m EXCEPT !.fault = "broken list"]
      ELSE IF m.heap[last] = Free THEN [m EXCEPT !.fault = "use after free"]
      ELSE [ended EXCEPT !.heap[last].next = s, !.last[i] = s]

\* Faulty: the end of the list is forgotten.
RemoveKeepsLast(m, i, w, should_free) ==
  LET current == FindWindow(m, i, w)
      previous == Previous(m, i, current)
      next == m.heap[current].next
      linked == IF previous = NULL THEN m.heap
                ELSE [m.heap EXCEPT ![previous].next = next]
  IN  [m EXCEPT !.heap = IF should_free THEN [linked EXCEPT ![current] = Free] ELSE linked,
                !.first[i] = IF @ = current THEN next ELSE @]

\* Faulty: without the comparison, the last struct goes.
RemoveLast(m, i, w, should_free) ==
  LET current == m.last[i]
      previous == Previous(m, i, current)
      linked == IF previous = NULL THEN m.heap
                ELSE [m.heap EXCEPT ![previous].next = NULL]
  IN  [m EXCEPT !.heap = IF should_free THEN [linked EXCEPT ![current] = Free] ELSE linked,
                !.last[i] = previous,
                !.first[i] = IF @ = current THEN NULL ELSE @]

\* mawim_remove_window: the struct of w goes, or else the last of the list.
RemoveWindow(m, i, w, should_free) ==
  LET found == FindWindow(m, i, w)
      current == IF found # NULL THEN found
                 ELSE CHOOSE s \in OnList(m, i) : m.heap[s].next = NULL
      previous == Previous(m, i, current)
      next == m.heap[current].next
      linked == IF previous = NULL THEN m.heap
                ELSE [m.heap EXCEPT ![previous].next = next]
  IN  IF m.first[i] = NULL THEN m
      ELSE [m EXCEPT !.heap = IF should_free THEN [linked EXCEPT ![current] = Free] ELSE linked,
                     !.last[i] = IF @ = current THEN previous ELSE @,
                     !.first[i] = IF @ = current THEN next ELSE @]
-----------------------------------------------------------------------------
\* Layout.  Comments that say how a definition relates to Tiling are there.

AtLeastOne(n) == IF n < 1 THEN 1 ELSE n

TileOf(m, s) ==
  LET i == m.heap[s].workspace
      width  == DisplayWidth \div AtLeastOne(Cardinality(WinsOnRow(m, i, m.heap[s].row)))
      height == DisplayHeight \div m.row_count[i]
  IN  [x |-> width * m.heap[s].col, y |-> height * m.heap[s].row,
       width |-> width, height |-> height]

\* mawim_update_window on the structs of S.  The map and withdraw requests are
\* collected in m.updated and take effect at the end of the handler (Finish):
\* none of them changes while it runs.
UpdateWindows(m, S) ==
  LET slotted == {s \in S : m.heap[s].row >= 0 /\ m.heap[s].col >= 0}
  IN  [m EXCEPT !.heap = [s \in Structs |-> IF s \in slotted
                                            THEN [m.heap[s] EXCEPT !.geometry = TileOf(m, s)]
                                            ELSE m.heap[s]],
                !.updated = @ \cup slotted]

\* mawim_manage_window, which returns false when s is not on its list
ManageWindow(m, s) ==
  LET i == m.heap[s].workspace
      a == m.active_row[i]
      joined == [m EXCEPT !.heap[s].row = IF @ < 0 THEN a ELSE @]
      full == m.heap[s].row < 0 /\ Cardinality(WinsOnRow(joined, i, a)) = MaxRows
      below == IF a + 1 < MaxRows - 1 THEN a + 1 ELSE MaxRows - 1
      new_row == full /\ below # a
      rowed == [joined EXCEPT !.heap[s].row = IF full THEN below ELSE @,
                              !.row_count[i] = IF new_row THEN @ + 1 ELSE @]
      row_wins == WinsOnRow(rowed, i, rowed.heap[s].row)
      placed == [rowed EXCEPT !.heap[s].col = IF @ < 0 THEN Cardinality(row_wins) - 1 ELSE @,
                              !.active_row[i] = IF new_row THEN rowed.heap[s].row ELSE @]
  IN  IF FindWindow(m, i, m.heap[s].x11_window) = NULL THEN m
      ELSE UpdateWindows(placed, {s} \cup (IF new_row THEN OnList(placed, i) ELSE row_wins))

\* Faulty: off by one.
LastRowZero(m, i) == m.row_count[i] <= 0

\* A workspace keeps its last row, even when it is empty.
LastRow(m, i) == m.row_count[i] <= 1

\* mawim_unmanage_window
UnmanageWindow(m, s) ==
  LET i == m.heap[s].workspace
      oldrow == m.heap[s].row
      oldcol == m.heap[s].col
      off == [m EXCEPT !.heap[s].row = -1, !.heap[s].col = -1]
      row_windows == WinsOnRow(off, i, oldrow)
      closed == [off EXCEPT !.heap = [t \in Structs |->
                   IF t \in row_windows /\ off.heap[t].col > oldcol
                   THEN [off.heap[t] EXCEPT !.col = @ - 1] ELSE off.heap[t]]]
      beneath == UNION {WinsOnRow(off, i, r) : r \in oldrow + 1 .. m.row_count[i] - 1}
      count == m.row_count[i] - 1
      raised == [off EXCEPT !.heap = [t \in Structs |->
                                        IF t \in beneath THEN [off.heap[t] EXCEPT !.row = @ - 1]
                                        ELSE off.heap[t]],
                            !.row_count[i] = count,
                            !.active_row[i] = IF @ + 1 > count THEN count - 1 ELSE @]
  IN  IF row_windows # {}
      THEN UpdateWindows(closed, {t \in row_windows :
                                    m.heap[t].x11_window # m.heap[s].x11_window})
      ELSE IF LastRow(m, i) THEN off
      ELSE IF m.first[i] = NULL THEN [off EXCEPT !.fault = "uninitialized free"]
      ELSE UpdateWindows(raised, Listed(raised))

\* Faulty: the windows of the other workspaces are not withdrawn.
UpdateActiveList(m) == UpdateWindows(m, OnList(m, m.active_workspace))

\* mawim_update_all_windows
UpdateAllWindows(m) == UpdateWindows(m, Listed(m))
-----------------------------------------------------------------------------
\* The end of a handler.

Shown(m) == {m.heap[s].x11_window : s \in {t \in m.updated : m.heap[t] # Free
                                               /\ m.heap[t].workspace = m.active_workspace}}
Hidden(m) == {m.heap[s].x11_window : s \in {t \in m.updated : m.heap[t] # Free
                                               /\ m.heap[t].workspace # m.active_workspace}}

\* A list that runs into freed memory, or in a circle, ends the program: every
\* handler walks the lists.
Broken(m) ==
  \E i \in Workspaces : \/ Chain(m, i)[Cardinality(Structs)] # NULL
                        \/ \E s \in OnList(m, i) : m.heap[s] = Free

Finish(m) ==
  /\ mawim' = [m EXCEPT !.updated = {},
                        !.fault = IF @ = "none" /\ Broken(m) THEN "broken list" ELSE @]
  /\ xwin' = [w \in Windows |-> IF xwin[w] = "none" THEN "none"
                                ELSE IF w \in Shown(m) THEN "mapped"
                                ELSE IF w \in Hidden(m) THEN "unmapped"
                                ELSE xwin[w]]

Fail(fault) == Finish([mawim EXCEPT !.fault = fault])

Event(type, w) == [type |-> type, window |-> w]

ActiveExists == mawim.active_workspace \in Workspaces
-----------------------------------------------------------------------------
\* X events: mawim_handle_event for the event at the head of the queue.

\* main(): XPending is positive, XNextEvent takes the first event.
Deliver ==
  /\ mawim.fault = "none"
  /\ loop = "x11"
  /\ events # <<>>
  /\ events' = Tail(events)
  /\ UNCHANGED loop

Handle(type, w) == Deliver /\ Head(events) = Event(type, w)

\* handle_configure_request of a window that has a struct
HandleConfigureKnown(w) ==
  LET i == FindInWorkspaces(mawim, w)
  IN  /\ Handle("ConfigureRequest", w)
      /\ i # 0
      /\ Finish(ManageWindow(mawim, FindWindow(mawim, i, w)))

\* Faulty: the window joins the list and is not tiled.
ConfigureNewUnmanaged(w, s) ==
  LET i == mawim.active_workspace
      created == [mawim EXCEPT !.heap[s] =
                    [next |-> NULL, x11_window |-> w, workspace |-> i,
                     row |-> -1, col |-> -1, geometry |-> NoTile]]
  IN  /\ Handle("ConfigureRequest", w)
      /\ FindInWorkspaces(mawim, w) = 0
      /\ mawim.heap[s] = Free
      /\ Finish(AppendWindow(created, i, s))

\* handle_configure_request of an unknown window, whose new struct is s
HandleConfigureNew(w, s) ==
  LET i == mawim.active_workspace
      created == [mawim EXCEPT !.heap[s] =
                    [next |-> NULL, x11_window |-> w, workspace |-> i,
                     row |-> -1, col |-> -1, geometry |-> NoTile]]
  IN  /\ Handle("ConfigureRequest", w)
      /\ FindInWorkspaces(mawim, w) = 0
      /\ mawim.heap[s] = Free
      /\ IF ActiveExists THEN Finish(ManageWindow(AppendWindow(created, i, s), s))
                         ELSE Fail("workspace index")

\* Faulty: only the active workspace is searched.
DestroyOnActiveOnly(w) ==
  LET i == mawim.active_workspace
      s == FindWindow(mawim, i, w)
  IN  /\ Handle("DestroyNotify", w)
      /\ IF s = NULL THEN UNCHANGED <<mawim, xwin>>
         ELSE Finish(RemoveWindow(UnmanageWindow(mawim, s), i, w, TRUE))

\* handle_destroy_notify
HandleDestroyNotify(w) ==
  LET i == FindInWorkspaces(mawim, w)
  IN  /\ Handle("DestroyNotify", w)
      /\ IF i = 0 THEN UNCHANGED <<mawim, xwin>>
         ELSE Finish(RemoveWindow(UnmanageWindow(mawim, FindWindow(mawim, i, w)), i, w, TRUE))

\* handle_map_request, whatever workspace the window is on
HandleMapRequest(w) ==
  /\ Handle("MapRequest", w)
  /\ xwin' = [xwin EXCEPT ![w] = IF @ = "none" THEN @ ELSE "mapped"]
  /\ UNCHANGED mawim

\* handle_leave_notify: the pointer may be over any window that the active
\* workspace lists, or over none.  For a window that is gone at the X server
\* get_hovered_window compares uninitialized attributes: it too may match.
HandleLeaveNotify ==
  /\ Handle("LeaveNotify", NULL)
  /\ IF ActiveExists
     THEN \E s \in OnList(mawim, mawim.active_workspace) \cup {NULL} :
            Finish([mawim EXCEPT !.focused_window[mawim.active_workspace] = s])
     ELSE Fail("workspace index")

HandleEvent ==
  \/ \E w \in Windows : \/ HandleConfigureKnown(w)
                        \/ \E s \in Structs : HandleConfigureNew(w, s)
                        \/ HandleDestroyNotify(w)
                        \/ HandleMapRequest(w)
  \/ HandleLeaveNotify

\* main(): XPending returns 0, the commands are next; then nanosleep.
EventsDone ==
  /\ mawim.fault = "none"
  /\ loop = "x11" /\ events = <<>>
  /\ loop' = "mawimctl"
  /\ UNCHANGED <<mawim, xwin, events>>

CommandsDone ==
  /\ mawim.fault = "none"
  /\ loop = "mawimctl"
  /\ loop' = "x11"
  /\ UNCHANGED <<mawim, xwin, events>>
-----------------------------------------------------------------------------
\* mawimctl commands: mawim_handle_ctl_command for those that change state.

Command == mawim.fault = "none" /\ loop = "mawimctl" /\ UNCHANGED loop

\* Faulty: one workspace too many.
SetWorkspaceBeyond(n) ==
  /\ Command
  /\ n <= WorkspaceCount + 1
  /\ Finish(UpdateAllWindows([mawim EXCEPT !.active_workspace = n]))
  /\ UNCHANGED events

\* handle_set_workspace
HandleSetWorkspace(n) ==
  /\ Command
  /\ n <= WorkspaceCount
  /\ Finish(UpdateAllWindows([mawim EXCEPT !.active_workspace = n]))
  /\ UNCHANGED events

\* handle_close_focused, which looks one workspace further than the active one:
\* workspaces[active_workspace] is the workspace with the next id.
HandleCloseFocused ==
  LET i == mawim.active_workspace + 1
      s == mawim.focused_window[i]
      w == mawim.heap[s].x11_window
  IN  /\ Command
      /\ IF i \notin Workspaces THEN Fail("workspace index") /\ UNCHANGED events
         ELSE IF s = NULL THEN UNCHANGED <<mawim, xwin, events>>
         ELSE IF mawim.heap[s] = Free THEN Fail("use after free") /\ UNCHANGED events
         ELSE IF xwin[w] = "none" THEN UNCHANGED <<mawim, xwin, events>>
         ELSE /\ Len(events) < MaxEvents
              /\ xwin' = [xwin EXCEPT ![w] = "none"]
              /\ events' = Append(events, Event("DestroyNotify", w))
              /\ UNCHANGED mawim

\* handle_move_focused_to_workspace
HandleMoveFocused(n) ==
  LET i == mawim.active_workspace
      s == mawim.focused_window[i]
      removed == RemoveWindow(UnmanageWindow(mawim, s), i, mawim.heap[s].x11_window, FALSE)
      moved == AppendWindow([removed EXCEPT !.heap[s].workspace = n], n, s)
  IN  /\ Command
      /\ n <= WorkspaceCount
      /\ IF i \notin Workspaces THEN Fail("workspace index")
         ELSE IF s = NULL THEN UNCHANGED <<mawim, xwin>>
         ELSE IF mawim.heap[s] = Free THEN Fail("use after free")
         ELSE IF n \notin Workspaces THEN Fail("workspace index")
         ELSE Finish(UpdateAllWindows(ManageWindow(moved, s)))
      /\ UNCHANGED events
-----------------------------------------------------------------------------
\* The X server and its clients.  X handles the requests of one client in
\* order, and tells MaWiM, which redirects the children of the root window.

Send(type, w) ==
  /\ Len(events) < MaxEvents
  /\ events' = Append(events, Event(type, w))
  /\ UNCHANGED <<mawim, loop>>

CreateWindow(w) ==
  /\ xwin[w] = "none"
  /\ xwin' = [xwin EXCEPT ![w] = "unmapped"]
  /\ UNCHANGED <<mawim, events, loop>>

ConfigureWindow(w) == xwin[w] # "none" /\ Send("ConfigureRequest", w) /\ UNCHANGED xwin

MapWindow(w) == xwin[w] = "unmapped" /\ Send("MapRequest", w) /\ UNCHANGED xwin

\* UnmapNotify is an event that mawim_handle_event does not handle.
UnmapWindow(w) ==
  /\ xwin[w] = "mapped"
  /\ xwin' = [xwin EXCEPT ![w] = "unmapped"]
  /\ UNCHANGED <<mawim, events, loop>>

DestroyWindow(w) ==
  /\ xwin[w] # "none"
  /\ xwin' = [xwin EXCEPT ![w] = "none"]
  /\ Send("DestroyNotify", w)

MovePointer == Send("LeaveNotify", NULL) /\ UNCHANGED xwin

Environment ==
  /\ mawim.fault = "none"
  /\ \/ \E w \in Windows : \/ CreateWindow(w) \/ ConfigureWindow(w) \/ MapWindow(w)
                           \/ UnmapWindow(w) \/ DestroyWindow(w)
     \/ MovePointer
-----------------------------------------------------------------------------
\* mawim_workspace_init and main()
Init ==
  /\ mawim = [heap |-> [s \in Structs |-> Free],
              first |-> [i \in Workspaces |-> NULL],
              last |-> [i \in Workspaces |-> Wild],
              focused_window |-> [i \in Workspaces |-> NULL],
              active_row |-> [i \in Workspaces |-> 0],
              row_count |-> [i \in Workspaces |-> 1],
              active_workspace |-> 1,
              updated |-> {},
              fault |-> "none"]
  /\ xwin = [w \in Windows |-> "none"]
  /\ events = <<>>
  /\ loop = "x11"

MainLoop == HandleEvent \/ EventsDone \/ CommandsDone

\* The numbers a client can send: 0, the workspaces, and one too many.
WorkspaceIds == 0 .. WorkspaceCount + 1

Next ==
  \/ Environment
  \/ MainLoop
  \/ \E n \in WorkspaceIds : HandleSetWorkspace(n) \/ HandleMoveFocused(n)
  \/ HandleCloseFocused

\* The program has one thread, which runs.  A handler ends, so that the fairness
\* of HandleEvent is that of the delivery it begins with.
Fairness == WF_events(Deliver) /\ WF_vars(EventsDone) /\ WF_vars(CommandsDone)

Spec == Init /\ [][Next]_vars /\ Fairness

\* The focus of workspace i is on a window that the workspace lists.
FocusFresh(i) == mawim.focused_window[i] \in OnList(mawim, i) \cup {NULL}

\* The same program under users who number workspaces from 1 and give a
\* command about the focus only while the code knows what it is about.
PrudentNext ==
  \/ Environment
  \/ MainLoop
  \/ \E n \in WorkspaceIds \ {0} :
       \/ HandleSetWorkspace(n)
       \/ FocusFresh(mawim.active_workspace) /\ HandleMoveFocused(n)
  \/ /\ mawim.active_workspace < WorkspaceCount
     /\ FocusFresh(mawim.active_workspace + 1)
     /\ HandleCloseFocused

PrudentSpec == Init /\ [][PrudentNext]_vars /\ Fairness
-----------------------------------------------------------------------------
ListsWindow(w) == FindInWorkspaces(mawim, w) # 0

(***************************************************************************)
(* The heap and the lists agree: every struct is on exactly one list, that *)
(* of the workspace it names, no two structs stand for one X window, and   *)
(* the last pointer of a list is at its end.  Appending, removing and      *)
(* moving are separate steps that each keep only a part of this.           *)
(***************************************************************************)
ListsConsistent ==
  LET allocated == {s \in Structs : mawim.heap[s] # Free}
  IN  /\ \A s \in allocated : {i \in Workspaces : s \in OnList(mawim, i)} = {mawim.heap[s].workspace}
      /\ \A s, t \in allocated : mawim.heap[s].x11_window = mawim.heap[t].x11_window => s = t
      /\ \A i \in Workspaces :
           mawim.first[i] # NULL => /\ mawim.last[i] \in OnList(mawim, i)
                                    /\ mawim.heap[mawim.last[i]].next = NULL

(***************************************************************************)
(* As long as users name workspaces from 1 and the focus is fresh, the     *)
(* program has defined behaviour: no handler uses a struct after it is     *)
(* freed, appends through a stale last pointer, frees an array that        *)
(* mawim_get_wins_on_row has not set, or leaves the array of workspaces.   *)
(***************************************************************************)
NeverFaults == mawim.fault = "none"

(***************************************************************************)
(* No tile is kept for a window that is gone for good: while a list has a  *)
(* struct of a window that the X server no longer knows, the DestroyNotify *)
(* that will remove it is still in the queue.                              *)
(***************************************************************************)
NoZombieTiles ==
  \A w \in Windows :
    ListsWindow(w) => \/ xwin[w] # "none"
                      \/ \E k \in DOMAIN events : events[k] = Event("DestroyNotify", w)

(***************************************************************************)
(* No list ever becomes circular, however the commands confuse it: the     *)
(* walks of src/window.c end.  mawim_append_window asks of its test        *)
(* list->last == mawim_window how a circular list could happen; without    *)
(* the test, moving a window twice to the other workspace makes one.       *)
(***************************************************************************)
NoCircularList ==
  \A i \in Workspaces : Chain(mawim, i)[Cardinality(Structs)] = NULL

(***************************************************************************)
(* row_count, by which mawim_update_window divides, is never zero, and the *)
(* active row is a row in use, even while the lists are being confused by  *)
(* commands on a stale focus, up to the step at which the program faults.  *)
(***************************************************************************)
RowCountPositive ==
  \A i \in Workspaces :
    /\ mawim.row_count[i] \in 1 .. MaxRows
    /\ mawim.active_row[i] \in 0 .. mawim.row_count[i] - 1

(***************************************************************************)
(* After a switch the windows that are mapped are those of the new active  *)
(* workspace and no other's, among the windows on the lists.               *)
(***************************************************************************)
SwitchShowsExactly ==
  [][\A n \in Workspaces : HandleSetWorkspace(n) =>
       \A w \in Windows :
         (ListsWindow(w) /\ xwin[w] # "none") =>
           (xwin'[w] = "mapped" <=> FindInWorkspaces(mawim, w) = n)]_vars

(***************************************************************************)
(* A window leaves the lists only when its DestroyNotify is handled: no    *)
(* other event and no command makes MaWiM forget a window.                 *)
(***************************************************************************)
OnlyDestroyUnlists ==
  [][\A w \in Windows :
       (ListsWindow(w) /\ ~ ListsWindow(w)' /\ mawim'.fault = "none") =>
         HandleDestroyNotify(w)]_vars

(***************************************************************************)
(* A window that is destroyed leaves its list, however many other events   *)
(* and commands there are: the event queue is drained in order, and the    *)
(* loop over commands ends.                                                *)
(***************************************************************************)
DestroyedIsUnlisted ==
  \A w \in Windows : xwin[w] = "none" ~> (~ ListsWindow(w) \/ xwin[w] # "none")

(***************************************************************************)
(* A window that asks for a configuration gets a slot of a row, unless it  *)
(* is destroyed first.                                                     *)
(***************************************************************************)
ConfiguredIsTiled ==
  \A w \in Windows :
    (\E k \in DOMAIN events : events[k] = Event("ConfigureRequest", w))
      ~> \/ xwin[w] = "none"
         \/ \E s \in Listed(mawim) : /\ mawim.heap[s].x11_window = w
                                     /\ mawim.heap[s].row >= 0 /\ mawim.heap[s].col >= 0
-----------------------------------------------------------------------------
\* What the documentation says, and the program does not keep.

(***************************************************************************)
(* MOVE_FOCUSED_TO_WORKSPACE moves a window from one workspace to another  *)
(* (doc/mawimctl.md, MAWIMCTL_MOVE_FOCUSED_TO_WORKSPACE): every window     *)
(* that was managed before it is managed after it.                         *)
(***************************************************************************)
MoveKeepsWindows ==
  [][(\E n \in WorkspaceIds : HandleMoveFocused(n)) =>
       \A w \in Windows : ListsWindow(w) => ListsWindow(w)']_vars

(***************************************************************************)
(* focused_window is the window which has the focus on the workspace       *)
(* (doc/workspaces.md): a struct, not memory that is free.                 *)
(***************************************************************************)
FocusIsAllocated ==
  \A i \in Workspaces :
    mawim.focused_window[i] # NULL => mawim.heap[mawim.focused_window[i]] # Free

(***************************************************************************)
(* The windows of the other workspaces are hidden (src/workspace.h).       *)
(***************************************************************************)
OnlyActiveShown ==
  \A w \in Windows :
    (xwin[w] = "mapped" /\ ListsWindow(w)) => FindInWorkspaces(mawim, w) = mawim.active_workspace
=============================================================================
