------------------------ MODULE WindowManagerTiling ------------------------
(***************************************************************************)
(* WindowManager implements Tiling: the lists and structs that the event   *)
(* and command handlers leave behind are a layout that Tiling's actions    *)
(* lead to.                                                                *)
(*                                                                         *)
(* The refinement mapping is the state function Desk.  It is kept in the   *)
(* auxiliary variable desk, so that TLC computes it once for a state: the  *)
(* variable always equals Desk and constrains nothing.                     *)
(***************************************************************************)
EXTENDS WindowManager

VARIABLE desk

layoutVars == <<vars, desk>>

SlotOf(m, w) ==
  LET i == FindInWorkspaces(m, w)
  IN  IF i = 0 THEN [workspace |-> 0, row |-> -1, col |-> -1, geometry |-> NoTile]
      ELSE m.heap[FindWindow(m, i, w)]

Desk(m) ==
  [workspace  |-> [w \in Windows |-> SlotOf(m, w).workspace],
   row        |-> [w \in Windows |-> SlotOf(m, w).row],
   col        |-> [w \in Windows |-> SlotOf(m, w).col],
   geometry   |-> [w \in Windows |-> SlotOf(m, w).geometry],
   row_count  |-> m.row_count,
   active_row |-> m.active_row]

Layout == INSTANCE Tiling WITH active_workspace <- mawim.active_workspace

LayoutSpec ==
  (Init /\ desk = Desk(mawim)) /\ [][PrudentNext /\ desk' = Desk(mawim')]_layoutVars

(***************************************************************************)
(* Every event and command tiles as Tiling says, or leaves the layout as   *)
(* it is, so that what is proved of Tiling holds of the lists.             *)
(***************************************************************************)
ImplementsTiling == Layout!Spec
=============================================================================
