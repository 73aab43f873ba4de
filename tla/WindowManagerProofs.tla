------------------------ MODULE WindowManagerProofs ------------------------
(***************************************************************************)
(* The same lists under prudent users (PrudentSpec), where more holds: the *)
(* lists are disjoint, each is the set of structs that name its workspace, *)
(* and every window of a list is known to the X server or about to be      *)
(* removed. From this follows that no handler faults, that windows are     *)
(* lost by their destruction only, and what a switch of workspaces shows.  *)
(***************************************************************************)
EXTENDS WindowListProofs

-----------------------------------------------------------------------------
\* Lists that share nothing.

\* H is the set of structs of a list that goes from f to l: nothing outside,
\* one link to every struct but the first, one end.
Chained(h, f, l, H) ==
  /\ Links(h, f, H)
  /\ \A s, t \in H : After(h, s) = After(h, t) /\ After(h, s) # NULL => s = t
  /\ \A s \in H : After(h, s) # NULL => After(h, s) # f
  /\ f # NULL => l \in H /\ After(h, l) = NULL /\ \A s \in H : After(h, s) = NULL => s = l

\* H[i] is the set of structs of list i, for every i, and they are disjoint.
Partition(m, H) ==
  /\ H \in [Workspaces -> SUBSET Allocated(m.heap)]
  /\ \A i, j \in Workspaces : i # j => H[i] \cap H[j] = {}
  /\ \A i \in Workspaces : Chained(m.heap, m.first[i], m.last[i], H[i])

\* A list is untouched where the links of its structs are.
LEMMA ChainedSame ==
  ASSUME NEW h, NEW g, NEW f, NEW l, NEW H, Chained(h, f, l, H),
         \A s \in H : After(g, s) = After(h, s)
  PROVE  Chained(g, f, l, H)
  BY DEF Chained, Links

\* The sets H are the lists, and all that is on them is allocated.
LEMMA PartitionLists ==
  ASSUME NEW m, Sound(m), NEW H, Partition(m, H)
  PROVE  /\ \A i \in Workspaces : OnList(m, i) = H[i] /\ H[i] \subseteq Allocated(m.heap)
         /\ Whole(m)
<1>1. m.heap \in Heap /\ Acyclic(m.heap) /\ m.first \in [Workspaces -> Structs \cup {NULL}]
  BY DEF Sound, Mawim
<1>2. ASSUME NEW i \in Workspaces
      PROVE  OnList(m, i) = H[i] /\ H[i] \subseteq Allocated(m.heap)
  <2>1. H[i] \in SUBSET Structs /\ H[i] \subseteq Allocated(m.heap)
    BY DEF Partition, Allocated
  <2>2. Links(m.heap, m.first[i], H[i])
    BY DEF Partition, Chained
  <2>3. Reach(m.heap, m.first[i]) = H[i]
    BY <1>1, <2>1, <2>2, ReachIs
  <2> QED BY <2>1, <2>3, OnListIsReach
<1> QED BY <1>2 DEF Whole

LEMMA SameListsPartition ==
  ASSUME NEW m \in Mawim, NEW a \in Mawim, SameLists(a, m), NEW H, Partition(m, H)
  PROVE  Partition(a, H)
<1>1. Allocated(a.heap) = Allocated(m.heap)
  BY SameListsSame
<1>2. \A s \in Structs : After(a.heap, s) = After(m.heap, s)
  BY DEF SameLists, SameLinks, After
<1>3. \A i \in Workspaces : Chained(a.heap, a.first[i], a.last[i], H[i])
  <2>1. \A i \in Workspaces : H[i] \subseteq Structs
    BY DEF Partition, Allocated
  <2>2. a.first = m.first /\ a.last = m.last
    BY DEF SameLists
  <2> QED BY <1>2, <2>1, <2>2, ChainedSame DEF Partition
<1> QED BY <1>1, <1>3 DEF Partition

\* The links and the pointers are the same, and no struct goes.
LEMMA SamePartition ==
  ASSUME NEW m, NEW a, NEW H, Partition(m, H), a.first = m.first, a.last = m.last,
         Allocated(m.heap) \subseteq Allocated(a.heap),
         \A t \in Structs : After(a.heap, t) = After(m.heap, t)
  PROVE  Partition(a, H)
<1>1. \A i \in Workspaces : Chained(a.heap, a.first[i], a.last[i], H[i])
  <2>1. \A i \in Workspaces : H[i] \subseteq Structs
    BY DEF Partition, Allocated
  <2> QED BY <2>1, ChainedSame DEF Partition
<1> QED BY <1>1 DEF Partition

\* mawim_append_window adds a struct that is on no list to one list.
LEMMA AppendPartition ==
  ASSUME NEW m, Sound(m), NEW H, Partition(m, H), NEW i \in Workspaces,
         NEW s \in Allocated(m.heap), \A j \in Workspaces : s \notin H[j]
  PROVE  LET a == AppendWindow(m, i, s)
         IN  Partition(a, [H EXCEPT ![i] = @ \cup {s}]) /\ a.fault = m.fault
<1> DEFINE a == AppendWindow(m, i, s)
           G == [H EXCEPT ![i] = @ \cup {s}]
<1>1. /\ a \in Mawim /\ SamePlaces(a.heap, m.heap, Structs)
      /\ OnlyStruct(a, m, i, s) \/ AlreadyLast(a, m, i, s) \/ StaleLast(a, m, i)
          \/ FollowsLast(a, m, i, s)
  BY AppendIs DEF Sound
<1> HIDE DEF a
<1>2. /\ m.heap \in Heap /\ s \in Structs /\ s # NULL /\ Allocated(a.heap) = Allocated(m.heap)
      /\ m.first \in [Workspaces -> Structs \cup {NULL}] /\ DOMAIN m.last = Workspaces
  BY <1>1, StructsFinite DEF Sound, Mawim, SamePlaces, Allocated
<1>3. /\ G \in [Workspaces -> SUBSET Allocated(a.heap)]
      /\ G[i] = H[i] \cup {s} /\ \A j \in Workspaces \ {i} : G[j] = H[j]
      /\ \A j \in Workspaces : H[j] \subseteq Structs
  BY <1>2 DEF Partition, Allocated
<1> HIDE DEF G
<1>4. \A j, k \in Workspaces : j # k => G[j] \cap G[k] = {}
  BY <1>3 DEF Partition
<1>5. Chained(m.heap, m.first[i], m.last[i], H[i])
  BY DEF Partition
<1>6. m.first[i] # NULL => m.last[i] \in H[i] /\ m.last[i] \in Allocated(m.heap) /\ m.last[i] # s
  BY <1>5 DEF Chained, Partition
<1>7. CASE OnlyStruct(a, m, i, s)
  <2>1. /\ m.first[i] = NULL /\ a.first[i] = s /\ a.last[i] = s /\ After(a.heap, s) = NULL
        /\ a.fault = m.fault
        /\ \A t \in Structs \ {s} : After(a.heap, t) = After(m.heap, t)
        /\ \A j \in Workspaces \ {i} : a.first[j] = m.first[j] /\ a.last[j] = m.last[j]
    BY <1>2, <1>7 DEF OnlyStruct
  <2>2. H[i] = {}
    BY <1>2, <2>1, ReachNull, OnListIsReach, PartitionLists
  <2>3. Chained(a.heap, s, s, {s})
    BY <2>1 DEF Chained, Links
  <2>4. ASSUME NEW j \in Workspaces \ {i}
        PROVE  Chained(a.heap, a.first[j], a.last[j], G[j])
    <3>1. \A t \in H[j] : t \in Structs /\ t # s
      BY <1>3
    <3>2. \A t \in H[j] : After(a.heap, t) = After(m.heap, t)
      BY <2>1, <3>1
    <3> QED BY <1>3, <2>1, <3>2, ChainedSame DEF Partition
  <2>5. \A j \in Workspaces : Chained(a.heap, a.first[j], a.last[j], G[j])
    BY <1>3, <2>1, <2>2, <2>3, <2>4
  <2> QED BY <1>3, <1>4, <2>1, <2>5 DEF Partition, a, G
<1>8. CASE AlreadyLast(a, m, i, s) \/ StaleLast(a, m, i)
  BY <1>6, <1>8 DEF AlreadyLast, StaleLast
<1>9. CASE FollowsLast(a, m, i, s)
  <2> DEFINE l == m.last[i]
             f == m.first[i]
  <2>1. /\ f # NULL /\ l \in H[i] /\ l # s /\ a.first = m.first /\ a.last[i] = s
        /\ After(a.heap, s) = NULL /\ After(a.heap, l) = s
        /\ a.fault = m.fault
        /\ \A t \in Structs \ {s, l} : After(a.heap, t) = After(m.heap, t)
        /\ \A j \in Workspaces \ {i} : a.last[j] = m.last[j]
    BY <1>2, <1>6, <1>9 DEF FollowsLast
  <2>2. ASSUME NEW j \in Workspaces \ {i}
        PROVE  Chained(a.heap, a.first[j], a.last[j], G[j])
    <3>1. \A t \in H[j] : t \in Structs /\ t # s /\ t # l
      BY <1>3, <2>1 DEF Partition
    <3>2. \A t \in H[j] : After(a.heap, t) = After(m.heap, t)
      BY <2>1, <3>1
    <3> QED BY <1>3, <2>1, <3>2, ChainedSame DEF Partition
  <2>3. Chained(a.heap, f, s, G[i])
    <3> DEFINE h == m.heap
               k == a.heap
               A == H[i]
    <3>1. /\ f \in A \cup {NULL} /\ \A t \in A : After(h, t) \in A \cup {NULL}
          /\ \A t \in A : t = f \/ \E u \in A : After(h, u) = t
          /\ \A t, u \in A : After(h, t) = After(h, u) /\ After(h, t) # NULL => t = u
          /\ \A t \in A : After(h, t) # NULL => After(h, t) # f
          /\ After(h, l) = NULL /\ \A t \in A : After(h, t) = NULL => t = l
      BY <1>5, <2>1 DEF Chained, Links
    <3>2. /\ G[i] = A \cup {s} /\ s \notin A /\ l \in A /\ f # NULL /\ s # NULL /\ NULL \notin A
          /\ After(k, s) = NULL /\ After(k, l) = s
          /\ \A t \in A \ {l} : After(k, t) = After(h, t)
      BY <1>2, <1>3, <2>1, StructsFinite
    <3> HIDE DEF h, k, A, l, f
    <3>3. Links(k, f, A \cup {s})
      BY <3>1, <3>2 DEF Links
    <3>4. \A t \in A \cup {s} : After(k, t) = NULL => t = s
      BY <3>1, <3>2
    <3>5. \A t, u \in A \cup {s} : After(k, t) = After(k, u) /\ After(k, t) # NULL => t = u
      BY <3>1, <3>2
    <3>6. \A t \in A \cup {s} : After(k, t) # NULL => After(k, t) # f
      BY <3>1, <3>2
    <3> QED BY <3>2, <3>3, <3>4, <3>5, <3>6 DEF Chained, k
  <2>4. \A j \in Workspaces : Chained(a.heap, a.first[j], a.last[j], G[j])
    BY <2>1, <2>2, <2>3
  <2> QED BY <1>3, <1>4, <2>1, <2>4 DEF Partition, a, G
<1> QED BY <1>1, <1>7, <1>8, <1>9

\* In r, c is off list i of m: what mawim_remove_window does to disjoint lists.
TakenOff(r, m, H, i, c, freed) ==
  /\ r \in Mawim /\ SameWorkspaces(r, m) /\ r.fault = m.fault
  /\ SamePlaces(r.heap, m.heap, Allocated(r.heap))
  /\ Allocated(r.heap) = IF freed THEN Allocated(m.heap) \ {c} ELSE Allocated(m.heap)
  /\ Partition(r, [H EXCEPT ![i] = @ \ {c}])

\* mawim_remove_window takes c, the only struct of w on list i, off that list.
LEMMA RemovePartition ==
  ASSUME NEW m, Sound(m), NEW H, Partition(m, H), NEW i \in Workspaces, NEW w,
         NEW c \in H[i], Showing(m, i, w) = {c}, NEW freed \in BOOLEAN
  PROVE  TakenOff(RemoveWindow(m, i, w, freed), m, H, i, c, freed)
<1> DEFINE r == RemoveWindow(m, i, w, freed)
           G == [H EXCEPT ![i] = @ \ {c}]
           h == m.heap
           k == r.heap
           A == H[i]
           f == m.first[i]
           l == m.last[i]
           b == After(h, c)
<1>1. m \in Mawim /\ m.heap \in Heap /\ Acyclic(m.heap) /\ Whole(m) /\ OnList(m, i) = A
      /\ m.first \in [Workspaces -> Structs \cup {NULL}] /\ DOMAIN m.last = Workspaces
  BY PartitionLists DEF Sound, Mawim
<1>2. c \in Allocated(m.heap) /\ c \in Structs /\ c # NULL
  BY StructsFinite DEF Partition, Allocated
<1>3. FindWindow(m, i, w) = c
  BY <1>2, FindWindowFinds
<1>4. /\ r \in Mawim /\ SameWorkspaces(r, m) /\ r.fault = m.fault
      /\ SamePlaces(r.heap, m.heap, Allocated(r.heap))
      /\ IF m.first[i] = NULL THEN r = m
         ELSE \E d, q \in Structs \cup {NULL} :
                IsTarget(m, i, w, d) /\ Removed(r, m, i, d, q, freed)
  BY <1>1, RemoveIs
<1>5. m.first[i] # NULL
  BY <1>1, OnListIsReach, ReachNull
<1> HIDE DEF r
<1>6. PICK p \in Structs \cup {NULL} : Removed(r, m, i, c, p, freed)
  BY <1>2, <1>3, <1>4, <1>5 DEF IsTarget
<1>7. /\ A \subseteq Structs /\ NULL \notin A
      /\ f \in A /\ \A t \in A : After(h, t) \in A \cup {NULL}
      /\ \A t \in A : t = f \/ \E u \in A : After(h, u) = t
      /\ \A t, u \in A : After(h, t) = After(h, u) /\ After(h, t) # NULL => t = u
      /\ \A t \in A : After(h, t) # NULL => After(h, t) # f
      /\ l \in A /\ After(h, l) = NULL /\ \A t \in A : After(h, t) = NULL => t = l
  BY <1>5, StructsFinite DEF Partition, Chained, Links, Allocated
<1>8. /\ p = NULL \/ (p \in A /\ p # c /\ After(h, p) = c /\ c # f)
      /\ c # f => \A t \in A : After(h, t) = c => p # NULL
      /\ \A t \in Structs \ {c} : After(k, t) = IF t = p THEN b ELSE After(h, t)
      /\ r.first[i] = (IF f = c THEN b ELSE f) /\ r.last[i] = (IF l = c THEN p ELSE l)
      /\ \A j \in Workspaces \ {i} : r.first[j] = m.first[j] /\ r.last[j] = m.last[j]
      /\ Allocated(k) = IF freed THEN Allocated(h) \ {c} ELSE Allocated(h)
  BY <1>1, <1>6 DEF Removed
<1>9. /\ G \in [Workspaces -> SUBSET Allocated(k)]
      /\ G[i] = A \ {c} /\ \A j \in Workspaces \ {i} : G[j] = H[j]
      /\ \A j \in Workspaces : H[j] \subseteq Structs
      /\ \A j \in Workspaces \ {i} : c \notin H[j] /\ p \notin H[j]
  <2>1. \A j \in Workspaces : H[j] \subseteq Structs
    BY DEF Partition, Allocated
  <2>2. \A j \in Workspaces \ {i} : c \notin H[j] /\ p \notin H[j]
    BY <1>8, <2>1, StructsFinite DEF Partition
  <2>3. G[i] = A \ {c} /\ \A j \in Workspaces \ {i} : G[j] = H[j]
    BY DEF Partition
  <2>4. \A j \in Workspaces : G[j] \subseteq Allocated(k)
    BY <1>8, <2>2, <2>3 DEF Partition
  <2> QED BY <2>1, <2>2, <2>3, <2>4 DEF Partition
<1> HIDE DEF G
<1>10. ASSUME NEW j \in Workspaces \ {i}
       PROVE  Chained(k, r.first[j], r.last[j], G[j])
  <2>1. \A t \in H[j] : t \in Structs \ {c} /\ t # p
    BY <1>9
  <2>2. \A t \in H[j] : After(k, t) = After(h, t)
    BY <1>8, <2>1
  <2> QED BY <1>8, <1>9, <2>2, ChainedSame DEF Partition
<1>11. Chained(k, r.first[i], r.last[i], A \ {c})
  <2>1. c \in A
    OBVIOUS
  <2> DEFINE F == r.first[i]
             L == r.last[i]
  <2>2. /\ \A t \in A \ {c} : After(k, t) = IF t = p THEN b ELSE After(h, t)
        /\ F = (IF f = c THEN b ELSE f) /\ L = (IF l = c THEN p ELSE l)
    BY <1>7, <1>8
  <2>3. b \in A \cup {NULL} /\ b = After(h, c)
    BY <1>7
  <2>4. b # c
    BY <1>1, <1>2, NoSelfLink
  <2> HIDE DEF k, A, f, l, b, h, F, L
  <2>5. CASE c = f
    <3>1. p = NULL /\ F = b /\ \A t \in A \ {c} : After(k, t) = After(h, t)
      BY <1>7, <1>8, <2>2, <2>5
    <3>2. Links(k, F, A \ {c})
      BY <1>7, <2>1, <2>3, <2>4, <2>5, <3>1 DEF Links
    <3>3. \A t, u \in A \ {c} : After(k, t) = After(k, u) /\ After(k, t) # NULL => t = u
      BY <1>7, <3>1
    <3>4. \A t \in A \ {c} : After(k, t) # NULL => After(k, t) # F
      BY <1>7, <2>1, <2>3, <3>1
    <3>5. F # NULL => L \in A \ {c} /\ After(k, L) = NULL /\ \A t \in A \ {c} : After(k, t) = NULL => t = L
      BY <1>7, <2>1, <2>2, <2>3, <3>1
    <3> QED BY <3>2, <3>3, <3>4, <3>5 DEF Chained, F, L
  <2>6. CASE c # f
    <3>1. p \in A \ {c} /\ After(h, p) = c /\ F = f /\ After(k, p) = b
          /\ \A t \in A \ {c, p} : After(k, t) = After(h, t)
      BY <1>7, <1>8, <2>1, <2>2, <2>6
    <3>2. Links(k, F, A \ {c})
      BY <1>7, <2>1, <2>3, <2>4, <2>6, <3>1 DEF Links
    <3>3. \A t, u \in A \ {c} : After(k, t) = After(k, u) /\ After(k, t) # NULL => t = u
      BY <1>7, <2>1, <2>3, <3>1
    <3>4. \A t \in A \ {c} : After(k, t) # NULL => After(k, t) # F
      BY <1>7, <2>1, <2>3, <3>1
    <3>5. L \in A \ {c} /\ After(k, L) = NULL /\ \A t \in A \ {c} : After(k, t) = NULL => t = L
      BY <1>7, <2>1, <2>2, <2>3, <3>1
    <3> QED BY <3>2, <3>3, <3>4, <3>5 DEF Chained, F, L
  <2> QED BY <2>5, <2>6
<1>12. \A j \in Workspaces : Chained(k, r.first[j], r.last[j], G[j])
  BY <1>9, <1>10, <1>11
<1>13. \A j, n \in Workspaces : j # n => G[j] \cap G[n] = {}
  BY <1>9 DEF Partition
<1>14. Partition(r, G)
  BY <1>9, <1>12, <1>13 DEF Partition
<1> QED BY <1>4, <1>8, <1>14 DEF TakenOff, r, G
-----------------------------------------------------------------------------
\* The lists as long as users are prudent.

Home(h, i) == {s \in Allocated(h) : h[s].workspace = i}

HomeOf(m) == [i \in Workspaces |-> Home(m.heap, i)]

\* No two structs stand for one X window.
Alone(h) == \A s, t \in Allocated(h) : h[s].x11_window = h[t].x11_window => s = t

WindowsOf(h) == {h[s].x11_window : s \in Allocated(h)}

Slotted(h, S) == \A s \in S : h[s].row >= 0 /\ h[s].col >= 0

Tidy(m) ==
  /\ Sound(m)
  /\ Partition(m, HomeOf(m))
  /\ Alone(m.heap)
  /\ m.fault = "none"
  /\ m.active_workspace \in Workspaces

\* The lists are the homes of the structs.
LEMMA TidyLists ==
  ASSUME NEW m, Tidy(m)
  PROVE  /\ m \in Mawim /\ Sound(m) /\ Whole(m)
         /\ \A i \in Workspaces : OnList(m, i) = Home(m.heap, i)
         /\ \A i \in Workspaces, w \in Windows :
              Showing(m, i, w) = {s \in Home(m.heap, i) : m.heap[s].x11_window = w}
         /\ \A s \in Allocated(m.heap) :
              /\ s \in Structs /\ s # NULL
              /\ m.heap[s].workspace \in Workspaces /\ m.heap[s].x11_window \in Windows
         /\ Listed(m) = Allocated(m.heap)
<1>1. m \in Mawim /\ Sound(m) /\ Partition(m, HomeOf(m))
  BY DEF Tidy, Sound
<1>2. Whole(m) /\ \A i \in Workspaces : OnList(m, i) = Home(m.heap, i)
  BY <1>1, PartitionLists DEF HomeOf
<1>3. \A i \in Workspaces, w \in Windows :
        Showing(m, i, w) = {s \in Home(m.heap, i) : m.heap[s].x11_window = w}
  BY <1>2 DEF Showing
<1>4. \A s \in Allocated(m.heap) :
        /\ s \in Structs /\ s # NULL
        /\ m.heap[s].workspace \in Workspaces /\ m.heap[s].x11_window \in Windows
  BY <1>1, StructsFinite DEF Mawim, Heap, Window, Allocated
<1>5. Listed(m) = Allocated(m.heap)
  BY <1>2, <1>4 DEF Listed, Home
<1> QED BY <1>1, <1>2, <1>3, <1>4, <1>5

\* The struct of a window is found, on the list of the workspace it names.
LEMMA TidyFinds ==
  ASSUME NEW m, Tidy(m), NEW w \in Windows
  PROVE  /\ w \in WindowsOf(m.heap) <=> FindInWorkspaces(m, w) # 0
         /\ \A s \in Allocated(m.heap) : m.heap[s].x11_window = w =>
              /\ FindInWorkspaces(m, w) = m.heap[s].workspace
              /\ Showing(m, m.heap[s].workspace, w) = {s}
              /\ FindWindow(m, m.heap[s].workspace, w) = s
<1> DEFINE h == m.heap
           i == FindInWorkspaces(m, w)
<1>1. /\ \A j \in Workspaces : Showing(m, j, w) = {s \in Home(h, j) : h[s].x11_window = w}
      /\ \A s \in Allocated(h) : s \in Structs /\ s # NULL /\ h[s].workspace \in Workspaces
  BY TidyLists
<1>2. \A s, t \in Allocated(h) : h[s].x11_window = h[t].x11_window => s = t
  BY DEF Tidy, Alone
<1>3. /\ i = 0 => \A j \in Workspaces : Showing(m, j, w) = {}
      /\ i # 0 => i \in Workspaces /\ Showing(m, i, w) # {}
  BY FindInWorkspacesFinds
<1>4. 0 \notin Workspaces
  BY WorkspacesNumbers
<1> HIDE DEF h, i
<1>5. ASSUME NEW s \in Allocated(h), h[s].x11_window = w
      PROVE  i = h[s].workspace /\ Showing(m, h[s].workspace, w) = {s}
  <2>1. s \in Home(h, h[s].workspace) /\ h[s].workspace \in Workspaces
    BY <1>1 DEF Home
  <2>2. Showing(m, h[s].workspace, w) = {s}
    BY <1>1, <1>2, <1>5, <2>1 DEF Home
  <2>3. i # 0
    BY <1>3, <2>1, <2>2
  <2>4. PICK t \in Showing(m, i, w) : TRUE
    BY <1>3, <2>3
  <2>5. t \in Allocated(h) /\ h[t].x11_window = w /\ h[t].workspace = i
    BY <1>1, <1>3, <2>3, <2>4 DEF Home
  <2> QED BY <1>2, <1>5, <2>2, <2>5
<1>6. ASSUME NEW s \in Allocated(h), h[s].x11_window = w
      PROVE  FindWindow(m, h[s].workspace, w) = s
  BY <1>1, <1>5, <1>6, FindWindowFinds
<1>7. w \in WindowsOf(h) => i # 0
  BY <1>1, <1>4, <1>5 DEF WindowsOf
<1>8. i # 0 => w \in WindowsOf(h)
  <2> SUFFICES ASSUME i # 0 PROVE w \in WindowsOf(h)
    OBVIOUS
  <2>1. PICK t \in Showing(m, i, w) : TRUE
    BY <1>3
  <2>2. t \in Allocated(h) /\ h[t].x11_window = w
    BY <1>1, <1>3, <2>1 DEF Home
  <2> QED BY <2>2 DEF WindowsOf
<1> QED BY <1>5, <1>6, <1>7, <1>8 DEF h, i

\* No walk over the lists ends in freed memory or in a circle.
LEMMA TidyNotBroken ==
  ASSUME NEW m, Tidy(m)
  PROVE  ~ Broken(m)
<1>1. m \in Mawim /\ Whole(m) /\ Acyclic(m.heap) /\ m.heap \in Heap
      /\ m.first \in [Workspaces -> Structs \cup {NULL}]
  BY TidyLists DEF Sound, Mawim
<1>2. \A i \in Workspaces : Chain(m, i)[Cardinality(Structs)] = NULL
  BY <1>1, ChainIsWalk, WalkEnds
<1>3. \A i \in Workspaces : \A s \in OnList(m, i) : m.heap[s] # Free
  BY <1>1 DEF Whole, Allocated
<1> QED BY <1>2, <1>3 DEF Broken

\* What names the same structs, windows and workspaces has the same homes.
LEMMA SameHomes ==
  ASSUME NEW m, NEW a, Allocated(a.heap) = Allocated(m.heap),
         \A s \in Allocated(m.heap) : /\ a.heap[s].workspace = m.heap[s].workspace
                                      /\ a.heap[s].x11_window = m.heap[s].x11_window
  PROVE  /\ HomeOf(a) = HomeOf(m) /\ WindowsOf(a.heap) = WindowsOf(m.heap)
         /\ Alone(m.heap) => Alone(a.heap)
<1>1. \A i : Home(a.heap, i) = Home(m.heap, i)
  BY DEF Home
<1>2. HomeOf(a) = HomeOf(m)
  BY <1>1 DEF HomeOf
<1>3. WindowsOf(a.heap) = WindowsOf(m.heap)
  BY DEF WindowsOf
<1> QED BY <1>2, <1>3 DEF Alone

\* A layout step keeps the lists tidy.
LEMMA SameListsTidy ==
  ASSUME NEW m, Tidy(m), NEW a \in Mawim, SameLists(a, m), RowsOK(a), a.fault = "none"
  PROVE  Tidy(a) /\ WindowsOf(a.heap) = WindowsOf(m.heap)
         /\ Allocated(a.heap) = Allocated(m.heap)
<1>1. m \in Mawim /\ Acyclic(m.heap)
  BY DEF Tidy, Sound
<1>2. Sound(a) /\ Allocated(a.heap) = Allocated(m.heap)
  BY <1>1, SameListsSound, SameListsSame
<1>3. /\ HomeOf(a) = HomeOf(m) /\ WindowsOf(a.heap) = WindowsOf(m.heap)
      /\ Alone(m.heap) => Alone(a.heap)
  <2>1. \A s \in Allocated(m.heap) : /\ a.heap[s].workspace = m.heap[s].workspace
                                     /\ a.heap[s].x11_window = m.heap[s].x11_window
    BY DEF SameLists, SameLinks, Allocated
  <2> QED BY <1>2, <2>1, SameHomes
<1>4. Partition(a, HomeOf(m))
  BY <1>1, SameListsPartition DEF Tidy
<1>5. a.active_workspace = m.active_workspace
  BY DEF SameLists
<1> QED BY <1>2, <1>3, <1>4, <1>5 DEF Tidy

\* A list to which a struct is added, one from which it goes.
LEMMA TidyAppend ==
  ASSUME NEW m, Sound(m), NEW H, Partition(m, H), NEW i \in Workspaces,
         NEW s \in Allocated(m.heap), \A j \in Workspaces : s \notin H[j],
         m.heap[s].workspace = i, Alone(m.heap), m.fault = "none",
         m.active_workspace \in Workspaces,
         \A j \in Workspaces : H[j] = Home(m.heap, j) \ {s}
  PROVE  LET a == AppendWindow(m, i, s)
         IN  Tidy(a) /\ SamePlaces(a.heap, m.heap, Structs) /\ Allocated(a.heap) = Allocated(m.heap)
             /\ WindowsOf(a.heap) = WindowsOf(m.heap) /\ SameWorkspaces(a, m)
<1> DEFINE a == AppendWindow(m, i, s)
           G == [H EXCEPT ![i] = @ \cup {s}]
<1>1. Partition(a, G) /\ a.fault = m.fault
  BY AppendPartition
<1>2. Sound(a) /\ Allocated(a.heap) = Allocated(m.heap)
  BY PartitionLists, AppendStaysSound
<1>3. SamePlaces(a.heap, m.heap, Structs) /\ SameWorkspaces(a, m)
  BY AppendIs DEF Sound
<1> HIDE DEF a
<1>4. /\ HomeOf(a) = HomeOf(m) /\ WindowsOf(a.heap) = WindowsOf(m.heap)
      /\ Alone(m.heap) => Alone(a.heap)
  <2>1. \A t \in Allocated(m.heap) : /\ a.heap[t].workspace = m.heap[t].workspace
                                     /\ a.heap[t].x11_window = m.heap[t].x11_window
    BY <1>3 DEF SamePlaces, Allocated
  <2> QED BY <1>2, <2>1, SameHomes
<1>5. G = HomeOf(m)
  <2>1. DOMAIN H = Workspaces /\ H = [j \in Workspaces |-> H[j]]
    BY DEF Partition
  <2>2. H[i] \cup {s} = Home(m.heap, i)
    BY DEF Home
  <2>3. \A j \in Workspaces \ {i} : H[j] = Home(m.heap, j)
    BY DEF Home
  <2>4. DOMAIN G = Workspaces /\ \A j \in Workspaces : G[j] = Home(m.heap, j)
    BY <2>1, <2>2, <2>3
  <2>5. G = [j \in Workspaces |-> G[j]]
    BY <2>1
  <2> HIDE DEF G
  <2> QED BY <2>4, <2>5 DEF HomeOf
<1>6. a.active_workspace = m.active_workspace
  BY <1>3 DEF SameWorkspaces
<1>7. Tidy(a)
  BY <1>1, <1>2, <1>4, <1>5, <1>6 DEF Tidy
<1> QED BY <1>2, <1>3, <1>4, <1>7 DEF a

LEMMA TidyManage ==
  ASSUME NEW m, Tidy(m), NEW s \in Allocated(m.heap),
         Slotted(m.heap, Allocated(m.heap) \ {s})
  PROVE  LET u == ManageWindow(m, s)
         IN  /\ Tidy(u) /\ WindowsOf(u.heap) = WindowsOf(m.heap)
             /\ Slotted(u.heap, Allocated(u.heap)) /\ SameLists(u, m)
<1> DEFINE u == ManageWindow(m, s)
<1>1. m \in Mawim /\ RowsOK(m) /\ Whole(m)
  BY TidyLists DEF Sound
<1>2. /\ u \in Mawim /\ SameLists(u, m) /\ RowsOK(u) /\ u.fault = m.fault
      /\ \A t \in Allocated(m.heap) \ {s} : /\ u.heap[t].row = m.heap[t].row
                                            /\ u.heap[t].col = m.heap[t].col
      /\ s \in OnList(m, m.heap[s].workspace) => u.heap[s].row >= 0 /\ u.heap[s].col >= 0
  BY <1>1, ManageKeeps
<1> HIDE DEF u
<1>3. s \in OnList(m, m.heap[s].workspace)
  BY TidyLists DEF Home
<1>4. Tidy(u) /\ WindowsOf(u.heap) = WindowsOf(m.heap) /\ Allocated(u.heap) = Allocated(m.heap)
  BY <1>2, SameListsTidy DEF Tidy
<1>5. Slotted(u.heap, Allocated(u.heap))
  BY <1>2, <1>3, <1>4 DEF Slotted
<1> QED BY <1>2, <1>4, <1>5 DEF u

LEMMA TidyUnmanage ==
  ASSUME NEW m, Tidy(m), NEW s \in Allocated(m.heap), Slotted(m.heap, Allocated(m.heap))
  PROVE  LET u == UnmanageWindow(m, s)
         IN  /\ Tidy(u) /\ WindowsOf(u.heap) = WindowsOf(m.heap) /\ SameLists(u, m)
             /\ Allocated(u.heap) = Allocated(m.heap)
             /\ Slotted(u.heap, Allocated(m.heap) \ {s})
<1> DEFINE u == UnmanageWindow(m, s)
<1>1. m \in Mawim /\ RowsOK(m) /\ Whole(m) /\ m.heap \in Heap
  BY TidyLists DEF Sound, Mawim
<1>2. m.first[m.heap[s].workspace] # NULL
  <2>1. s \in OnList(m, m.heap[s].workspace)
    BY TidyLists DEF Home
  <2> QED BY <1>1, <2>1, OnListIsReach, ReachNull
<1>3. /\ u \in Mawim /\ SameLists(u, m) /\ RowsOK(u) /\ u.fault = m.fault
      /\ (m.heap[s].row >= 0 /\ m.heap[s].col >= 0) =>
           \A t \in Allocated(m.heap) \ {s} :
             (m.heap[t].row >= 0 /\ m.heap[t].col >= 0) =>
               u.heap[t].row >= 0 /\ u.heap[t].col >= 0
  BY <1>1, <1>2, UnmanageKeeps
<1> HIDE DEF u
<1>4. Tidy(u) /\ WindowsOf(u.heap) = WindowsOf(m.heap) /\ Allocated(u.heap) = Allocated(m.heap)
  BY <1>3, SameListsTidy DEF Tidy
<1>5. Slotted(u.heap, Allocated(m.heap) \ {s})
  BY <1>3 DEF Slotted
<1> QED BY <1>3, <1>4, <1>5 DEF u

LEMMA TidyUpdate ==
  ASSUME NEW m, Tidy(m), Slotted(m.heap, Allocated(m.heap))
  PROVE  LET u == UpdateAllWindows(m)
         IN  /\ Tidy(u) /\ WindowsOf(u.heap) = WindowsOf(m.heap) /\ SameLists(u, m)
             /\ Allocated(u.heap) = Allocated(m.heap)
             /\ Slotted(u.heap, Allocated(u.heap))
             /\ u.updated = m.updated \cup Allocated(m.heap)
<1> DEFINE u == UpdateAllWindows(m)
<1>1. m \in Mawim /\ RowsOK(m) /\ Listed(m) = Allocated(m.heap)
  BY TidyLists DEF Sound
<1>2. u = UpdateWindows(m, Allocated(m.heap))
  BY <1>1 DEF UpdateAllWindows
<1>3. /\ u \in Mawim /\ SameLists(u, m) /\ RowsOK(u) /\ u.fault = m.fault
      /\ \A t \in Allocated(m.heap) : /\ u.heap[t].row = m.heap[t].row
                                      /\ u.heap[t].col = m.heap[t].col
  BY <1>1, <1>2, UpdateKeeps
<1>4. u.updated = m.updated \cup Allocated(m.heap)
  <2>1. {t \in Allocated(m.heap) : m.heap[t].row >= 0 /\ m.heap[t].col >= 0} = Allocated(m.heap)
    BY DEF Slotted
  <2> QED BY <1>1, <1>2, <2>1 DEF UpdateWindows, Mawim
<1> HIDE DEF u
<1>5. Tidy(u) /\ WindowsOf(u.heap) = WindowsOf(m.heap) /\ Allocated(u.heap) = Allocated(m.heap)
  BY <1>3, SameListsTidy DEF Tidy
<1>6. Slotted(u.heap, Allocated(u.heap))
  BY <1>3, <1>5 DEF Slotted
<1> QED BY <1>3, <1>4, <1>5, <1>6 DEF u
-----------------------------------------------------------------------------
\* What each handler hands to Finish.

\* handle_configure_request of a known window.
LEMMA ConfigureKnownTidy ==
  ASSUME NEW m, Tidy(m), Slotted(m.heap, Allocated(m.heap)), NEW w \in Windows,
         FindInWorkspaces(m, w) # 0
  PROVE  LET u == ManageWindow(m, FindWindow(m, FindInWorkspaces(m, w), w))
         IN  /\ Tidy(u) /\ WindowsOf(u.heap) = WindowsOf(m.heap)
             /\ Slotted(u.heap, Allocated(u.heap))
<1>1. PICK s \in Allocated(m.heap) : m.heap[s].x11_window = w
  BY TidyFinds DEF WindowsOf
<1>2. FindWindow(m, FindInWorkspaces(m, w), w) = s
  BY <1>1, TidyFinds
<1>3. Slotted(m.heap, Allocated(m.heap) \ {s})
  BY DEF Slotted
<1> QED BY <1>2, <1>3, TidyManage

\* A new struct is on the list of the active workspace, and has no slot yet.
LEMMA ListedNewTidy ==
  ASSUME NEW m, Tidy(m), Slotted(m.heap, Allocated(m.heap)), NEW w \in Windows,
         FindInWorkspaces(m, w) = 0, NEW s \in Structs, m.heap[s] = Free
  PROVE  LET i == m.active_workspace
             c == Created(m, s, w, i)
             a == AppendWindow(c, i, s)
         IN  /\ Tidy(a) /\ WindowsOf(a.heap) = WindowsOf(m.heap) \cup {w}
             /\ s \in Allocated(a.heap) /\ Slotted(a.heap, Allocated(a.heap) \ {s})
             /\ SamePlaces(a.heap, c.heap, Structs) /\ SameWorkspaces(a, m)
             /\ Allocated(a.heap) = Allocated(m.heap) \cup {s}
<1> DEFINE i == m.active_workspace
           H == HomeOf(m)
           c == Created(m, s, w, i)
           a == AppendWindow(c, i, s)
<1>1. m \in Mawim /\ Sound(m) /\ Whole(m) /\ i \in Workspaces /\ Partition(m, H) /\ m.fault = "none"
  BY TidyLists DEF Tidy
<1>2. w \notin WindowsOf(m.heap)
  BY TidyFinds
<1> HIDE DEF i
<1>3. /\ SameWorkspaces(c, m) /\ c.fault = m.fault
      /\ c.first = m.first /\ c.last = m.last
      /\ SamePlaces(c.heap, m.heap, Structs \ {s})
      /\ Allocated(c.heap) = Allocated(m.heap) \cup {s} /\ s \in Allocated(c.heap)
      /\ c.heap[s].x11_window = w /\ c.heap[s].workspace = i
      /\ \A t \in Structs : After(c.heap, t) = After(m.heap, t)
  BY <1>1, CreatedIs
<1>4. Sound(c)
  BY <1>1, CreatedSound
<1> HIDE DEF c
<1>5. s \notin Allocated(m.heap) /\ Allocated(m.heap) \subseteq Structs \ {s}
  BY DEF Allocated
<1>6. \A t \in Allocated(m.heap) : /\ c.heap[t].workspace = m.heap[t].workspace
                                   /\ c.heap[t].x11_window = m.heap[t].x11_window
                                   /\ c.heap[t].row = m.heap[t].row /\ c.heap[t].col = m.heap[t].col
  BY <1>3, <1>5 DEF SamePlaces, Allocated
<1>7. Partition(c, H)
  BY <1>1, <1>3, SamePartition
<1>8. \A j \in Workspaces : s \notin H[j] /\ H[j] = Home(c.heap, j) \ {s}
  BY <1>3, <1>5, <1>6 DEF HomeOf, Home
<1>9. Alone(c.heap)
  BY <1>2, <1>3, <1>6 DEF Tidy, Alone, WindowsOf
<1>10. WindowsOf(c.heap) = WindowsOf(m.heap) \cup {w}
  BY <1>3, <1>6 DEF WindowsOf
<1>11. c.active_workspace \in Workspaces /\ c.fault = "none"
  BY <1>1, <1>3 DEF SameWorkspaces, i
<1> HIDE DEF H
<1>12. Tidy(a) /\ SamePlaces(a.heap, c.heap, Structs) /\ Allocated(a.heap) = Allocated(c.heap)
       /\ WindowsOf(a.heap) = WindowsOf(c.heap) /\ SameWorkspaces(a, c)
  BY <1>1, <1>3, <1>4, <1>7, <1>8, <1>9, <1>11, TidyAppend
<1> HIDE DEF a
<1>13. Slotted(a.heap, Allocated(a.heap) \ {s})
  <2>1. \A t \in Allocated(m.heap) : a.heap[t].row = c.heap[t].row /\ a.heap[t].col = c.heap[t].col
    BY <1>3, <1>12 DEF SamePlaces, Allocated
  <2> QED BY <1>3, <1>6, <1>12, <2>1 DEF Slotted
<1>14. SameWorkspaces(a, m)
  BY <1>3, <1>12 DEF SameWorkspaces
<1> QED BY <1>3, <1>10, <1>12, <1>13, <1>14 DEF a, c, i

\* handle_configure_request of an unknown window, which is then listed and tiled.
LEMMA ConfigureNewTidy ==
  ASSUME NEW m, Tidy(m), Slotted(m.heap, Allocated(m.heap)), NEW w \in Windows,
         FindInWorkspaces(m, w) = 0, NEW s \in Structs, m.heap[s] = Free
  PROVE  LET i == m.active_workspace
             u == ManageWindow(AppendWindow(Created(m, s, w, i), i, s), s)
         IN  /\ Tidy(u) /\ WindowsOf(u.heap) = WindowsOf(m.heap) \cup {w}
             /\ Slotted(u.heap, Allocated(u.heap))
<1> DEFINE i == m.active_workspace
           a == AppendWindow(Created(m, s, w, i), i, s)
<1>1. /\ Tidy(a) /\ WindowsOf(a.heap) = WindowsOf(m.heap) \cup {w}
      /\ s \in Allocated(a.heap) /\ Slotted(a.heap, Allocated(a.heap) \ {s})
  BY ListedNewTidy
<1> HIDE DEF a
<1>2. /\ Tidy(ManageWindow(a, s)) /\ WindowsOf(ManageWindow(a, s).heap) = WindowsOf(a.heap)
      /\ Slotted(ManageWindow(a, s).heap, Allocated(ManageWindow(a, s).heap))
  BY <1>1, TidyManage
<1> QED BY <1>1, <1>2 DEF a

\* A struct without a slot is taken off its list and freed.
LEMMA RemovedTidy ==
  ASSUME NEW u, Tidy(u), NEW s \in Allocated(u.heap), Slotted(u.heap, Allocated(u.heap) \ {s})
  PROVE  LET w == u.heap[s].x11_window
             r == RemoveWindow(u, u.heap[s].workspace, w, TRUE)
         IN  /\ Tidy(r) /\ WindowsOf(r.heap) = WindowsOf(u.heap) \ {w}
             /\ Slotted(r.heap, Allocated(r.heap))
             /\ SamePlaces(r.heap, u.heap, Allocated(r.heap)) /\ SameWorkspaces(r, u)
             /\ Allocated(r.heap) = Allocated(u.heap) \ {s}
<1> DEFINE w == u.heap[s].x11_window
           i == u.heap[s].workspace
           r == RemoveWindow(u, i, w, TRUE)
           H == HomeOf(u)
<1>1. w \in Windows /\ i \in Workspaces
  BY TidyLists
<1>2. u.heap[s].x11_window = w /\ u.heap[s].workspace = i
  OBVIOUS
<1> HIDE DEF w, i
<1>3. Showing(u, i, w) = {s} /\ s \in H[i] /\ Sound(u) /\ Partition(u, H)
  BY <1>1, <1>2, TidyFinds, TidyLists DEF HomeOf, Home, Tidy
<1> HIDE DEF H
<1>4. /\ r \in Mawim /\ SameWorkspaces(r, u) /\ r.fault = u.fault
      /\ SamePlaces(r.heap, u.heap, Allocated(r.heap))
      /\ Allocated(r.heap) = Allocated(u.heap) \ {s}
      /\ Partition(r, [H EXCEPT ![i] = @ \ {s}])
  <2>1. TakenOff(r, u, H, i, s, TRUE)
    BY <1>1, <1>3, RemovePartition
  <2> HIDE DEF r
  <2> QED BY <2>1 DEF TakenOff
<1>5. Sound(r)
  BY <1>1, <1>3, RemoveStaysSound, TidyLists
<1> HIDE DEF r
<1>6. \A t \in Allocated(r.heap) :
        /\ t \in Allocated(u.heap) /\ t # s
        /\ r.heap[t].workspace = u.heap[t].workspace
        /\ r.heap[t].x11_window = u.heap[t].x11_window
        /\ r.heap[t].row = u.heap[t].row /\ r.heap[t].col = u.heap[t].col
  BY <1>4 DEF SamePlaces, Allocated
<1>7. [H EXCEPT ![i] = @ \ {s}] = HomeOf(r)
  <2> DEFINE G == [H EXCEPT ![i] = @ \ {s}]
  <2>1. \A j \in Workspaces : H[j] = Home(u.heap, j) /\ H = [k \in Workspaces |-> H[k]]
    BY DEF H, HomeOf
  <2>2. \A j \in Workspaces \ {i} : Home(r.heap, j) = Home(u.heap, j)
    BY <1>2, <1>4, <1>6 DEF Home
  <2>3. Home(r.heap, i) = Home(u.heap, i) \ {s}
    BY <1>4, <1>6 DEF Home
  <2>4. G = [k \in Workspaces |-> G[k]]
    BY <1>1, <2>1
  <2>5. \A j \in Workspaces : G[j] = Home(r.heap, j)
    BY <1>1, <2>1, <2>2, <2>3
  <2> HIDE DEF G
  <2>6. G = HomeOf(r)
    BY <2>4, <2>5 DEF HomeOf
  <2> QED BY <2>6 DEF G
<1>8. Alone(r.heap)
  BY <1>6 DEF Alone, Tidy
<1>9. r.active_workspace \in Workspaces /\ r.fault = "none"
  BY <1>4 DEF SameWorkspaces, Tidy
<1>10. Tidy(r)
  BY <1>4, <1>5, <1>7, <1>8, <1>9 DEF Tidy
<1>11. WindowsOf(r.heap) = WindowsOf(u.heap) \ {w}
  <2>1. \A t \in Allocated(u.heap) : t # s => u.heap[t].x11_window # w
    BY <1>2 DEF Tidy, Alone
  <2>2. WindowsOf(r.heap) = {u.heap[t].x11_window : t \in Allocated(r.heap)}
    BY <1>6 DEF WindowsOf
  <2>3. Allocated(r.heap) = {t \in Allocated(u.heap) : u.heap[t].x11_window # w}
    BY <1>2, <1>4, <2>1
  <2> QED BY <2>2, <2>3 DEF WindowsOf
<1>12. Slotted(r.heap, Allocated(r.heap))
  BY <1>4, <1>6 DEF Slotted
<1> QED BY <1>4, <1>10, <1>11, <1>12 DEF r, w, i

\* handle_destroy_notify, after which the window is not listed.
LEMMA DestroyTidy ==
  ASSUME NEW m, Tidy(m), Slotted(m.heap, Allocated(m.heap)), NEW w \in Windows,
         FindInWorkspaces(m, w) # 0
  PROVE  LET i == FindInWorkspaces(m, w)
             r == RemoveWindow(UnmanageWindow(m, FindWindow(m, i, w)), i, w, TRUE)
         IN  /\ Tidy(r) /\ WindowsOf(r.heap) = WindowsOf(m.heap) \ {w}
             /\ Slotted(r.heap, Allocated(r.heap))
<1> DEFINE i == FindInWorkspaces(m, w)
<1>1. PICK s \in Allocated(m.heap) : m.heap[s].x11_window = w
  BY TidyFinds DEF WindowsOf
<1>2. i = m.heap[s].workspace /\ FindWindow(m, i, w) = s /\ i \in Workspaces
  BY <1>1, TidyFinds, TidyLists
<1> HIDE DEF i
<1> DEFINE u == UnmanageWindow(m, s)
           r == RemoveWindow(u, i, w, TRUE)
<1>3. /\ Tidy(u) /\ WindowsOf(u.heap) = WindowsOf(m.heap) /\ SameLists(u, m)
      /\ Allocated(u.heap) = Allocated(m.heap)
      /\ Slotted(u.heap, Allocated(m.heap) \ {s})
  BY TidyUnmanage
<1> HIDE DEF u
<1>4. s \in Allocated(u.heap) /\ u.heap[s].x11_window = w /\ u.heap[s].workspace = i
  BY <1>1, <1>2, <1>3 DEF SameLists, SameLinks, Allocated
<1>5. /\ Tidy(r) /\ WindowsOf(r.heap) = WindowsOf(u.heap) \ {w}
      /\ Slotted(r.heap, Allocated(r.heap))
  BY <1>3, <1>4, RemovedTidy
<1> QED BY <1>2, <1>3, <1>5 DEF r, u, i

\* A struct that the active workspace lists goes to the list of workspace n.
LEMMA MovedTidy ==
  ASSUME NEW m, Tidy(m), Slotted(m.heap, Allocated(m.heap)),
         NEW s \in Home(m.heap, m.active_workspace), NEW n \in Workspaces
  PROVE  LET u == UnmanageWindow(m, s)
             v == Moved(m, s, n)
         IN  /\ Tidy(v) /\ WindowsOf(v.heap) = WindowsOf(m.heap)
             /\ s \in Allocated(v.heap) /\ Slotted(v.heap, Allocated(v.heap) \ {s})
             /\ SamePlaces(v.heap, Renamed(u, s, n).heap, Structs) /\ SameWorkspaces(v, u)
             /\ Allocated(v.heap) = Allocated(m.heap)
<1> DEFINE i == m.active_workspace
           w == m.heap[s].x11_window
           u == UnmanageWindow(m, s)
           H == HomeOf(u)
           r == RemoveWindow(u, i, w, FALSE)
           a == Renamed(r, s, n)
           v == AppendWindow(a, n, s)
           G == [H EXCEPT ![i] = @ \ {s}]
<1>1. i \in Workspaces /\ s \in Allocated(m.heap) /\ m.heap[s].workspace = i /\ w \in Windows
  BY TidyLists DEF Tidy, Home
<1> HIDE DEF i, w
<1>2. /\ Tidy(u) /\ WindowsOf(u.heap) = WindowsOf(m.heap) /\ SameLists(u, m)
      /\ Allocated(u.heap) = Allocated(m.heap)
      /\ Slotted(u.heap, Allocated(m.heap) \ {s})
  BY <1>1, TidyUnmanage
<1> HIDE DEF u
<1>3. s \in Allocated(u.heap) /\ u.heap[s].x11_window = w /\ u.heap[s].workspace = i
  BY <1>1, <1>2 DEF SameLists, SameLinks, Allocated, w
<1>4. Showing(u, i, w) = {s} /\ s \in H[i] /\ Sound(u) /\ Partition(u, H)
  BY <1>1, <1>2, <1>3, TidyFinds, TidyLists DEF HomeOf, Home, Tidy
<1>5. \A j \in Workspaces : H[j] = Home(u.heap, j)
  BY DEF HomeOf
<1> HIDE DEF H
<1>6. /\ r \in Mawim /\ SameWorkspaces(r, u) /\ r.fault = u.fault
      /\ SamePlaces(r.heap, u.heap, Allocated(r.heap))
      /\ Allocated(r.heap) = Allocated(u.heap)
      /\ Partition(r, G)
  <2>1. TakenOff(r, u, H, i, s, FALSE)
    BY <1>1, <1>4, RemovePartition
  <2> HIDE DEF r
  <2> QED BY <2>1 DEF TakenOff
<1>7. Sound(r)
  BY <1>1, <1>2, <1>4, RemoveStaysSound, TidyLists
<1>8. Whole(r)
  BY <1>6, <1>7, PartitionLists
<1> HIDE DEF r
<1>9. /\ SameWorkspaces(a, r) /\ a.fault = r.fault
      /\ a.first = r.first /\ a.last = r.last
      /\ SamePlaces(a.heap, r.heap, Structs \ {s})
      /\ Allocated(a.heap) = Allocated(r.heap)
      /\ a.heap[s].x11_window = r.heap[s].x11_window /\ a.heap[s].workspace = n
      /\ \A t \in Structs : After(a.heap, t) = After(r.heap, t)
  <2>1. r \in Mawim /\ s \in Allocated(r.heap)
    BY <1>3, <1>6
  <2>2. /\ SameWorkspaces(a, r) /\ a.fault = r.fault
        /\ a.first = r.first /\ a.last = r.last
        /\ SamePlaces(a.heap, r.heap, Structs \ {s})
        /\ Allocated(a.heap) = Allocated(r.heap)
    BY <2>1, RenamedIs
  <2>3. /\ a.heap[s].x11_window = r.heap[s].x11_window /\ a.heap[s].workspace = n
        /\ \A t \in Structs : After(a.heap, t) = After(r.heap, t)
    BY <2>1, RenamedIs
  <2> QED BY <2>2, <2>3
<1>10. Sound(a)
  BY <1>3, <1>6, <1>7, <1>8, RenamedStaysSound
<1> HIDE DEF a
<1>11. /\ s \in Allocated(a.heap) /\ Allocated(a.heap) = Allocated(m.heap)
       /\ \A t \in Allocated(m.heap) :
            /\ a.heap[t].x11_window = u.heap[t].x11_window
            /\ t # s => /\ a.heap[t].workspace = u.heap[t].workspace
                        /\ a.heap[t].row = u.heap[t].row /\ a.heap[t].col = u.heap[t].col
  <2>1. \A t \in Allocated(m.heap) :
          /\ t \in Structs /\ u.heap[t] # Free /\ r.heap[t] # Free
    BY <1>2, <1>6 DEF Allocated
  <2>2. \A t \in Allocated(m.heap) :
            /\ r.heap[t].x11_window = u.heap[t].x11_window
            /\ r.heap[t].workspace = u.heap[t].workspace
            /\ r.heap[t].row = u.heap[t].row /\ r.heap[t].col = u.heap[t].col
    BY <1>2, <1>6, <2>1 DEF SamePlaces
  <2>3. \A t \in Allocated(m.heap) \ {s} :
            /\ a.heap[t].x11_window = r.heap[t].x11_window
            /\ a.heap[t].workspace = r.heap[t].workspace
            /\ a.heap[t].row = r.heap[t].row /\ a.heap[t].col = r.heap[t].col
    BY <1>9, <2>1 DEF SamePlaces
  <2> QED BY <1>2, <1>3, <1>6, <1>9, <2>2, <2>3
<1>12. Partition(a, G)
  BY <1>6, <1>9, SamePartition
<1>13. \A j \in Workspaces : s \notin G[j] /\ G[j] = Home(a.heap, j) \ {s}
  <2>1. DOMAIN H = Workspaces
    BY <1>4 DEF Partition
  <2>2. \A j \in Workspaces : G[j] = Home(u.heap, j) \ {s}
    BY <1>3, <1>5, <2>1 DEF Home
  <2>3. \A j \in Workspaces : Home(a.heap, j) \ {s} = Home(u.heap, j) \ {s}
    BY <1>2, <1>11 DEF Home
  <2> QED BY <2>2, <2>3
<1> HIDE DEF G
<1>14. Alone(a.heap) /\ WindowsOf(a.heap) = WindowsOf(u.heap)
  <2>1. Alone(u.heap)
    BY <1>2 DEF Tidy
  <2> QED BY <1>2, <1>11, <2>1 DEF Alone, WindowsOf
<1>15. a.active_workspace \in Workspaces /\ a.fault = "none"
  BY <1>2, <1>6, <1>9 DEF SameWorkspaces, Tidy
<1>16. Tidy(v) /\ SamePlaces(v.heap, a.heap, Structs) /\ Allocated(v.heap) = Allocated(a.heap)
       /\ WindowsOf(v.heap) = WindowsOf(a.heap) /\ SameWorkspaces(v, a)
  BY <1>9, <1>10, <1>11, <1>12, <1>13, <1>14, <1>15, TidyAppend
<1>17. v = Moved(m, s, n)
  BY DEF Moved, a, r, u, i, w
<1> HIDE DEF v
<1>18. Slotted(v.heap, Allocated(v.heap) \ {s})
  <2>1. \A t \in Allocated(v.heap) : v.heap[t].row = a.heap[t].row /\ v.heap[t].col = a.heap[t].col
    BY <1>16 DEF SamePlaces, Allocated
  <2> QED BY <1>2, <1>11, <1>16, <2>1 DEF Slotted
<1>19. SameWorkspaces(v, u)
  BY <1>6, <1>9, <1>16 DEF SameWorkspaces
<1>20. SamePlaces(v.heap, Renamed(u, s, n).heap, Structs)
  <2> DEFINE g == Renamed(u, s, n).heap
             k == Renamed(r, s, n).heap
  <2>1. u \in Mawim /\ r \in Mawim /\ s \in Structs
    BY <1>1, <1>2, <1>6 DEF Tidy, Sound, Allocated
  <2>2. g = [u.heap EXCEPT ![s].workspace = n] /\ k = [r.heap EXCEPT ![s].workspace = n]
    BY <2>1 DEF Renamed, Mawim
  <2>3. SamePlaces(r.heap, u.heap, Structs)
    BY <1>6 DEF SamePlaces, Allocated
  <2>4. u.heap \in Heap /\ r.heap \in Heap /\ u.heap[s] \in Window /\ r.heap[s] \in Window
    BY <1>3, <1>6, <2>1 DEF Mawim, Heap, Allocated
  <2>5. /\ g[s] \in Window /\ k[s] \in Window
        /\ g[s].x11_window = u.heap[s].x11_window /\ k[s].x11_window = r.heap[s].x11_window
        /\ g[s].workspace = n /\ k[s].workspace = n
        /\ g[s].row = u.heap[s].row /\ k[s].row = r.heap[s].row
        /\ g[s].col = u.heap[s].col /\ k[s].col = r.heap[s].col
        /\ g[s].geometry = u.heap[s].geometry /\ k[s].geometry = r.heap[s].geometry
    BY <2>1, <2>2, <2>4 DEF Heap, Window
  <2>6. \A t \in Structs \ {s} : g[t] = u.heap[t] /\ k[t] = r.heap[t]
    BY <2>2, <2>4 DEF Heap
  <2> HIDE DEF g, k
  <2>7. SamePlaces(k, g, Structs)
    BY <1>3, <1>6, <2>1, <2>3, <2>5, <2>6, FreeAssumption DEF SamePlaces, Allocated
  <2>8. SamePlaces(v.heap, k, Structs)
    BY <1>16 DEF a, k
  <2> QED BY <2>7, <2>8 DEF SamePlaces, g
<1> QED BY <1>2, <1>11, <1>14, <1>16, <1>17, <1>18, <1>19, <1>20 DEF u

\* handle_move_focused_to_workspace of a fresh focus: no window is lost.
LEMMA MoveTidy ==
  ASSUME NEW m, Tidy(m), Slotted(m.heap, Allocated(m.heap)),
         NEW s \in Home(m.heap, m.active_workspace), NEW n \in Workspaces
  PROVE  LET u == UpdateAllWindows(ManageWindow(Moved(m, s, n), s))
         IN  /\ Tidy(u) /\ WindowsOf(u.heap) = WindowsOf(m.heap)
             /\ Slotted(u.heap, Allocated(u.heap))
<1> DEFINE v == Moved(m, s, n)
           z == ManageWindow(v, s)
<1>1. /\ Tidy(v) /\ WindowsOf(v.heap) = WindowsOf(m.heap)
      /\ s \in Allocated(v.heap) /\ Slotted(v.heap, Allocated(v.heap) \ {s})
  BY MovedTidy
<1> HIDE DEF v
<1>2. Tidy(z) /\ WindowsOf(z.heap) = WindowsOf(v.heap) /\ Slotted(z.heap, Allocated(z.heap))
  BY <1>1, TidyManage
<1> HIDE DEF z
<1>3. Tidy(UpdateAllWindows(z)) /\ WindowsOf(UpdateAllWindows(z).heap) = WindowsOf(z.heap)
      /\ Slotted(UpdateAllWindows(z).heap, Allocated(UpdateAllWindows(z).heap))
  BY <1>2, TidyUpdate
<1> QED BY <1>1, <1>2, <1>3 DEF z, v
-----------------------------------------------------------------------------
\* The queue of X events.

\* A DestroyNotify of w comes behind place k of the queue q.
Doomed(q, k, w) == \E j \in k + 1 .. Len(q) : q[j] = Event("DestroyNotify", w)

\* What the lists show, and what a request will put there, is either known to
\* the X server or doomed.
Queued ==
  /\ \A w \in WindowsOf(mawim.heap) : xwin[w] = "none" => Doomed(events, 0, w)
  /\ \A k \in 1 .. Len(events), w \in Windows :
       events[k] = Event("ConfigureRequest", w) /\ xwin[w] = "none" => Doomed(events, k, w)

PrudentInv ==
  /\ ListInv
  /\ Tidy(mawim)
  /\ Slotted(mawim.heap, Allocated(mawim.heap))
  /\ Queued

Queue == Seq([type : EventTypes, window : Windows \cup {NULL}])

LEMMA EventsDiffer ==
  ASSUME NEW v, NEW w, NEW s, NEW t, Event(s, v) = Event(t, w)
  PROVE  s = t /\ v = w
<1>1. Event(s, v).type = s /\ Event(t, w).type = t /\ Event(s, v).window = v /\ Event(t, w).window = w
  BY DEF Event
<1> QED BY <1>1

LEMMA DoomedBehindHead ==
  ASSUME NEW q \in Queue, q # <<>>, NEW k \in Nat, k <= Len(q) - 1, NEW w, Doomed(q, k + 1, w)
  PROVE  Doomed(Tail(q), k, w)
<1>1. PICK j \in k + 2 .. Len(q) : q[j] = Event("DestroyNotify", w)
  BY DEF Doomed
<1>2. /\ Len(q) \in Nat /\ Len(Tail(q)) = Len(q) - 1
      /\ \A n \in 1 .. Len(q) - 1 : Tail(q)[n] = q[n + 1]
  BY DEF Queue
<1>3. j - 1 \in k + 1 .. Len(Tail(q)) /\ j - 1 \in 1 .. Len(q) - 1 /\ (j - 1) + 1 = j
  BY <1>1, <1>2
<1>4. Tail(q)[j - 1] = Event("DestroyNotify", w)
  BY <1>1, <1>2, <1>3
<1> QED BY <1>3, <1>4 DEF Doomed

LEMMA DoomedStays ==
  ASSUME NEW q \in Queue, NEW k \in Nat, NEW w, NEW e \in [type : EventTypes, window : Windows \cup {NULL}],
         Doomed(q, k, w)
  PROVE  Doomed(Append(q, e), k, w)
<1>1. PICK j \in k + 1 .. Len(q) : q[j] = Event("DestroyNotify", w)
  BY DEF Doomed
<1>2. /\ Len(q) \in Nat /\ Len(Append(q, e)) = Len(q) + 1
      /\ \A n \in 1 .. Len(q) : Append(q, e)[n] = q[n]
  BY DEF Queue
<1>3. j \in k + 1 .. Len(Append(q, e)) /\ j \in 1 .. Len(q)
  BY <1>1, <1>2
<1> QED BY <1>1, <1>2, <1>3 DEF Doomed

\* An event is delivered: it adds the window that it asks for, at most, and a
\* DestroyNotify takes its window off.
LEMMA QueuedDelivered ==
  ASSUME Queued, events \in Queue, Deliver,
         \A w \in Windows : xwin'[w] = "none" => xwin[w] = "none",
         WindowsOf(mawim'.heap) \subseteq Windows,
         \A w \in WindowsOf(mawim'.heap) :
           \/ w \in WindowsOf(mawim.heap) /\ Head(events) # Event("DestroyNotify", w)
           \/ Head(events) = Event("ConfigureRequest", w)
  PROVE  Queued'
<1>1. /\ events # <<>> /\ events' = Tail(events) /\ Len(events) \in Nat \ {0}
      /\ Head(events) = events[1]
      /\ Len(events') = Len(events) - 1
      /\ \A n \in 1 .. Len(events) - 1 : events'[n] = events[n + 1]
  BY DEF Deliver, Queue
<1>2. ASSUME NEW w \in WindowsOf(mawim'.heap), xwin'[w] = "none"
      PROVE  Doomed(events', 0, w)
  <2>1. xwin[w] = "none" /\ w \in Windows
    BY <1>2
  <2>2. Doomed(events, 1, w)
    <3>1. CASE w \in WindowsOf(mawim.heap) /\ Head(events) # Event("DestroyNotify", w)
      <4>1. PICK j \in 1 .. Len(events) : events[j] = Event("DestroyNotify", w)
        BY <2>1, <3>1 DEF Queued, Doomed
      <4>2. j # 1
        BY <1>1, <3>1, <4>1
      <4>3. j \in 1 + 1 .. Len(events)
        BY <1>1, <4>1, <4>2
      <4> QED BY <4>1, <4>3 DEF Doomed
    <3>2. CASE Head(events) = Event("ConfigureRequest", w)
      BY <1>1, <2>1, <3>2 DEF Queued
    <3> QED BY <3>1, <3>2
  <2> QED BY <1>1, <2>2, DoomedBehindHead
<1>3. ASSUME NEW k \in 1 .. Len(events'), NEW w \in Windows,
             events'[k] = Event("ConfigureRequest", w), xwin'[w] = "none"
      PROVE  Doomed(events', k, w)
  <2>1. k + 1 \in 1 .. Len(events) /\ events[k + 1] = Event("ConfigureRequest", w)
        /\ k \in Nat /\ k <= Len(events) - 1
    BY <1>1, <1>3
  <2>2. Doomed(events, k + 1, w)
    BY <1>3, <2>1 DEF Queued
  <2> QED BY <1>1, <2>1, <2>2, DoomedBehindHead
<1> QED BY <1>2, <1>3 DEF Queued

\* The X server tells of something new.
LEMMA QueuedSent ==
  ASSUME Queued, events \in Queue, NEW e \in [type : EventTypes, window : Windows \cup {NULL}],
         events' = Append(events, e), mawim' = mawim, WindowsOf(mawim.heap) \subseteq Windows,
         \A w \in Windows : xwin'[w] = "none" => xwin[w] = "none" \/ e = Event("DestroyNotify", w),
         \A w \in Windows : e = Event("ConfigureRequest", w) => xwin'[w] # "none"
  PROVE  Queued'
<1> DEFINE N == Len(events)
<1>1. /\ N \in Nat /\ Len(events') = N + 1 /\ events'[N + 1] = e
      /\ \A n \in 1 .. N : events'[n] = events[n]
  BY DEF Queue
<1>2. ASSUME NEW w \in Windows, NEW k \in 0 .. N, e = Event("DestroyNotify", w)
      PROVE  Doomed(events', k, w)
  <2>1. N + 1 \in k + 1 .. Len(events')
    BY <1>1
  <2> QED BY <1>1, <1>2, <2>1 DEF Doomed
<1>3. ASSUME NEW w \in WindowsOf(mawim'.heap), xwin'[w] = "none"
      PROVE  Doomed(events', 0, w)
  <2>1. w \in Windows /\ w \in WindowsOf(mawim.heap)
    OBVIOUS
  <2>2. CASE e = Event("DestroyNotify", w)
    BY <1>1, <1>2, <2>1, <2>2
  <2>3. CASE xwin[w] = "none"
    BY <2>1, <2>3, DoomedStays DEF Queued
  <2> QED BY <1>3, <2>1, <2>2, <2>3
<1>4. ASSUME NEW k \in 1 .. Len(events'), NEW w \in Windows,
             events'[k] = Event("ConfigureRequest", w), xwin'[w] = "none"
      PROVE  Doomed(events', k, w)
  <2>1. k \in 1 .. N /\ k \in Nat /\ events[k] = Event("ConfigureRequest", w)
    BY <1>1, <1>4
  <2>2. CASE e = Event("DestroyNotify", w)
    BY <1>1, <1>2, <2>1, <2>2
  <2>3. CASE xwin[w] = "none"
    BY <2>1, <2>3, DoomedStays DEF Queued
  <2> QED BY <1>4, <2>2, <2>3
<1> QED BY <1>3, <1>4 DEF Queued

\* Nothing was queued or delivered.
LEMMA QueuedSame ==
  ASSUME Queued, events' = events, WindowsOf(mawim'.heap) = WindowsOf(mawim.heap),
         WindowsOf(mawim.heap) \subseteq Windows,
         \A w \in Windows : xwin'[w] = "none" => xwin[w] = "none"
  PROVE  Queued'
<1>1. \A w \in WindowsOf(mawim'.heap) : w \in Windows /\ w \in WindowsOf(mawim.heap)
  OBVIOUS
<1> QED BY <1>1 DEF Queued

\* The end of a handler finds the lists whole, and changes none.
LEMMA FinishTidy ==
  ASSUME NEW m, Tidy(m), Slotted(m.heap, Allocated(m.heap)), Finish(m)
  PROVE  /\ Tidy(mawim') /\ mawim'.heap = m.heap
         /\ Slotted(mawim'.heap, Allocated(mawim'.heap))
         /\ \A w \in Windows : xwin'[w] = "none" => xwin[w] = "none"
         /\ WindowsOf(mawim'.heap) \subseteq Windows
<1>1. ~ Broken(m) /\ m.fault = "none" /\ m \in Mawim /\ RowsOK(m)
  BY TidyNotBroken, TidyLists DEF Tidy, Sound
<1>2. mawim' = [m EXCEPT !.updated = {}, !.fault = m.fault]
  BY <1>1 DEF Finish
<1>3. /\ mawim' \in Mawim /\ mawim'.heap = m.heap /\ mawim'.first = m.first /\ mawim'.last = m.last
      /\ mawim'.focused_window = m.focused_window
      /\ mawim'.active_workspace = m.active_workspace
      /\ mawim'.row_count = m.row_count /\ mawim'.active_row = m.active_row
      /\ mawim'.fault = "none"
  BY <1>1, <1>2 DEF Mawim
<1>4. SameLists(mawim', m) /\ RowsOK(mawim')
  BY <1>1, <1>3 DEF SameLists, SameLinks, RowsOK
<1>5. Tidy(mawim')
  BY <1>3, <1>4, SameListsTidy
<1>6. \A w \in Windows : xwin'[w] = "none" => xwin[w] = "none"
  BY DEF Finish
<1>7. WindowsOf(mawim'.heap) \subseteq Windows
  BY <1>3, TidyLists DEF WindowsOf
<1> QED BY <1>3, <1>5, <1>6, <1>7
-----------------------------------------------------------------------------
\* The inductive invariant, and the window that a step takes off the lists.

Kept ==
  /\ Tidy(mawim')
  /\ Slotted(mawim'.heap, Allocated(mawim'.heap))
  /\ Queued'
  /\ \A w \in WindowsOf(mawim.heap) \ WindowsOf(mawim'.heap) : HandleDestroyNotify(w)

LEMMA PrudentTypes ==
  ASSUME PrudentInv
  PROVE  /\ mawim \in Mawim /\ events \in Queue /\ WindowsOf(mawim.heap) \subseteq Windows
         /\ xwin \in [Windows -> {"none", "unmapped", "mapped"}]
  BY MawimType, TidyLists DEF PrudentInv, ListInv, WindowsOf, Queue

\* The handlers of X events keep the invariant.
LEMMA EventTidy ==
  ASSUME PrudentInv, HandleEvent
  PROVE  Kept
<1>1. Deliver
  BY DEF HandleEvent, HandleConfigureKnown, HandleConfigureNew, HandleDestroyNotify,
         HandleMapRequest, HandleLeaveNotify, Handle
<1>2. /\ Tidy(mawim) /\ Slotted(mawim.heap, Allocated(mawim.heap)) /\ Queued
      /\ events \in Queue /\ mawim \in Mawim /\ WindowsOf(mawim.heap) \subseteq Windows
      /\ xwin \in [Windows -> {"none", "unmapped", "mapped"}]
  BY PrudentTypes DEF PrudentInv
<1>3. \A type, v : Head(events) = Event(type, v) /\ type # "DestroyNotify" =>
                     \A w : Head(events) # Event("DestroyNotify", w)
  BY EventsDiffer
<1>4. ASSUME NEW m, Tidy(m), Slotted(m.heap, Allocated(m.heap)), Finish(m),
             WindowsOf(mawim.heap) \subseteq WindowsOf(m.heap),
             \A w : Head(events) # Event("DestroyNotify", w),
             \A w \in WindowsOf(m.heap) \ WindowsOf(mawim.heap) :
               Head(events) = Event("ConfigureRequest", w)
      PROVE  Kept
  <2>1. /\ Tidy(mawim') /\ mawim'.heap = m.heap
        /\ Slotted(mawim'.heap, Allocated(mawim'.heap))
        /\ \A w \in Windows : xwin'[w] = "none" => xwin[w] = "none"
        /\ WindowsOf(mawim'.heap) \subseteq Windows
    BY <1>4, FinishTidy
  <2>2. Queued'
    BY <1>1, <1>2, <1>4, <2>1, QueuedDelivered
  <2> QED BY <1>4, <2>1, <2>2 DEF Kept
<1>5. ASSUME NEW w \in Windows, HandleConfigureKnown(w)
      PROVE  Kept
  <2> DEFINE u == ManageWindow(mawim, FindWindow(mawim, FindInWorkspaces(mawim, w), w))
  <2>1. FindInWorkspaces(mawim, w) # 0 /\ Finish(u) /\ Head(events) = Event("ConfigureRequest", w)
    BY <1>5 DEF HandleConfigureKnown, Handle
  <2>2. Tidy(u) /\ WindowsOf(u.heap) = WindowsOf(mawim.heap) /\ Slotted(u.heap, Allocated(u.heap))
    BY <1>2, <2>1, ConfigureKnownTidy
  <2> HIDE DEF u
  <2> QED BY <1>3, <1>4, <2>1, <2>2
<1>6. ASSUME NEW w \in Windows, NEW s \in Structs, HandleConfigureNew(w, s)
      PROVE  Kept
  <2> DEFINE i == mawim.active_workspace
             u == ManageWindow(AppendWindow(Created(mawim, s, w, i), i, s), s)
  <2>1. ActiveExists
    BY <1>2 DEF ActiveExists, Tidy
  <2>2. /\ FindInWorkspaces(mawim, w) = 0 /\ mawim.heap[s] = Free /\ Finish(u)
        /\ Head(events) = Event("ConfigureRequest", w)
    BY <1>6, <2>1 DEF HandleConfigureNew, Created, Handle
  <2>3. Tidy(u) /\ WindowsOf(u.heap) = WindowsOf(mawim.heap) \cup {w}
        /\ Slotted(u.heap, Allocated(u.heap))
    BY <1>2, <2>2, ConfigureNewTidy
  <2> HIDE DEF u
  <2> QED BY <1>3, <1>4, <2>2, <2>3
<1>7. ASSUME NEW w \in Windows, HandleDestroyNotify(w)
      PROVE  Kept
  <2> DEFINE i == FindInWorkspaces(mawim, w)
             r == RemoveWindow(UnmanageWindow(mawim, FindWindow(mawim, i, w)), i, w, TRUE)
  <2>1. /\ Head(events) = Event("DestroyNotify", w)
        /\ IF i = 0 THEN UNCHANGED <<mawim, xwin>> ELSE Finish(r)
    BY <1>7 DEF HandleDestroyNotify, Handle
  <2>2. \A v \in Windows \ {w} : Head(events) # Event("DestroyNotify", v)
    BY <2>1, EventsDiffer
  <2>3. CASE i = 0
    <3>1. mawim' = mawim /\ xwin' = xwin
      BY <2>1, <2>3
    <3>2. w \notin WindowsOf(mawim.heap)
      BY <1>2, <2>3, TidyFinds
    <3>3. Queued'
      BY <1>1, <1>2, <2>2, <3>1, <3>2, QueuedDelivered
    <3> QED BY <1>2, <3>1, <3>3 DEF Kept
  <2>4. CASE i # 0
    <3>1. Tidy(r) /\ WindowsOf(r.heap) = WindowsOf(mawim.heap) \ {w}
          /\ Slotted(r.heap, Allocated(r.heap)) /\ Finish(r)
      BY <1>2, <2>1, <2>4, DestroyTidy
    <3> HIDE DEF r
    <3>2. /\ Tidy(mawim') /\ mawim'.heap = r.heap
          /\ Slotted(mawim'.heap, Allocated(mawim'.heap))
          /\ \A v \in Windows : xwin'[v] = "none" => xwin[v] = "none"
          /\ WindowsOf(mawim'.heap) \subseteq Windows
      BY <3>1, FinishTidy
    <3>3. Queued'
      BY <1>1, <1>2, <2>2, <3>1, <3>2, QueuedDelivered
    <3> QED BY <1>7, <3>1, <3>2, <3>3 DEF Kept
  <2> QED BY <2>3, <2>4
<1>8. ASSUME NEW w \in Windows, HandleMapRequest(w)
      PROVE  Kept
  <2>1. /\ mawim' = mawim /\ Head(events) = Event("MapRequest", w)
        /\ xwin' = [xwin EXCEPT ![w] = IF @ = "none" THEN @ ELSE "mapped"]
    BY <1>8 DEF HandleMapRequest, Handle
  <2>2. \A v \in Windows : xwin'[v] = "none" => xwin[v] = "none"
    BY <1>2, <2>1
  <2>3. Queued'
    BY <1>1, <1>2, <1>3, <2>1, <2>2, QueuedDelivered
  <2> QED BY <1>2, <2>1, <2>3 DEF Kept
<1>9. ASSUME HandleLeaveNotify
      PROVE  Kept
  <2> DEFINE i == mawim.active_workspace
  <2>1. i \in Workspaces
    BY <1>2 DEF Tidy
  <2>2. PICK s \in OnList(mawim, i) \cup {NULL} : Finish([mawim EXCEPT !.focused_window[i] = s])
    BY <1>9, <2>1 DEF HandleLeaveNotify, ActiveExists
  <2>3. Head(events) = Event("LeaveNotify", NULL)
    BY <1>9 DEF HandleLeaveNotify, Handle
  <2> DEFINE a == [mawim EXCEPT !.focused_window[i] = s]
  <2>4. s \in Structs \cup {NULL}
    BY <1>2, <2>1, OnListType
  <2>5. /\ a \in Mawim /\ a.heap = mawim.heap /\ a.first = mawim.first /\ a.last = mawim.last
        /\ a.row_count = mawim.row_count /\ a.active_row = mawim.active_row
        /\ a.active_workspace = mawim.active_workspace /\ a.fault = mawim.fault
    BY <1>2, <2>1, <2>4 DEF Mawim
  <2> HIDE DEF a
  <2>6. Tidy(a) /\ Slotted(a.heap, Allocated(a.heap))
    BY <1>2, <2>5 DEF Tidy, Sound, RowsOK, Partition, HomeOf
  <2> QED BY <1>3, <1>4, <2>2, <2>3, <2>5, <2>6 DEF a
<1> QED BY <1>5, <1>6, <1>7, <1>8, <1>9 DEF HandleEvent

\* Another workspace is active.
LEMMA SwitchedTidy ==
  ASSUME NEW m, Tidy(m), NEW n \in Workspaces
  PROVE  LET a == [m EXCEPT !.active_workspace = n]
         IN  Tidy(a) /\ a.heap = m.heap /\ a.active_workspace = n
<1> DEFINE a == [m EXCEPT !.active_workspace = n]
<1>1. m \in Mawim /\ n \in 0 .. WorkspaceCount
  BY WindowManagerAssumption DEF Tidy, Sound, Workspaces
<1>2. /\ a \in Mawim /\ a.heap = m.heap /\ a.first = m.first /\ a.last = m.last
      /\ a.row_count = m.row_count /\ a.active_row = m.active_row
      /\ a.active_workspace = n /\ a.fault = m.fault
  BY <1>1 DEF Mawim
<1> HIDE DEF a
<1>3. Tidy(a)
  BY <1>2 DEF Tidy, Sound, RowsOK, Partition, HomeOf
<1> QED BY <1>2, <1>3 DEF a

\* The commands keep it when users are prudent.
LEMMA CommandTidy ==
  ASSUME PrudentInv, NEW n \in WorkspaceIds \ {0},
         \/ HandleSetWorkspace(n)
         \/ FocusFresh(mawim.active_workspace) /\ HandleMoveFocused(n)
         \/ /\ mawim.active_workspace < WorkspaceCount
            /\ FocusFresh(mawim.active_workspace + 1)
            /\ HandleCloseFocused
  PROVE  Kept
<1>1. /\ Tidy(mawim) /\ Slotted(mawim.heap, Allocated(mawim.heap)) /\ Queued
      /\ events \in Queue /\ mawim \in Mawim /\ WindowsOf(mawim.heap) \subseteq Windows
      /\ xwin \in [Windows -> {"none", "unmapped", "mapped"}]
  BY PrudentTypes DEF PrudentInv
<1>2. n <= WorkspaceCount => n \in Workspaces
  BY WindowManagerAssumption DEF WorkspaceIds, Workspaces
<1>3. ASSUME NEW m, Tidy(m), Slotted(m.heap, Allocated(m.heap)), Finish(m),
             WindowsOf(m.heap) = WindowsOf(mawim.heap), events' = events
      PROVE  Kept
  <2>1. /\ Tidy(mawim') /\ mawim'.heap = m.heap
        /\ Slotted(mawim'.heap, Allocated(mawim'.heap))
        /\ \A w \in Windows : xwin'[w] = "none" => xwin[w] = "none"
    BY <1>3, FinishTidy
  <2>2. Queued'
    BY <1>1, <1>3, <2>1, QueuedSame
  <2> QED BY <1>3, <2>1, <2>2 DEF Kept
<1>4. ASSUME mawim' = mawim, xwin' = xwin, events' = events
      PROVE  Kept
  <2>1. Queued'
    BY <1>1, <1>4, QueuedSame
  <2> QED BY <1>1, <1>4, <2>1 DEF Kept
<1>5. CASE HandleSetWorkspace(n)
  <2> DEFINE a == [mawim EXCEPT !.active_workspace = n]
             u == UpdateAllWindows(a)
  <2>1. n \in Workspaces /\ events' = events /\ Finish(u)
    BY <1>2, <1>5 DEF HandleSetWorkspace
  <2>2. Tidy(a) /\ a.heap = mawim.heap
    BY <1>1, <2>1, SwitchedTidy
  <2> HIDE DEF a
  <2>3. Tidy(u) /\ WindowsOf(u.heap) = WindowsOf(a.heap) /\ Slotted(u.heap, Allocated(u.heap))
    BY <1>1, <2>2, TidyUpdate
  <2> QED BY <1>3, <2>1, <2>2, <2>3
<1>6. CASE FocusFresh(mawim.active_workspace) /\ HandleMoveFocused(n)
  <2> DEFINE i == mawim.active_workspace
             s == mawim.focused_window[i]
             u == UpdateAllWindows(ManageWindow(Moved(mawim, s, n), s))
  <2>1. i \in Workspaces
    BY <1>1 DEF Tidy
  <2>2. s = NULL \/ s \in Home(mawim.heap, i)
    BY <1>1, <1>6, <2>1, TidyLists DEF FocusFresh
  <2>3. n \in Workspaces /\ events' = events
        /\ IF i \notin Workspaces THEN Fail("workspace index")
           ELSE IF s = NULL THEN UNCHANGED <<mawim, xwin>>
           ELSE IF mawim.heap[s] = Free THEN Fail("use after free")
           ELSE IF n \notin Workspaces THEN Fail("workspace index")
           ELSE Finish(u)
    BY <1>2, <1>6 DEF HandleMoveFocused, Moved, Renamed
  <2>4. CASE s = NULL
    BY <1>4, <2>1, <2>3, <2>4
  <2>5. CASE s # NULL
    <3>1. s \in Home(mawim.heap, i) /\ mawim.heap[s] # Free
      BY <2>2, <2>5 DEF Home, Allocated
    <3>2. Finish(u)
      BY <2>1, <2>3, <2>5, <3>1
    <3>3. Tidy(u) /\ WindowsOf(u.heap) = WindowsOf(mawim.heap) /\ Slotted(u.heap, Allocated(u.heap))
      BY <1>1, <2>3, <3>1, MoveTidy
    <3> HIDE DEF u
    <3> QED BY <1>3, <2>3, <3>2, <3>3
  <2> QED BY <2>4, <2>5
<1>7. CASE /\ mawim.active_workspace < WorkspaceCount
           /\ FocusFresh(mawim.active_workspace + 1)
           /\ HandleCloseFocused
  <2> DEFINE i == mawim.active_workspace + 1
             s == mawim.focused_window[i]
             w == mawim.heap[s].x11_window
  <2>1. i \in Workspaces
    BY <1>1, <1>7, WindowManagerAssumption DEF Tidy, Workspaces
  <2>2. s = NULL \/ s \in Allocated(mawim.heap)
    BY <1>1, <1>7, <2>1, TidyLists DEF FocusFresh, Home
  <2>3. \/ UNCHANGED <<mawim, xwin, events>>
        \/ /\ s # NULL
           /\ xwin' = [xwin EXCEPT ![w] = "none"]
           /\ events' = Append(events, Event("DestroyNotify", w))
           /\ UNCHANGED mawim
    BY <1>7, <2>1, <2>2 DEF HandleCloseFocused, Allocated
  <2>4. CASE UNCHANGED <<mawim, xwin, events>>
    BY <1>4, <2>4
  <2>5. CASE /\ s # NULL
             /\ xwin' = [xwin EXCEPT ![w] = "none"]
             /\ events' = Append(events, Event("DestroyNotify", w))
             /\ UNCHANGED mawim
    <3>1. w \in Windows
      BY <1>1, <2>2, <2>5, TidyLists
    <3> HIDE DEF w
    <3> DEFINE e == Event("DestroyNotify", w)
    <3>2. e \in [type : EventTypes, window : Windows \cup {NULL}]
      BY <3>1 DEF Event, EventTypes
    <3>3. \A v \in Windows : e # Event("ConfigureRequest", v)
      BY EventsDiffer
    <3>4. \A v \in Windows : xwin'[v] = "none" => xwin[v] = "none" \/ e = Event("DestroyNotify", v)
      BY <1>1, <2>5, <3>1
    <3> HIDE DEF e
    <3>5. Queued'
      BY <1>1, <2>5, <3>2, <3>3, <3>4, QueuedSent DEF e
    <3> QED BY <1>1, <2>5, <3>5 DEF Kept
  <2> QED BY <2>3, <2>4, <2>5
<1> QED BY <1>5, <1>6, <1>7

\* The X server and the main loop keep it.
LEMMA EnvironmentTidy ==
  ASSUME PrudentInv, Environment \/ EventsDone \/ CommandsDone
  PROVE  Kept
<1>1. /\ Tidy(mawim) /\ Slotted(mawim.heap, Allocated(mawim.heap)) /\ Queued
      /\ events \in Queue /\ mawim \in Mawim /\ WindowsOf(mawim.heap) \subseteq Windows
      /\ xwin \in [Windows -> {"none", "unmapped", "mapped"}]
  BY PrudentTypes DEF PrudentInv
<1>2. mawim' = mawim
  BY DEF Environment, CreateWindow, ConfigureWindow, MapWindow, UnmapWindow, DestroyWindow,
         MovePointer, Send, EventsDone, CommandsDone
<1>3. SUFFICES Queued'
  BY <1>1, <1>2 DEF Kept
<1>4. \A type \in EventTypes, w \in Windows \cup {NULL} :
        Event(type, w) \in [type : EventTypes, window : Windows \cup {NULL}]
  BY DEF Event
<1>5. CASE EventsDone \/ CommandsDone
  BY <1>1, <1>2, <1>5, QueuedSame DEF EventsDone, CommandsDone
<1>6. ASSUME NEW w \in Windows, CreateWindow(w) \/ UnmapWindow(w)
      PROVE  Queued'
  <2>1. \A v \in Windows : xwin'[v] = "none" => xwin[v] = "none"
    BY <1>1, <1>6 DEF CreateWindow, UnmapWindow
  <2>2. events' = events
    BY <1>6 DEF CreateWindow, UnmapWindow
  <2> QED BY <1>1, <1>2, <2>1, <2>2, QueuedSame
<1>7. ASSUME NEW w \in Windows, ConfigureWindow(w)
      PROVE  Queued'
  <2> DEFINE e == Event("ConfigureRequest", w)
  <2>1. events' = Append(events, e) /\ xwin' = xwin /\ xwin[w] # "none"
    BY <1>7 DEF ConfigureWindow, Send
  <2>2. e \in [type : EventTypes, window : Windows \cup {NULL}]
    BY <1>4 DEF EventTypes
  <2>3. \A v \in Windows : e = Event("ConfigureRequest", v) => xwin'[v] # "none"
    BY <2>1, EventsDiffer
  <2> HIDE DEF e
  <2> QED BY <1>1, <1>2, <2>1, <2>2, <2>3, QueuedSent
<1>8. ASSUME NEW w \in Windows \cup {NULL}, NEW type \in {"MapRequest", "LeaveNotify"},
             Send(type, w), UNCHANGED xwin
      PROVE  Queued'
  <2> DEFINE e == Event(type, w)
  <2>1. events' = Append(events, e) /\ xwin' = xwin
    BY <1>8 DEF Send
  <2>2. e \in [type : EventTypes, window : Windows \cup {NULL}]
    BY <1>4 DEF EventTypes
  <2>3. \A v \in Windows : e # Event("ConfigureRequest", v)
    BY EventsDiffer
  <2> HIDE DEF e
  <2> QED BY <1>1, <1>2, <2>1, <2>2, <2>3, QueuedSent
<1>9. ASSUME NEW w \in Windows, DestroyWindow(w)
      PROVE  Queued'
  <2> DEFINE e == Event("DestroyNotify", w)
  <2>1. events' = Append(events, e) /\ xwin' = [xwin EXCEPT ![w] = "none"]
    BY <1>9 DEF DestroyWindow, Send
  <2>2. e \in [type : EventTypes, window : Windows \cup {NULL}]
    BY <1>4 DEF EventTypes
  <2>3. \A v \in Windows : e # Event("ConfigureRequest", v)
    BY EventsDiffer
  <2>4. \A v \in Windows : xwin'[v] = "none" => xwin[v] = "none" \/ e = Event("DestroyNotify", v)
    BY <1>1, <2>1
  <2> HIDE DEF e
  <2> QED BY <1>1, <1>2, <2>1, <2>2, <2>3, <2>4, QueuedSent
<1>10. ASSUME NEW w \in Windows, MapWindow(w)
       PROVE  Queued'
  BY <1>8, <1>10 DEF MapWindow
<1>11. ASSUME MovePointer
       PROVE  Queued'
  BY <1>8, <1>11 DEF MovePointer
<1> QED BY <1>5, <1>6, <1>7, <1>9, <1>10, <1>11 DEF Environment

\* Every step of the prudent program keeps it.
LEMMA PrudentStep ==
  ASSUME PrudentInv, [PrudentNext]_vars
  PROVE  PrudentInv' /\ Kept
<1>1. CASE UNCHANGED vars
  <2>1. mawim' = mawim /\ xwin' = xwin /\ events' = events /\ loop' = loop
    BY <1>1 DEF vars
  <2>2. WindowsOf(mawim.heap) \subseteq Windows
    BY PrudentTypes
  <2>3. Queued'
    BY <2>1, <2>2, QueuedSame DEF PrudentInv
  <2>4. Kept
    BY <2>1, <2>3 DEF Kept, PrudentInv
  <2>5. ListInv'
    BY <1>1, NextListInv DEF PrudentInv
  <2> QED BY <2>4, <2>5 DEF Kept, PrudentInv
<1>2. CASE PrudentNext
  <2>1. Next
    BY <1>2 DEF PrudentNext, Next
  <2>2. ListInv'
    BY <2>1, NextListInv DEF PrudentInv
  <2>3. 1 \in WorkspaceIds \ {0}
    BY WindowManagerAssumption DEF WorkspaceIds
  <2>4. CASE Environment
    BY <2>2, <2>4, EnvironmentTidy DEF Kept, PrudentInv
  <2>5. CASE MainLoop
    BY <2>2, <2>5, EventTidy, EnvironmentTidy DEF MainLoop, Kept, PrudentInv
  <2>6. CASE \E n \in WorkspaceIds \ {0} :
               \/ HandleSetWorkspace(n)
               \/ FocusFresh(mawim.active_workspace) /\ HandleMoveFocused(n)
    BY <2>2, <2>6, CommandTidy DEF Kept, PrudentInv
  <2>7. CASE /\ mawim.active_workspace < WorkspaceCount
             /\ FocusFresh(mawim.active_workspace + 1)
             /\ HandleCloseFocused
    BY <2>2, <2>3, <2>7, CommandTidy DEF Kept, PrudentInv
  <2> QED BY <1>2, <2>4, <2>5, <2>6, <2>7 DEF PrudentNext
<1> QED BY <1>1, <1>2


LEMMA PrudentInit == Init => PrudentInv
<1> SUFFICES ASSUME Init
             PROVE  PrudentInv
  OBVIOUS
<1>1. /\ mawim.heap = [s \in Structs |-> Free] /\ mawim.first = [i \in Workspaces |-> NULL]
      /\ mawim.active_workspace = 1 /\ mawim.fault = "none" /\ events = <<>>
  BY DEF Init
<1>2. ListInv /\ Sound(mawim)
  BY InitListInv, MawimType DEF ListInv, Sound
<1>3. Allocated(mawim.heap) = {}
  BY <1>1 DEF Allocated
<1>4. \A i \in Workspaces : Home(mawim.heap, i) = {} /\ mawim.first[i] = NULL
  BY <1>1, <1>3 DEF Home
<1>5. Partition(mawim, HomeOf(mawim))
  <2>1. \A i \in Workspaces : HomeOf(mawim)[i] = {}
    BY <1>4 DEF HomeOf
  <2>2. HomeOf(mawim) \in [Workspaces -> SUBSET Allocated(mawim.heap)]
    BY <1>3, <1>4 DEF HomeOf
  <2>3. \A i \in Workspaces : Chained(mawim.heap, NULL, mawim.last[i], {})
    BY DEF Chained, Links
  <2> QED BY <1>4, <2>1, <2>2, <2>3 DEF Partition
<1>6. Tidy(mawim)
  BY <1>1, <1>2, <1>3, <1>5, WindowManagerAssumption DEF Tidy, Alone, Workspaces
<1>7. Slotted(mawim.heap, Allocated(mawim.heap)) /\ Queued
  BY <1>1, <1>3 DEF Slotted, Queued, WindowsOf
<1> QED BY <1>2, <1>6, <1>7 DEF PrudentInv

LEMMA PrudentAlways == Init /\ [][PrudentNext]_vars => []PrudentInv
<1>1. PrudentInv /\ [PrudentNext]_vars => PrudentInv'
  BY PrudentStep
<1> QED BY <1>1, PrudentInit, PTL

(***************************************************************************)
(* As long as users number workspaces from 1 and act on a fresh focus,     *)
(* every struct is on exactly the list of the workspace that it names, no  *)
(* two structs stand for one X window, and the last pointer of a list is   *)
(* at its end.                                                             *)
(***************************************************************************)
THEOREM PrudentLists == PrudentSpec => []ListsConsistent
<1>1. PrudentInv => ListsConsistent
  <2> SUFFICES ASSUME PrudentInv
               PROVE  ListsConsistent
    OBVIOUS
  <2> DEFINE m == mawim
  <2>1. Tidy(m) /\ m.heap \in Heap
    BY PrudentTypes DEF PrudentInv, Mawim
  <2>2. /\ \A i \in Workspaces : OnList(m, i) = Home(m.heap, i)
        /\ \A s \in Allocated(m.heap) : m.heap[s].workspace \in Workspaces
    BY <2>1, TidyLists
  <2>3. \A s \in Allocated(m.heap) :
          {i \in Workspaces : s \in OnList(m, i)} = {m.heap[s].workspace}
    BY <2>2 DEF Home
  <2>4. \A s, t \in Allocated(m.heap) : m.heap[s].x11_window = m.heap[t].x11_window => s = t
    BY <2>1 DEF Tidy, Alone
  <2>5. ASSUME NEW i \in Workspaces, m.first[i] # NULL
        PROVE  m.last[i] \in OnList(m, i) /\ m.heap[m.last[i]].next = NULL
    <3>1. Chained(m.heap, m.first[i], m.last[i], Home(m.heap, i))
      BY <2>1 DEF Tidy, Partition, HomeOf
    <3>2. m.last[i] \in Home(m.heap, i) /\ After(m.heap, m.last[i]) = NULL
      BY <2>5, <3>1 DEF Chained
    <3>3. m.heap[m.last[i]] # Free /\ m.last[i] # NULL
      BY <3>2, StructsFinite DEF Home, Allocated
    <3> QED BY <2>2, <3>2, <3>3 DEF After
  <2> QED BY <2>3, <2>4, <2>5 DEF ListsConsistent, Allocated
<1> QED BY <1>1, PrudentAlways, PTL DEF PrudentSpec

(***************************************************************************)
(* Under the same users no handler ever uses freed memory, follows a stale *)
(* last pointer, frees an array that was not set or leaves the array of    *)
(* workspaces.                                                             *)
(***************************************************************************)
THEOREM PrudentNeverFaults == PrudentSpec => []NeverFaults
<1>1. PrudentInv => NeverFaults
  BY DEF PrudentInv, Tidy, NeverFaults
<1> QED BY <1>1, PrudentAlways, PTL DEF PrudentSpec

(***************************************************************************)
(* Under the same users a list keeps a struct of a window that is gone at  *)
(* the X server only while the DestroyNotify that removes it is queued.    *)
(***************************************************************************)
THEOREM PrudentNoZombies == PrudentSpec => []NoZombieTiles
<1>1. PrudentInv => NoZombieTiles
  <2> SUFFICES ASSUME PrudentInv, NEW w \in Windows, ListsWindow(w), xwin[w] = "none"
               PROVE  \E k \in DOMAIN events : events[k] = Event("DestroyNotify", w)
    BY DEF NoZombieTiles
  <2>1. w \in WindowsOf(mawim.heap)
    BY TidyFinds DEF PrudentInv, ListsWindow
  <2>2. PICK k \in 0 + 1 .. Len(events) : events[k] = Event("DestroyNotify", w)
    BY <2>1 DEF PrudentInv, Queued, Doomed
  <2>3. k \in DOMAIN events
    BY PrudentTypes DEF Queue
  <2> QED BY <2>2, <2>3
<1> QED BY <1>1, PrudentAlways, PTL DEF PrudentSpec

(***************************************************************************)
(* Under the same users a window leaves the lists only when its            *)
(* DestroyNotify is handled: no command and no other event loses one.      *)
(***************************************************************************)
THEOREM PrudentUnlisting == PrudentSpec => OnlyDestroyUnlists
<1> DEFINE A == \A w \in Windows :
                  (ListsWindow(w) /\ ~ ListsWindow(w)' /\ mawim'.fault = "none") =>
                    HandleDestroyNotify(w)
<1>1. PrudentInv /\ [PrudentNext]_vars => A
  <2> SUFFICES ASSUME PrudentInv, [PrudentNext]_vars, NEW w \in Windows,
                      ListsWindow(w), ~ ListsWindow(w)'
               PROVE  HandleDestroyNotify(w)
    OBVIOUS
  <2>1. Tidy(mawim) /\ Tidy(mawim')
        /\ \A v \in WindowsOf(mawim.heap) \ WindowsOf(mawim'.heap) : HandleDestroyNotify(v)
    BY PrudentStep DEF PrudentInv, Kept
  <2>2. w \in WindowsOf(mawim.heap)
    BY <2>1, TidyFinds DEF ListsWindow
  <2>3. FindInWorkspaces(mawim', w) = 0
    BY DEF ListsWindow
  <2>4. w \notin WindowsOf(mawim'.heap)
    BY <2>1, <2>3, TidyFinds
  <2> QED BY <2>1, <2>2, <2>4
<1>2. []PrudentInv /\ [][PrudentNext]_vars => [][A]_vars
  BY <1>1, PTL
<1> QED BY <1>2, PrudentAlways, PTL DEF PrudentSpec, OnlyDestroyUnlists

(***************************************************************************)
(* Under the same users, when SET_WORKSPACE is handled the windows of the  *)
(* new active workspace, and no other listed window that the X server      *)
(* knows, are mapped at its end.                                           *)
(***************************************************************************)
THEOREM PrudentSwitch == PrudentSpec => SwitchShowsExactly
<1> DEFINE A == \A n \in Workspaces : HandleSetWorkspace(n) =>
                  \A w \in Windows :
                    (ListsWindow(w) /\ xwin[w] # "none") =>
                      (xwin'[w] = "mapped" <=> FindInWorkspaces(mawim, w) = n)
<1>1. PrudentInv => A
  <2> SUFFICES ASSUME PrudentInv, NEW n \in Workspaces, HandleSetWorkspace(n),
                      NEW w \in Windows, ListsWindow(w), xwin[w] # "none"
               PROVE  xwin'[w] = "mapped" <=> FindInWorkspaces(mawim, w) = n
    OBVIOUS
  <2> DEFINE a == [mawim EXCEPT !.active_workspace = n]
             u == UpdateAllWindows(a)
  <2>1. Tidy(mawim) /\ Slotted(mawim.heap, Allocated(mawim.heap)) /\ Finish(u)
    BY DEF PrudentInv, HandleSetWorkspace
  <2>2. Tidy(a) /\ a.heap = mawim.heap /\ a.active_workspace = n
    BY <2>1, SwitchedTidy
  <2> HIDE DEF a
  <2>3. /\ SameLists(u, a) /\ Allocated(u.heap) = Allocated(mawim.heap)
        /\ Allocated(mawim.heap) \subseteq u.updated
    BY <2>1, <2>2, TidyUpdate
  <2> HIDE DEF u
  <2>4. PICK s \in Allocated(mawim.heap) : mawim.heap[s].x11_window = w
    BY <2>1, TidyFinds DEF ListsWindow, WindowsOf
  <2>5. FindInWorkspaces(mawim, w) = mawim.heap[s].workspace
    BY <2>1, <2>4, TidyFinds
  <2>6. /\ u.active_workspace = n
        /\ \A t \in Allocated(mawim.heap) : /\ u.heap[t] # Free
                                            /\ u.heap[t].x11_window = mawim.heap[t].x11_window
                                            /\ u.heap[t].workspace = mawim.heap[t].workspace
    BY <2>2, <2>3 DEF SameLists, SameLinks, Allocated
  <2>7. \A t \in Allocated(mawim.heap) : mawim.heap[t].x11_window = w => t = s
    BY <2>1, <2>4 DEF Tidy, Alone
  <2>8. \A t \in u.updated : u.heap[t] # Free => t \in Allocated(mawim.heap)
    <3>1. u \in Mawim
      BY <2>1, <2>2, TidyUpdate DEF Tidy, Sound, u
    <3> QED BY <2>3, <3>1 DEF Mawim, Allocated
  <2>9. w \in Shown(u) <=> mawim.heap[s].workspace = n
    BY <2>3, <2>4, <2>6, <2>7, <2>8 DEF Shown
  <2>10. w \in Hidden(u) <=> mawim.heap[s].workspace # n
    BY <2>3, <2>4, <2>6, <2>7, <2>8 DEF Hidden
  <2> QED BY <2>1, <2>5, <2>9, <2>10 DEF Finish
<1>2. []PrudentInv => [][A]_vars
  BY <1>1, PTL
<1> QED BY <1>2, PrudentAlways, PTL DEF PrudentSpec, SwitchShowsExactly
=============================================================================
