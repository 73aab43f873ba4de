-------------------------- MODULE WindowListProofs --------------------------
(***************************************************************************)
(* The window lists of src/window.c for any number of windows, structs,    *)
(* workspaces and rows, under every user: the lists never become circular, *)
(* and rows are counted right, even where commands on a stale focus put a  *)
(* struct on two lists or leave a pointer behind. A list is a walk along   *)
(* the next pointers; that it ends is shown by a numbering of the structs  *)
(* along which every link goes down, and each handler keeps such a         *)
(* numbering.                                                              *)
(***************************************************************************)
EXTENDS WindowManager, FiniteSetTheorems, TLAPS

-----------------------------------------------------------------------------
\* Natural numbers.

\* A set of naturals that is not empty has a least member.
LEMMA LeastNatural ==
  ASSUME NEW T \in SUBSET Nat, T # {}
  PROVE  \E n \in T : \A k \in T : n <= k
<1> DEFINE R == OpToRel(<, Nat)
<1>1. ASSUME NEW x \in Nat, NEW y \in Nat, x < y
      PROVE  <<x, y>> \in R
  BY <1>1 DEF OpToRel
<1>2. IsWellFoundedOn(R, Nat)
  BY NatLessThanWellFounded
<1> HIDE DEF R
<1>3. PICK n \in T : \A y \in T : ~ (<<y, n>> \in R)
  BY <1>2, WFMin
<1>4. \A y \in T : ~ (y < n)
  BY <1>1, <1>3
<1>5. \A y \in T : n <= y
  BY <1>4
<1> QED BY <1>3, <1>5

\* Induction for a set T, which the provers can instantiate.
LEMMA NaturalInduction ==
  ASSUME NEW T, 0 \in T, \A n \in Nat : n \in T => n + 1 \in T
  PROVE  Nat \subseteq T
<1> SUFFICES ASSUME Nat \ T # {} PROVE FALSE
  OBVIOUS
<1>1. PICK n \in Nat \ T : \A k \in Nat \ T : n <= k
  BY LeastNatural
<1>2. n - 1 \in Nat /\ n - 1 \in T
  BY <1>1
<1> QED BY <1>1, <1>2

\* Induction up to N.
LEMMA IntervalInduction ==
  ASSUME NEW N \in Nat, NEW T, 0 \in T, \A n \in 0 .. N - 1 : n \in T => n + 1 \in T
  PROVE  0 .. N \subseteq T
<1> DEFINE U == {n \in Nat : n \in 0 .. N => n \in T}
<1>1. 0 \in U
  OBVIOUS
<1>2. \A n \in Nat : n \in U => n + 1 \in U
  OBVIOUS
<1>3. Nat \subseteq U
  <2> HIDE DEF U
  <2> QED BY <1>1, <1>2, NaturalInduction
<1> QED BY <1>3
-----------------------------------------------------------------------------
\* Walks along the structs.

Heap == [Structs -> Window \cup {Free}]

\* The struct behind s, and the walk from p, of which Chain is an instance.
After(h, s) == IF s = NULL \/ h[s] = Free THEN NULL ELSE h[s].next

Walk(h, p) ==
  LET at[n \in 0 .. Cardinality(Structs)] ==
        IF n = 0 THEN p
        ELSE LET s == at[n - 1]
             IN  IF s = NULL \/ h[s] = Free THEN NULL ELSE h[s].next
  IN  at

Reach(h, p) == {Walk(h, p)[n] : n \in Positions} \ {NULL}

\* The model's Chain is the walk from the first pointer.
LEMMA ChainIsWalk ==
  ASSUME NEW m, NEW i
  PROVE  Chain(m, i) = Walk(m.heap, m.first[i])
  BY DEF Chain, Walk

LEMMA OnListIsReach ==
  ASSUME NEW m, NEW i
  PROVE  OnList(m, i) = Reach(m.heap, m.first[i])
  BY ChainIsWalk DEF OnList, Reach

LEMMA StructsFinite == Cardinality(Structs) \in Nat /\ NULL \notin Structs /\ Free \notin Structs
  BY FS_CardinalityType, WindowManagerAssumption

LEMMA AfterType ==
  ASSUME NEW h \in Heap, NEW s \in Structs \cup {NULL}
  PROVE  After(h, s) \in Structs \cup {NULL}
  BY DEF Heap, After, Window

\* A walk of every length exists: the recursive definition has a value.
LEMMA WalkExists ==
  ASSUME NEW h \in Heap, NEW p \in Structs \cup {NULL}, NEW N \in Nat
  PROVE  \E at \in [0 .. N -> Structs \cup {NULL}] :
           at[0] = p /\ \A n \in 0 .. N - 1 : at[n + 1] = After(h, at[n])
<1> DEFINE Goes(n, at) == at[0] = p /\ \A k \in 0 .. n - 1 : at[k + 1] = After(h, at[k])
           T == {n \in Nat : \E at \in [0 .. n -> Structs \cup {NULL}] : Goes(n, at)}
<1>1. 0 \in T
  <2>1. [n \in 0 .. 0 |-> p] \in [0 .. 0 -> Structs \cup {NULL}] /\ Goes(0, [n \in 0 .. 0 |-> p])
    OBVIOUS
  <2> QED BY <2>1
<1>2. ASSUME NEW n \in Nat, n \in T
      PROVE  n + 1 \in T
  <2>1. PICK at \in [0 .. n -> Structs \cup {NULL}] : Goes(n, at)
    BY <1>2
  <2> DEFINE longer == [k \in 0 .. n + 1 |-> IF k <= n THEN at[k] ELSE After(h, at[n])]
  <2>2. After(h, at[n]) \in Structs \cup {NULL}
    BY <2>1, AfterType
  <2>3. longer \in [0 .. n + 1 -> Structs \cup {NULL}]
    BY <2>1, <2>2
  <2>4. longer[0] = p
    BY <2>1
  <2>5. ASSUME NEW k \in 0 .. n
        PROVE  longer[k + 1] = After(h, longer[k])
    <3>1. CASE k = n
      BY <3>1
    <3>2. CASE k # n
      BY <3>2, <2>1
    <3> QED BY <3>1, <3>2
  <2> HIDE DEF longer
  <2>6. Goes(n + 1, longer)
    BY <2>4, <2>5
  <2> QED BY <2>3, <2>6
<1>3. N \in T
  <2> HIDE DEF T
  <2> QED BY <1>1, <1>2, NaturalInduction
<1> QED BY <1>3

\* What the recursive definition says: the walk goes from p, one struct a step.
LEMMA WalkSteps ==
  ASSUME NEW h \in Heap, NEW p \in Structs \cup {NULL}
  PROVE  /\ Walk(h, p) \in [Positions -> Structs \cup {NULL}]
         /\ Walk(h, p)[0] = p
         /\ \A n \in 0 .. Cardinality(Structs) - 1 : Walk(h, p)[n + 1] = After(h, Walk(h, p)[n])
<1> DEFINE N == Cardinality(Structs)
           Is(at) == at = [n \in 0 .. N |->
                             IF n = 0 THEN p
                             ELSE LET s == at[n - 1]
                                  IN  IF s = NULL \/ h[s] = Free THEN NULL ELSE h[s].next]
<1>0. N \in Nat
  BY StructsFinite
<1>1. PICK g \in [0 .. N -> Structs \cup {NULL}] :
             g[0] = p /\ \A n \in 0 .. N - 1 : g[n + 1] = After(h, g[n])
  BY WalkExists, <1>0
<1>2. Is(g)
  <2>1. ASSUME NEW n \in 0 .. N, n # 0
        PROVE  g[n] = After(h, g[n - 1])
    <3>1. n - 1 \in 0 .. N - 1 /\ (n - 1) + 1 = n
      BY <2>1, <1>0
    <3> QED BY <3>1, <1>1
  <2> QED BY <2>1, <1>1 DEF After
<1>3. Walk(h, p) = CHOOSE at : Is(at)
  BY DEF Walk
<1>4. Is(Walk(h, p))
  <2> HIDE DEF Is
  <2> QED BY <1>2, <1>3
<1> DEFINE W == Walk(h, p)
<1>5. DOMAIN W = 0 .. N /\ W[0] = p /\ \A n \in 0 .. N - 1 : W[n + 1] = After(h, W[n])
  <2> HIDE DEF W
  <2>1. Is(W)
    BY <1>4 DEF W
  <2> QED BY <2>1, <1>0 DEF After
<1>6. \A n \in 0 .. N : W[n] \in Structs \cup {NULL}
  <2> DEFINE T == {n \in 0 .. N : W[n] \in Structs \cup {NULL}}
  <2>1. 0 \in T /\ \A n \in 0 .. N - 1 : n \in T => n + 1 \in T
    <3> HIDE DEF W
    <3> QED BY <1>0, <1>5, AfterType
  <2> HIDE DEF T
  <2>2. 0 .. N \subseteq T
    BY <1>0, <2>1, IntervalInduction
  <2> QED BY <2>2 DEF T
<1>7. W = [n \in 0 .. N |-> W[n]]
  <2> HIDE DEF W
  <2>1. Is(W)
    BY <1>4 DEF W
  <2> QED BY <2>1
<1> HIDE DEF W
<1>8. W \in [0 .. N -> Structs \cup {NULL}]
  BY <1>6, <1>7
<1> QED BY <1>5, <1>8 DEF W, Positions

LEMMA SameFunction ==
  ASSUME NEW S, NEW T, NEW f \in [S -> T], NEW g \in [S -> T], \A x \in S : f[x] = g[x]
  PROVE  f = g
  OBVIOUS

\* Two heaps with the same links have the same walks.
LEMMA WalkSame ==
  ASSUME NEW h \in Heap, NEW g \in Heap, NEW p \in Structs \cup {NULL},
         \A s \in Structs : After(g, s) = After(h, s)
  PROVE  Walk(g, p) = Walk(h, p) /\ Reach(g, p) = Reach(h, p)
<1> DEFINE N == Cardinality(Structs)
           T == {n \in 0 .. N : Walk(g, p)[n] = Walk(h, p)[n]}
<1>0. N \in Nat
  BY StructsFinite
<1>1. \A s \in Structs \cup {NULL} : After(g, s) = After(h, s)
  BY DEF After
<1>2. 0 \in T
  BY <1>0, WalkSteps
<1>3. ASSUME NEW n \in 0 .. N - 1, n \in T
      PROVE  n + 1 \in T
  <2>1. Walk(h, p)[n] \in Structs \cup {NULL}
    BY <1>0, WalkSteps DEF Positions
  <2> QED BY <2>1, <1>0, <1>1, <1>3, WalkSteps
<1>4. 0 .. N \subseteq T
  <2> HIDE DEF T
  <2> QED BY <1>0, <1>2, <1>3, IntervalInduction
<1>5. Walk(g, p) = Walk(h, p)
  <2> DEFINE C == Structs \cup {NULL}
  <2>1. Walk(g, p) \in [Positions -> C] /\ Walk(h, p) \in [Positions -> C]
    BY WalkSteps
  <2>2. \A n \in Positions : Walk(g, p)[n] = Walk(h, p)[n]
    BY <1>4 DEF Positions
  <2> HIDE DEF C
  <2> QED BY <2>1, <2>2, SameFunction
<1> QED BY <1>5 DEF Reach

\* A set that holds the first struct and what is behind its members holds all.
LEMMA ReachWithin ==
  ASSUME NEW h \in Heap, NEW p \in Structs \cup {NULL}, NEW G \in SUBSET Structs,
         p \in G \cup {NULL}, \A s \in G : After(h, s) \in G \cup {NULL}
  PROVE  Reach(h, p) \subseteq G
<1> DEFINE N == Cardinality(Structs)
           T == {n \in 0 .. N : Walk(h, p)[n] \in G \cup {NULL}}
<1>0. N \in Nat
  BY StructsFinite
<1>1. 0 \in T
  BY <1>0, WalkSteps
<1>2. \A s \in G \cup {NULL} : After(h, s) \in G \cup {NULL}
  BY DEF After
<1>3. ASSUME NEW n \in 0 .. N - 1, n \in T
      PROVE  n + 1 \in T
  BY <1>0, <1>2, <1>3, WalkSteps
<1>4. 0 .. N \subseteq T
  <2> HIDE DEF T
  <2> QED BY <1>0, <1>1, <1>3, IntervalInduction
<1> QED BY <1>4 DEF Reach, Positions

\* A walk stays among the structs, and visits where it starts.
LEMMA ReachType ==
  ASSUME NEW h \in Heap, NEW p \in Structs \cup {NULL}
  PROVE  /\ Reach(h, p) \subseteq Structs
         /\ p # NULL => p \in Reach(h, p)
<1>1. Cardinality(Structs) \in Nat
  BY StructsFinite
<1>2. 0 \in Positions
  BY <1>1 DEF Positions
<1> QED BY <1>2, WalkSteps DEF Reach

LEMMA ReachNull ==
  ASSUME NEW h \in Heap
  PROVE  Reach(h, NULL) = {}
<1> DEFINE none == {}
<1>1. none \in SUBSET Structs /\ NULL \in Structs \cup {NULL} /\ NULL \in none \cup {NULL}
      /\ \A s \in none : After(h, s) \in none \cup {NULL}
  OBVIOUS
<1> HIDE DEF none
<1>2. Reach(h, NULL) \subseteq none
  BY <1>1, ReachWithin
<1> QED BY <1>2 DEF none

\* The links go down in a numbering of the structs: there is no circle.
Descends(h, rank) == \A s \in Structs : After(h, s) # NULL => rank[After(h, s)] < rank[s]

Numberings ==
  {rank \in [Structs -> 0 .. Cardinality(Structs) - 1] :
     \A s, t \in Structs : rank[s] = rank[t] => s = t}

Acyclic(h) == \E rank \in Numberings : Descends(h, rank)

\* Without a circle, a walk is over after as many steps as there are structs.
LEMMA WalkEnds ==
  ASSUME NEW h \in Heap, NEW p \in Structs \cup {NULL}, Acyclic(h)
  PROVE  Walk(h, p)[Cardinality(Structs)] = NULL
<1> DEFINE N == Cardinality(Structs)
<1>0. N \in Nat
  BY StructsFinite
<1>1. PICK rank \in [Structs -> 0 .. N - 1] : Descends(h, rank)
  BY DEF Acyclic, Numberings
<1> DEFINE W == Walk(h, p)
           T == {n \in 0 .. N : W[n] # NULL => rank[W[n]] <= N - 1 - n}
<1>2. /\ \A n \in 0 .. N : W[n] \in Structs \cup {NULL}
      /\ \A n \in 0 .. N - 1 : W[n + 1] = After(h, W[n])
  BY WalkSteps DEF Positions
<1> HIDE DEF W
<1>3. 0 \in T
  BY <1>0, <1>1, <1>2
<1>4. ASSUME NEW n \in 0 .. N - 1, n \in T
      PROVE  n + 1 \in T
  <2>1. n \in 0 .. N /\ n + 1 \in 0 .. N
    BY <1>0
  <2>2. CASE W[n + 1] = NULL
    BY <2>1, <2>2
  <2>3. CASE W[n + 1] # NULL
    <3>1. W[n] # NULL /\ W[n] \in Structs
      BY <2>1, <2>3, <1>2 DEF After
    <3>2. rank[W[n + 1]] < rank[W[n]]
      BY <3>1, <2>3, <1>1, <1>2 DEF Descends
    <3>3. rank[W[n]] <= N - 1 - n
      BY <3>1, <1>4
    <3>4. rank[W[n + 1]] \in Int /\ rank[W[n]] \in Int
      BY <3>1, <2>1, <2>3, <1>1, <1>2
    <3> QED BY <3>2, <3>3, <3>4, <2>1, <1>0
  <2> QED BY <2>2, <2>3
<1>5. N \in T
  <2> HIDE DEF T
  <2>1. 0 .. N \subseteq T
    BY <1>0, <1>3, <1>4, IntervalInduction
  <2> QED BY <2>1, <1>0
<1>6. ASSUME W[N] # NULL
      PROVE  FALSE
  BY <1>0, <1>1, <1>2, <1>5, <1>6
<1> QED BY <1>6 DEF W

\* Behind a struct of a list is a struct of the list.
LEMMA ReachClosed ==
  ASSUME NEW h \in Heap, NEW p \in Structs \cup {NULL}, Acyclic(h),
         NEW s \in Reach(h, p)
  PROVE  After(h, s) \in Reach(h, p) \cup {NULL}
<1> DEFINE N == Cardinality(Structs)
<1>0. N \in Nat
  BY StructsFinite
<1>1. PICK n \in 0 .. N : Walk(h, p)[n] = s /\ s # NULL
  BY DEF Reach, Positions
<1>2. n # N
  BY <1>1, WalkEnds
<1>3. n \in 0 .. N - 1 /\ n + 1 \in 0 .. N
  BY <1>0, <1>2
<1>4. Walk(h, p)[n + 1] = After(h, s)
  BY <1>1, <1>3, WalkSteps
<1> QED BY <1>3, <1>4 DEF Reach, Positions

\* A list that begins has an end.
LEMMA ReachEnd ==
  ASSUME NEW h \in Heap, NEW p \in Structs, Acyclic(h)
  PROVE  \E s \in Reach(h, p) : After(h, s) = NULL
<1> DEFINE N == Cardinality(Structs)
           W == Walk(h, p)
           T == {n \in 0 .. N : W[n] = NULL}
<1>0. N \in Nat
  BY StructsFinite
<1>1. N \in T
  BY <1>0, WalkEnds
<1>2. PICK n \in T : \A k \in T : n <= k
  <2> HIDE DEF W
  <2>1. T \in SUBSET Nat /\ T # {}
    BY <1>1
  <2> HIDE DEF T
  <2> QED BY <2>1, LeastNatural
<1>3. n # 0
  BY <1>2, WalkSteps, StructsFinite
<1>4. n - 1 \in 0 .. N - 1 /\ n - 1 \in 0 .. N /\ (n - 1) + 1 = n
  BY <1>0, <1>2, <1>3
<1>5. W[n - 1] # NULL
  <2> HIDE DEF W
  <2> QED BY <1>2, <1>4
<1>6. After(h, W[n - 1]) = NULL
  <2>1. W[(n - 1) + 1] = After(h, W[n - 1])
    BY <1>4, WalkSteps
  <2> QED BY <2>1, <1>2, <1>4
<1> QED BY <1>4, <1>5, <1>6 DEF Reach, Positions

\* What is on a list: a set whose members are linked from its first struct.
Links(h, p, H) ==
  /\ p \in H \cup {NULL}
  /\ \A s \in H : After(h, s) \in H \cup {NULL}
  /\ \A s \in H : s = p \/ \E t \in H : After(h, t) = s

\* Without a circle, what the links from p tie together is what is reached.
LEMMA ReachIs ==
  ASSUME NEW h \in Heap, NEW p \in Structs \cup {NULL}, NEW H \in SUBSET Structs,
         Acyclic(h), Links(h, p, H)
  PROVE  Reach(h, p) = H
<1> DEFINE N == Cardinality(Structs)
<1>0. N \in Nat
  BY StructsFinite
<1>1. Reach(h, p) \subseteq H
  BY ReachWithin DEF Links
<1>2. PICK rank \in [Structs -> 0 .. N - 1] : Descends(h, rank)
  BY DEF Acyclic, Numberings
<1>3. SUFFICES ASSUME H \ Reach(h, p) # {}
               PROVE  FALSE
  BY <1>1
<1> DEFINE T == {N - rank[s] : s \in H \ Reach(h, p)}
<1>4. PICK n \in T : \A k \in T : n <= k
  <2>1. T \in SUBSET Nat /\ T # {}
    BY <1>0, <1>2, <1>3
  <2> HIDE DEF T
  <2> QED BY <2>1, LeastNatural
<1>5. PICK s \in H \ Reach(h, p) : n = N - rank[s]
  BY <1>4
<1>6. s # p
  BY <1>5, ReachType, StructsFinite
<1>7. PICK t \in H : After(h, t) = s
  BY <1>5, <1>6 DEF Links
<1>8. t \in Reach(h, p)
  <2>1. rank[s] < rank[t] /\ rank[s] \in Int /\ rank[t] \in Int
    BY <1>2, <1>5, <1>7, StructsFinite DEF Descends
  <2>2. ~ (n <= N - rank[t])
    BY <2>1, <1>0, <1>5
  <2> QED BY <2>2, <1>4
<1>9. s \in Reach(h, p)
  BY <1>5, <1>7, <1>8, ReachClosed, StructsFinite
<1> QED BY <1>5, <1>9
-----------------------------------------------------------------------------
\* Finding a window.

LEMMA WorkspacesNumbers == Workspaces \subseteq Nat \ {0}
  BY WindowManagerAssumption DEF Workspaces

LEMMA ShowingType ==
  ASSUME NEW m, NEW i, NEW w
  PROVE  Showing(m, i, w) \subseteq OnList(m, i)
  BY DEF Showing

\* mawim_find_window returns a struct that shows w, if the list has one.
LEMMA FindWindowFinds ==
  ASSUME NEW m, NEW i, NEW w, NULL \notin Showing(m, i, w)
  PROVE  /\ FindWindow(m, i, w) \in Showing(m, i, w) \cup {NULL}
         /\ FindWindow(m, i, w) = NULL <=> Showing(m, i, w) = {}
<1> DEFINE S == Showing(m, i, w)
           at == Chain(m, i)
           First(n) == n \in Positions /\ at[n] \in S /\ \A k \in 0 .. n - 1 : at[k] \notin S
<1>1. SUFFICES ASSUME S # {}
               PROVE  FindWindow(m, i, w) \in S
  BY DEF FindWindow
<1>2. PICK n \in {n \in Positions : at[n] \in S} : \A k \in {n_1 \in Positions : at[n_1] \in S} : n <= k
  <2> DEFINE T == {n \in Positions : at[n] \in S}
  <2>1. T # {} /\ T \in SUBSET Nat
    BY <1>1, StructsFinite DEF Showing, OnList, Positions
  <2> HIDE DEF T
  <2>2. \E n \in T : \A k \in T : n <= k
    BY <2>1, LeastNatural
  <2> QED BY <2>2 DEF T
<1>3. First(n)
  <2>1. \A k \in 0 .. n - 1 : k \in Positions /\ ~ (n <= k)
    BY <1>2, StructsFinite DEF Positions
  <2> QED BY <2>1, <1>2
<1>4. FirstOf(m, i, S) = at[CHOOSE k : First(k)]
  BY DEF FirstOf
<1> HIDE DEF First
<1>5. First(CHOOSE k : First(k))
  BY <1>3
<1> QED BY <1>1, <1>4, <1>5 DEF FindWindow, First

\* mawim_find_window_in_workspaces returns a workspace that lists w, if any.
LEMMA FindInWorkspacesFinds ==
  ASSUME NEW m, NEW w
  PROVE  /\ FindInWorkspaces(m, w) = 0 => \A i \in Workspaces : Showing(m, i, w) = {}
         /\ FindInWorkspaces(m, w) # 0 => /\ FindInWorkspaces(m, w) \in Workspaces
                                          /\ Showing(m, FindInWorkspaces(m, w), w) # {}
         /\ FindInWorkspaces(m, w) \in Workspaces \cup {0}
<1> DEFINE found == {i \in Workspaces : Showing(m, i, w) # {}}
           Least(i) == i \in found /\ \A j \in found : i <= j
<1>1. CASE found = {}
  BY <1>1 DEF FindInWorkspaces
<1>2. CASE found # {}
  <2>1. found \in SUBSET Nat
    BY WorkspacesNumbers
  <2>2. \E i : Least(i)
    <3> HIDE DEF found
    <3> QED BY <1>2, <2>1, LeastNatural
  <2>3. FindInWorkspaces(m, w) = CHOOSE i : Least(i)
    BY <1>2 DEF FindInWorkspaces
  <2>4. Least(FindInWorkspaces(m, w))
    <3> HIDE DEF Least
    <3> QED BY <2>2, <2>3
  <2>5. FindInWorkspaces(m, w) \in found
    BY <2>4
  <2> QED BY <2>5, WorkspacesNumbers
<1> QED BY <1>1, <1>2
-----------------------------------------------------------------------------
\* The mawim records that the handlers hand on.

Mawim == [heap : Heap,
          first : [Workspaces -> Structs \cup {NULL}],
          last : [Workspaces -> Structs \cup {NULL, Wild}],
          focused_window : [Workspaces -> Structs \cup {NULL}],
          active_row : [Workspaces -> Int],
          row_count : [Workspaces -> Int],
          active_workspace : 0 .. WorkspaceCount,
          updated : SUBSET Structs,
          fault : Faults]

Allocated(h) == {s \in Structs : h[s] # Free}

\* The lists hold no freed struct.
Whole(m) == \A i \in Workspaces : OnList(m, i) \subseteq Allocated(m.heap)

\* The rows of a workspace are counted, and the last one is active.
RowsOK(m) ==
  \A i \in Workspaces : m.row_count[i] \in 1 .. MaxRows /\ m.active_row[i] = m.row_count[i] - 1

\* The two records differ in slots, tiles and rows only.
SameLinks(g, h) ==
  \A s \in Structs :
    /\ g[s] = Free <=> h[s] = Free
    /\ h[s] # Free => /\ g[s].next = h[s].next
                      /\ g[s].x11_window = h[s].x11_window
                      /\ g[s].workspace = h[s].workspace

SameLists(a, m) ==
  /\ SameLinks(a.heap, m.heap)
  /\ a.first = m.first /\ a.last = m.last
  /\ a.focused_window = m.focused_window /\ a.active_workspace = m.active_workspace

LEMMA SameListsTransitive ==
  ASSUME NEW a, NEW b, NEW c, SameLists(a, b), SameLists(b, c)
  PROVE  SameLists(a, c)
  BY DEF SameLists, SameLinks

\* With the same links and pointers, all lists are the same.
LEMMA SameListsSame ==
  ASSUME NEW a \in Mawim, NEW m \in Mawim, SameLists(a, m)
  PROVE  /\ \A i \in Workspaces : /\ OnList(a, i) = OnList(m, i)
                                  /\ \A w \in Windows : Whole(m) => Showing(a, i, w) = Showing(m, i, w)
         /\ Whole(m) => Whole(a)
         /\ Acyclic(m.heap) => Acyclic(a.heap)
         /\ Allocated(a.heap) = Allocated(m.heap)
<1>1. a.heap \in Heap /\ m.heap \in Heap /\ \A i \in Workspaces : m.first[i] \in Structs \cup {NULL}
  BY DEF Mawim
<1>2. \A s \in Structs : After(a.heap, s) = After(m.heap, s)
  BY DEF SameLists, SameLinks, After
<1>3. ASSUME NEW i \in Workspaces
      PROVE  OnList(a, i) = OnList(m, i)
  <2>1. Reach(a.heap, m.first[i]) = Reach(m.heap, m.first[i])
    BY <1>1, <1>2, WalkSame
  <2> QED BY <2>1, OnListIsReach DEF SameLists
<1>4. Allocated(a.heap) = Allocated(m.heap)
  BY DEF Allocated, SameLists, SameLinks
<1>5. ASSUME NEW i \in Workspaces, NEW w \in Windows, Whole(m)
      PROVE  Showing(a, i, w) = Showing(m, i, w)
  <2>1. \A s \in OnList(m, i) : a.heap[s].x11_window = m.heap[s].x11_window
    BY <1>5 DEF Whole, Allocated, SameLists, SameLinks
  <2> QED BY <2>1, <1>3 DEF Showing
<1>6. Acyclic(m.heap) => Acyclic(a.heap)
  BY <1>2 DEF Acyclic, Descends
<1> QED BY <1>3, <1>4, <1>5, <1>6 DEF Whole

LEMMA OnListType ==
  ASSUME NEW m \in Mawim, NEW i \in Workspaces
  PROVE  OnList(m, i) \subseteq Structs
<1>1. m.heap \in Heap /\ m.first[i] \in Structs \cup {NULL}
  BY DEF Mawim
<1> QED BY <1>1, ReachType, OnListIsReach

LEMMA WinsOnRowType ==
  ASSUME NEW m \in Mawim, NEW i \in Workspaces, NEW r
  PROVE  /\ WinsOnRow(m, i, r) \subseteq OnList(m, i)
         /\ WinsOnRow(m, i, r) \subseteq Structs
         /\ Cardinality(WinsOnRow(m, i, r)) \in Nat
<1>1. WinsOnRow(m, i, r) \subseteq OnList(m, i)
  BY DEF WinsOnRow
<1>2. WinsOnRow(m, i, r) \subseteq Structs
  BY <1>1, OnListType
<1>3. IsFiniteSet(WinsOnRow(m, i, r))
  BY <1>2, FS_Subset, WindowManagerAssumption
<1> QED BY <1>1, <1>2, <1>3, FS_CardinalityType

LEMMA ListedType ==
  ASSUME NEW m \in Mawim
  PROVE  Listed(m) \subseteq Structs
  BY OnListType DEF Listed

Rect == [x : Int, y : Int, width : Int, height : Int]

\* A tile is made of integers: mawim_update_window never divides by zero.
LEMMA TileOfType ==
  ASSUME NEW m \in Mawim, RowsOK(m), NEW s \in Structs, m.heap[s] # Free
  PROVE  TileOf(m, s) \in Rect
<1> DEFINE i == m.heap[s].workspace
           n == Cardinality(WinsOnRow(m, i, m.heap[s].row))
<1>1. i \in Workspaces /\ m.heap[s].row \in Int /\ m.heap[s].col \in Int
  BY DEF Mawim, Heap, Window
<1>2. n \in Nat
  BY <1>1, WinsOnRowType
<1>3. m.row_count[i] \in Nat \ {0}
  BY <1>1 DEF RowsOK
<1>4. AtLeastOne(n) \in Nat \ {0}
  BY <1>2 DEF AtLeastOne
<1> DEFINE width == DisplayWidth \div AtLeastOne(n)
           height == DisplayHeight \div m.row_count[i]
<1>5. width \in Int /\ height \in Int
  BY <1>3, <1>4, WindowManagerAssumption
<1>6. TileOf(m, s) = [x |-> width * m.heap[s].col, y |-> height * m.heap[s].row,
                      width |-> width, height |-> height]
  BY DEF TileOf
<1> HIDE DEF width, height, i, n
<1> QED BY <1>1, <1>5, <1>6 DEF Rect

\* mawim_update_window on a set of structs changes geometry only.
LEMMA UpdateKeeps ==
  ASSUME NEW m \in Mawim, RowsOK(m), NEW S \in SUBSET Allocated(m.heap)
  PROVE  LET u == UpdateWindows(m, S)
         IN  /\ u \in Mawim /\ SameLists(u, m) /\ RowsOK(u) /\ u.fault = m.fault
             /\ \A s \in Allocated(m.heap) : /\ u.heap[s].row = m.heap[s].row
                                             /\ u.heap[s].col = m.heap[s].col
<1> DEFINE u == UpdateWindows(m, S)
           slotted == {s \in S : m.heap[s].row >= 0 /\ m.heap[s].col >= 0}
<1>1. slotted \subseteq Structs /\ \A s \in slotted : m.heap[s] # Free
  BY DEF Allocated
<1>2. \A s \in slotted : m.heap[s] \in Window /\ TileOf(m, s) \in Rect
  BY <1>1, TileOfType DEF Mawim, Heap
<1>3. \A s \in slotted : /\ [m.heap[s] EXCEPT !.geometry = TileOf(m, s)] \in Window
                         /\ [m.heap[s] EXCEPT !.geometry = TileOf(m, s)].next = m.heap[s].next
                         /\ [m.heap[s] EXCEPT !.geometry = TileOf(m, s)].x11_window = m.heap[s].x11_window
                         /\ [m.heap[s] EXCEPT !.geometry = TileOf(m, s)].workspace = m.heap[s].workspace
                         /\ [m.heap[s] EXCEPT !.geometry = TileOf(m, s)].row = m.heap[s].row
                         /\ [m.heap[s] EXCEPT !.geometry = TileOf(m, s)].col = m.heap[s].col
  BY <1>2 DEF Window, Rect
<1> DEFINE tiled == [s \in Structs |-> IF s \in slotted
                                       THEN [m.heap[s] EXCEPT !.geometry = TileOf(m, s)]
                                       ELSE m.heap[s]]
<1>4. /\ tiled \in Heap /\ SameLinks(tiled, m.heap)
      /\ \A s \in Allocated(m.heap) : tiled[s].row = m.heap[s].row /\ tiled[s].col = m.heap[s].col
  <2>1. m.heap \in Heap
    BY DEF Mawim
  <2> HIDE DEF slotted
  <2> QED BY <1>1, <1>3, <2>1, FreeAssumption DEF Heap, SameLinks, Allocated
<1>5. u = [m EXCEPT !.heap = tiled, !.updated = m.updated \cup slotted]
  BY DEF UpdateWindows
<1> HIDE DEF tiled, slotted, u
<1>6. u \in Mawim
  BY <1>1, <1>4, <1>5 DEF Mawim
<1>7. /\ u.heap = tiled /\ u.first = m.first /\ u.last = m.last /\ u.fault = m.fault
      /\ u.focused_window = m.focused_window /\ u.active_workspace = m.active_workspace
      /\ u.row_count = m.row_count /\ u.active_row = m.active_row
  BY <1>5 DEF Mawim
<1> QED BY <1>4, <1>6, <1>7 DEF SameLists, RowsOK, u

\* The two records differ in the slot of s only.
SlotOnly(a, m, s) ==
  /\ a \in Mawim /\ SameLists(a, m)
  /\ \A t \in Structs \ {s} : a.heap[t] = m.heap[t]
  /\ a.row_count = m.row_count /\ a.active_row = m.active_row
  /\ a.fault = m.fault /\ a.updated = m.updated

\* Setting the row of one struct.
LEMMA RowSet ==
  ASSUME NEW m \in Mawim, NEW s \in Allocated(m.heap), NEW r \in Int
  PROVE  LET a == [m EXCEPT !.heap[s].row = r]
         IN  /\ SlotOnly(a, m, s) /\ a.heap[s].row = r /\ a.heap[s].col = m.heap[s].col
             /\ a.heap[s].geometry = m.heap[s].geometry
<1> DEFINE h == [m.heap EXCEPT ![s].row = r]
           a == [m EXCEPT !.heap = h]
<1>1. m.heap \in Heap /\ s \in Structs /\ m.heap[s] \in Window
  BY DEF Mawim, Heap, Allocated
<1>2. h \in Heap /\ h[s] \in Window /\ h[s] = [m.heap[s] EXCEPT !.row = r]
  BY <1>1 DEF Heap, Window
<1>3. /\ h[s].row = r /\ h[s].col = m.heap[s].col /\ h[s].next = m.heap[s].next
      /\ h[s].x11_window = m.heap[s].x11_window /\ h[s].workspace = m.heap[s].workspace
      /\ h[s].geometry = m.heap[s].geometry
  BY <1>1, <1>2 DEF Window
<1>4. \A t \in Structs \ {s} : h[t] = m.heap[t]
  BY <1>1 DEF Heap
<1>5. SameLinks(h, m.heap)
  BY <1>1, <1>2, <1>3, <1>4, FreeAssumption DEF SameLinks
<1> HIDE DEF h
<1>6. a \in Mawim /\ a.heap = h
  BY <1>2 DEF Mawim
<1>7. /\ a.first = m.first /\ a.last = m.last /\ a.fault = m.fault /\ a.updated = m.updated
      /\ a.focused_window = m.focused_window /\ a.active_workspace = m.active_workspace
      /\ a.row_count = m.row_count /\ a.active_row = m.active_row
  BY DEF Mawim
<1>8. [m EXCEPT !.heap[s].row = r] = a
  BY DEF h
<1> HIDE DEF a
<1> QED BY <1>3, <1>4, <1>5, <1>6, <1>7, <1>8 DEF SlotOnly, SameLists

\* Setting the column of one struct.
LEMMA ColumnSet ==
  ASSUME NEW m \in Mawim, NEW s \in Allocated(m.heap), NEW c \in Int
  PROVE  LET a == [m EXCEPT !.heap[s].col = c]
         IN  /\ SlotOnly(a, m, s) /\ a.heap[s].col = c /\ a.heap[s].row = m.heap[s].row
             /\ a.heap[s].geometry = m.heap[s].geometry
<1> DEFINE h == [m.heap EXCEPT ![s].col = c]
           a == [m EXCEPT !.heap = h]
<1>1. m.heap \in Heap /\ s \in Structs /\ m.heap[s] \in Window
  BY DEF Mawim, Heap, Allocated
<1>2. h \in Heap /\ h[s] \in Window /\ h[s] = [m.heap[s] EXCEPT !.col = c]
  BY <1>1 DEF Heap, Window
<1>3. /\ h[s].col = c /\ h[s].row = m.heap[s].row /\ h[s].next = m.heap[s].next
      /\ h[s].x11_window = m.heap[s].x11_window /\ h[s].workspace = m.heap[s].workspace
      /\ h[s].geometry = m.heap[s].geometry
  BY <1>1, <1>2 DEF Window
<1>4. \A t \in Structs \ {s} : h[t] = m.heap[t]
  BY <1>1 DEF Heap
<1>5. SameLinks(h, m.heap)
  BY <1>1, <1>2, <1>3, <1>4, FreeAssumption DEF SameLinks
<1> HIDE DEF h
<1>6. a \in Mawim /\ a.heap = h
  BY <1>2 DEF Mawim
<1>7. /\ a.first = m.first /\ a.last = m.last /\ a.fault = m.fault /\ a.updated = m.updated
      /\ a.focused_window = m.focused_window /\ a.active_workspace = m.active_workspace
      /\ a.row_count = m.row_count /\ a.active_row = m.active_row
  BY DEF Mawim
<1>8. [m EXCEPT !.heap[s].col = c] = a
  BY DEF h
<1> HIDE DEF a
<1> QED BY <1>3, <1>4, <1>5, <1>6, <1>7, <1>8 DEF SlotOnly, SameLists

LEMMA SlotOnlyTransitive ==
  ASSUME NEW a, NEW b, NEW c, NEW s, SlotOnly(a, b, s), SlotOnly(b, c, s)
  PROVE  SlotOnly(a, c, s)
  BY SameListsTransitive DEF SlotOnly

\* Clearing the slot of one struct.
LEMMA SlotCleared ==
  ASSUME NEW m \in Mawim, NEW s \in Allocated(m.heap)
  PROVE  LET off == [m EXCEPT !.heap[s].row = -1, !.heap[s].col = -1]
         IN  /\ SlotOnly(off, m, s) /\ off.heap[s].row = -1 /\ off.heap[s].col = -1
             /\ off.heap[s].geometry = m.heap[s].geometry
<1> DEFINE a == [m EXCEPT !.heap[s].row = -1]
           off == [m EXCEPT !.heap[s].row = -1, !.heap[s].col = -1]
<1>1. SlotOnly(a, m, s) /\ a.heap[s].row = -1 /\ a.heap[s].geometry = m.heap[s].geometry
  BY RowSet
<1>2. a \in Mawim /\ s \in Allocated(a.heap)
  BY <1>1, SameListsSame DEF SlotOnly
<1>3. off = [a EXCEPT !.heap[s].col = -1]
  OBVIOUS
<1> HIDE DEF a, off
<1>4. /\ SlotOnly(off, a, s) /\ off.heap[s].col = -1 /\ off.heap[s].row = a.heap[s].row
      /\ off.heap[s].geometry = a.heap[s].geometry
  BY <1>2, <1>3, ColumnSet
<1>5. SlotOnly(off, m, s)
  BY <1>1, <1>4, SlotOnlyTransitive
<1> QED BY <1>1, <1>4, <1>5 DEF off

LEMMA RowCountSet ==
  ASSUME NEW m \in Mawim, NEW i \in Workspaces, NEW n \in Int
  PROVE  LET a == [m EXCEPT !.row_count[i] = n]
         IN  /\ a \in Mawim /\ SameLists(a, m) /\ a.heap = m.heap
             /\ a.row_count = [m.row_count EXCEPT ![i] = n] /\ a.active_row = m.active_row
             /\ a.fault = m.fault /\ a.updated = m.updated
  BY DEF Mawim, SameLists, SameLinks

LEMMA ActiveRowSet ==
  ASSUME NEW m \in Mawim, NEW i \in Workspaces, NEW n \in Int
  PROVE  LET a == [m EXCEPT !.active_row[i] = n]
         IN  /\ a \in Mawim /\ SameLists(a, m) /\ a.heap = m.heap
             /\ a.active_row = [m.active_row EXCEPT ![i] = n] /\ a.row_count = m.row_count
             /\ a.fault = m.fault /\ a.updated = m.updated
  BY DEF Mawim, SameLists, SameLinks

\* mawim_manage_window: the lists stay, rows are added at the end of the
\* workspace, and a struct that its list finds has a slot afterwards.
LEMMA ManageKeeps ==
  ASSUME NEW m \in Mawim, RowsOK(m), Whole(m), NEW s \in Allocated(m.heap)
  PROVE  LET u == ManageWindow(m, s)
         IN  /\ u \in Mawim /\ SameLists(u, m) /\ RowsOK(u) /\ u.fault = m.fault
             /\ \A t \in Allocated(m.heap) \ {s} : /\ u.heap[t].row = m.heap[t].row
                                                   /\ u.heap[t].col = m.heap[t].col
             /\ s \in OnList(m, m.heap[s].workspace) => u.heap[s].row >= 0 /\ u.heap[s].col >= 0
<1> DEFINE i == m.heap[s].workspace
           a == m.active_row[i]
           joined == [m EXCEPT !.heap[s].row = IF @ < 0 THEN a ELSE @]
           full == m.heap[s].row < 0 /\ Cardinality(WinsOnRow(joined, i, a)) = MaxRows
           below == IF a + 1 < MaxRows - 1 THEN a + 1 ELSE MaxRows - 1
           new_row == full /\ below # a
           rowed == [joined EXCEPT !.heap[s].row = IF full THEN below ELSE @,
                                   !.row_count[i] = IF new_row THEN @ + 1 ELSE @]
           row_wins == WinsOnRow(rowed, i, rowed.heap[s].row)
           placed == [rowed EXCEPT !.heap[s].col = IF @ < 0 THEN Cardinality(row_wins) - 1 ELSE @,
                                   !.active_row[i] = IF new_row THEN rowed.heap[s].row ELSE @]
           S == {s} \cup (IF new_row THEN OnList(placed, i) ELSE row_wins)
           r1 == IF m.heap[s].row < 0 THEN a ELSE m.heap[s].row
           r2 == IF full THEN below ELSE r1
           n2 == IF new_row THEN m.row_count[i] + 1 ELSE m.row_count[i]
           c2 == IF m.heap[s].col < 0 THEN Cardinality(row_wins) - 1 ELSE m.heap[s].col
           a2 == IF new_row THEN rowed.heap[s].row ELSE a
           rejoined == [joined EXCEPT !.heap[s].row = r2]
           columned == [rowed EXCEPT !.heap[s].col = c2]
           u == ManageWindow(m, s)
<1>19. u = IF FindWindow(m, i, m.heap[s].x11_window) = NULL THEN m ELSE UpdateWindows(placed, S)
  BY DEF ManageWindow
<1> HIDE DEF joined, rowed, placed, row_wins, S, rejoined, columned
<1>1. /\ s \in Structs /\ m.heap[s] \in Window /\ i \in Workspaces
      /\ m.heap[s].row \in Int /\ m.heap[s].col \in Int
  BY DEF Allocated, Mawim, Heap, Window
<1>2. /\ m.row_count[i] \in 1 .. MaxRows /\ a = m.row_count[i] - 1 /\ MaxRows \in Nat \ {0}
      /\ r1 \in Int /\ below \in Nat /\ r2 \in Int /\ n2 \in Int
      /\ a >= 0 /\ r1 >= 0 /\ r2 >= 0
  <2>1. m.row_count[i] \in 1 .. MaxRows /\ a = m.row_count[i] - 1 /\ MaxRows \in Nat \ {0}
    BY <1>1, WindowManagerAssumption DEF RowsOK
  <2> HIDE DEF full, i
  <2> QED BY <1>1, <2>1
<1> HIDE DEF r1, u
<1>3. SlotOnly(joined, m, s) /\ joined.heap[s].row = r1 /\ joined.heap[s].col = m.heap[s].col
  <2>1. joined = [m EXCEPT !.heap[s].row = r1]
    BY DEF joined, r1
  <2> QED BY <2>1, <1>2, RowSet
<1>4. joined \in Mawim /\ s \in Allocated(joined.heap)
  BY <1>3, SameListsSame DEF SlotOnly
<1> HIDE DEF r2
<1>5. SlotOnly(rejoined, joined, s) /\ rejoined.heap[s].row = r2 /\ rejoined.heap[s].col = m.heap[s].col
  BY <1>2, <1>3, <1>4, RowSet DEF rejoined
<1>6. SlotOnly(rejoined, m, s) /\ rejoined \in Mawim
  BY <1>3, <1>5, SlotOnlyTransitive DEF SlotOnly
<1> HIDE DEF n2
<1>7. /\ rowed \in Mawim /\ SameLists(rowed, rejoined) /\ rowed.heap = rejoined.heap
      /\ rowed.row_count = [m.row_count EXCEPT ![i] = n2] /\ rowed.active_row = m.active_row
      /\ rowed.fault = m.fault
  <2>1. rowed = [rejoined EXCEPT !.row_count[i] = n2]
    BY <1>3 DEF rowed, rejoined, n2, r2, r1, SlotOnly
  <2> QED BY <2>1, <1>1, <1>2, <1>6, RowCountSet DEF SlotOnly
<1>8. SameLists(rowed, m) /\ s \in Allocated(rowed.heap)
  BY <1>6, <1>7, SameListsTransitive, SameListsSame DEF SlotOnly
<1>9. c2 \in Int /\ (m.heap[s].col >= 0 => c2 >= 0)
  BY <1>1, <1>7, WinsOnRowType DEF row_wins
<1>10. s \in OnList(m, i) => c2 >= 0
  <2>1. SUFFICES ASSUME s \in OnList(m, i), m.heap[s].col < 0
                 PROVE  Cardinality(row_wins) - 1 >= 0
    BY <1>1, <1>9
  <2>2. s \in OnList(rowed, i)
    BY <1>1, <1>7, <1>8, <2>1, SameListsSame
  <2>3. rowed.heap[s].workspace = i
    BY <1>1, <1>8 DEF SameLists, SameLinks, Allocated
  <2>4. s \in row_wins
    BY <2>2, <2>3 DEF WinsOnRow, row_wins
  <2>5. row_wins \subseteq Structs /\ Cardinality(row_wins) \in Nat
    BY <1>1, <1>7, WinsOnRowType DEF row_wins
  <2>6. IsFiniteSet(row_wins)
    BY <2>5, FS_Subset, WindowManagerAssumption
  <2>7. Cardinality(row_wins) # 0
    BY <2>4, <2>6, FS_EmptySet
  <2> QED BY <2>5, <2>7
<1> HIDE DEF c2
<1>11. /\ SlotOnly(columned, rowed, s) /\ columned.heap[s].col = c2
       /\ columned.heap[s].row = rowed.heap[s].row
  BY <1>7, <1>8, <1>9, ColumnSet DEF columned
<1>12. SameLists(columned, m) /\ columned \in Mawim
  BY <1>8, <1>11, SameListsTransitive DEF SlotOnly
<1>13. a2 \in Int
  BY <1>1, <1>2, <1>5, <1>7
<1> HIDE DEF a2
<1>14. /\ placed \in Mawim /\ SameLists(placed, columned) /\ placed.heap = columned.heap
       /\ placed.active_row = [m.active_row EXCEPT ![i] = a2]
       /\ placed.row_count = [m.row_count EXCEPT ![i] = n2]
       /\ placed.fault = m.fault
  <2>1. placed = [columned EXCEPT !.active_row[i] = a2]
    BY <1>5, <1>7 DEF placed, columned, a2, c2
  <2> QED BY <2>1, <1>1, <1>7, <1>11, <1>12, <1>13, ActiveRowSet DEF SlotOnly
<1>15. SameLists(placed, m)
  BY <1>12, <1>14, SameListsTransitive
<1>16. RowsOK(placed)
  <2>1. n2 \in 1 .. MaxRows /\ a2 = n2 - 1
    <3>1. CASE new_row
      <4>1. below = a + 1 /\ a + 1 <= MaxRows - 1
        <5> HIDE DEF i, full
        <5> QED BY <1>2, <3>1
      <4>2. n2 = m.row_count[i] + 1 /\ a2 = below
        BY <3>1, <1>5, <1>7 DEF n2, a2, r2
      <4> HIDE DEF i, below
      <4> QED BY <1>2, <4>1, <4>2
    <3>2. CASE ~ new_row
      BY <1>2, <3>2 DEF n2, a2
    <3> QED BY <3>1, <3>2
  <2> HIDE DEF i, placed
  <2>2. m.row_count \in [Workspaces -> Int] /\ m.active_row \in [Workspaces -> Int]
    BY DEF Mawim
  <2> QED BY <1>1, <1>14, <2>1, <2>2 DEF RowsOK
<1>17. /\ \A t \in Structs \ {s} : placed.heap[t] = m.heap[t]
       /\ placed.heap[s].row = r2 /\ placed.heap[s].col = c2
  BY <1>5, <1>6, <1>7, <1>11, <1>14 DEF SlotOnly
<1>18. S \in SUBSET Allocated(placed.heap)
  <2>1. Whole(placed) /\ Whole(rowed) /\ Allocated(placed.heap) = Allocated(m.heap)
        /\ Allocated(rowed.heap) = Allocated(m.heap)
    BY <1>7, <1>8, <1>14, <1>15, SameListsSame
  <2>2. OnList(placed, i) \subseteq Allocated(placed.heap)
    BY <1>1, <2>1 DEF Whole
  <2>3. row_wins \subseteq Allocated(placed.heap)
    BY <1>1, <1>7, <2>1, WinsOnRowType DEF Whole, row_wins
  <2> QED BY <2>1, <2>2, <2>3 DEF S
<1>20. CASE FindWindow(m, i, m.heap[s].x11_window) = NULL
  <2>1. u = m
    BY <1>19, <1>20
  <2>2. s \notin OnList(m, i)
    <3>1. NULL \notin Showing(m, i, m.heap[s].x11_window)
      BY <1>1, OnListType, StructsFinite, ShowingType
    <3>2. Showing(m, i, m.heap[s].x11_window) = {}
      BY <1>20, <3>1, FindWindowFinds
    <3> QED BY <3>2 DEF Showing
  <2>3. SameLists(m, m)
    BY DEF SameLists, SameLinks
  <2> QED BY <2>1, <2>2, <2>3 DEF u
<1>21. CASE FindWindow(m, i, m.heap[s].x11_window) # NULL
  <2>1. u = UpdateWindows(placed, S)
    BY <1>19, <1>21
  <2>2. /\ u \in Mawim /\ SameLists(u, placed) /\ RowsOK(u) /\ u.fault = placed.fault
        /\ \A t \in Allocated(placed.heap) : /\ u.heap[t].row = placed.heap[t].row
                                             /\ u.heap[t].col = placed.heap[t].col
    BY <1>14, <1>16, <1>18, <2>1, UpdateKeeps
  <2>3. SameLists(u, m) /\ Allocated(placed.heap) = Allocated(m.heap)
    BY <1>14, <1>15, <2>2, SameListsTransitive, SameListsSame
  <2>4. Allocated(m.heap) \subseteq Structs
    BY DEF Allocated
  <2>5. \A t \in Allocated(m.heap) \ {s} : u.heap[t].row = m.heap[t].row /\ u.heap[t].col = m.heap[t].col
    BY <1>17, <2>2, <2>3, <2>4
  <2>6. u.heap[s].row = r2 /\ u.heap[s].col = c2
    BY <1>17, <2>2, <2>3
  <2> QED BY <1>2, <1>10, <1>14, <2>2, <2>3, <2>5, <2>6 DEF u
<1> QED BY <1>20, <1>21 DEF u

\* The structs of S move to the left, or up.
MovedLeft(m, S) ==
  [m EXCEPT !.heap = [t \in Structs |->
              IF t \in S THEN [m.heap[t] EXCEPT !.col = @ - 1] ELSE m.heap[t]]]

MovedUp(m, S) ==
  [m EXCEPT !.heap = [t \in Structs |->
              IF t \in S THEN [m.heap[t] EXCEPT !.row = @ - 1] ELSE m.heap[t]]]

MovedLeftFrom(a, m, S) ==
  /\ a \in Mawim /\ SameLists(a, m) /\ a.fault = m.fault
  /\ a.row_count = m.row_count /\ a.active_row = m.active_row
  /\ \A t \in Allocated(m.heap) :
       /\ a.heap[t].row = m.heap[t].row
       /\ a.heap[t].col = IF t \in S THEN m.heap[t].col - 1 ELSE m.heap[t].col
       /\ a.heap[t].geometry = m.heap[t].geometry

MovedUpFrom(a, m, S) ==
  /\ a \in Mawim /\ SameLists(a, m) /\ a.fault = m.fault
  /\ a.row_count = m.row_count /\ a.active_row = m.active_row
  /\ \A t \in Allocated(m.heap) :
       /\ a.heap[t].col = m.heap[t].col
       /\ a.heap[t].row = IF t \in S THEN m.heap[t].row - 1 ELSE m.heap[t].row
       /\ a.heap[t].geometry = m.heap[t].geometry

LEMMA SlotsMoved ==
  ASSUME NEW m \in Mawim, NEW S \in SUBSET Allocated(m.heap)
  PROVE  MovedLeftFrom(MovedLeft(m, S), m, S) /\ MovedUpFrom(MovedUp(m, S), m, S)
<1> DEFINE l == [t \in Structs |-> IF t \in S THEN [m.heap[t] EXCEPT !.col = @ - 1] ELSE m.heap[t]]
           k == [t \in Structs |-> IF t \in S THEN [m.heap[t] EXCEPT !.row = @ - 1] ELSE m.heap[t]]
           left == MovedLeft(m, S)
           up == MovedUp(m, S)
<1>0. left = [m EXCEPT !.heap = l] /\ up = [m EXCEPT !.heap = k]
  BY DEF MovedLeft, MovedUp
<1> HIDE DEF left, up
<1>1. /\ m.heap \in Heap /\ S \subseteq Structs
      /\ \A t \in S : m.heap[t] \in Window
  BY DEF Mawim, Heap, Allocated
<1>2. ASSUME NEW t \in S
      PROVE  /\ l[t] \in Window /\ l[t].row = m.heap[t].row /\ l[t].col = m.heap[t].col - 1
             /\ l[t].next = m.heap[t].next /\ l[t].workspace = m.heap[t].workspace
             /\ l[t].x11_window = m.heap[t].x11_window /\ l[t].geometry = m.heap[t].geometry
             /\ k[t] \in Window /\ k[t].col = m.heap[t].col /\ k[t].row = m.heap[t].row - 1
             /\ k[t].next = m.heap[t].next /\ k[t].workspace = m.heap[t].workspace
             /\ k[t].x11_window = m.heap[t].x11_window /\ k[t].geometry = m.heap[t].geometry
  <2>1. /\ l[t] = [m.heap[t] EXCEPT !.col = m.heap[t].col - 1]
        /\ k[t] = [m.heap[t] EXCEPT !.row = m.heap[t].row - 1]
    BY <1>1
  <2> HIDE DEF l, k
  <2> QED BY <2>1, <1>1 DEF Window
<1>3. \A t \in Structs \ S : l[t] = m.heap[t] /\ k[t] = m.heap[t]
  OBVIOUS
<1>4. DOMAIN l = Structs /\ DOMAIN k = Structs /\ l = [t \in Structs |-> l[t]] /\ k = [t \in Structs |-> k[t]]
  OBVIOUS
<1> HIDE DEF l, k
<1>5. l \in Heap /\ k \in Heap
  BY <1>1, <1>2, <1>3, <1>4 DEF Heap
<1>6. SameLinks(l, m.heap) /\ SameLinks(k, m.heap)
  BY <1>1, <1>2, <1>3, FreeAssumption DEF SameLinks, Allocated
<1>7. left \in Mawim /\ left.heap = l /\ up \in Mawim /\ up.heap = k
  BY <1>0, <1>5 DEF Mawim
<1>8. /\ left.first = m.first /\ left.last = m.last /\ left.fault = m.fault
      /\ left.focused_window = m.focused_window /\ left.active_workspace = m.active_workspace
      /\ left.row_count = m.row_count /\ left.active_row = m.active_row
      /\ up.first = m.first /\ up.last = m.last /\ up.fault = m.fault
      /\ up.focused_window = m.focused_window /\ up.active_workspace = m.active_workspace
      /\ up.row_count = m.row_count /\ up.active_row = m.active_row
  BY <1>0 DEF Mawim
<1>9. \A t \in Allocated(m.heap) :
        /\ l[t].row = m.heap[t].row
        /\ l[t].col = IF t \in S THEN m.heap[t].col - 1 ELSE m.heap[t].col
        /\ k[t].col = m.heap[t].col
        /\ k[t].row = IF t \in S THEN m.heap[t].row - 1 ELSE m.heap[t].row
        /\ l[t].geometry = m.heap[t].geometry /\ k[t].geometry = m.heap[t].geometry
  BY <1>2, <1>3 DEF Allocated
<1>10. SameLists(left, m) /\ SameLists(up, m)
  BY <1>6, <1>7, <1>8 DEF SameLists
<1>11. MovedLeftFrom(left, m, S)
  BY <1>7, <1>8, <1>9, <1>10 DEF MovedLeftFrom
<1>12. MovedUpFrom(up, m, S)
  BY <1>7, <1>8, <1>9, <1>10 DEF MovedUpFrom
<1> QED BY <1>11, <1>12 DEF left, up

\* The structs of S move up, and workspace i has n rows, of which k is active.
Raised(m, S, i, n, k) ==
  [m EXCEPT !.heap = [t \in Structs |->
              IF t \in S THEN [m.heap[t] EXCEPT !.row = @ - 1] ELSE m.heap[t]],
            !.row_count[i] = n, !.active_row[i] = k]

RaisedFrom(a, m, S, i, n, k) ==
  /\ a \in Mawim /\ SameLists(a, m) /\ a.fault = m.fault
  /\ a.row_count = [m.row_count EXCEPT ![i] = n]
  /\ a.active_row = [m.active_row EXCEPT ![i] = k]
  /\ \A t \in Allocated(m.heap) :
       /\ a.heap[t].col = m.heap[t].col
       /\ a.heap[t].row = IF t \in S THEN m.heap[t].row - 1 ELSE m.heap[t].row
       /\ a.heap[t].geometry = m.heap[t].geometry

LEMMA RowClosed ==
  ASSUME NEW m \in Mawim, NEW S \in SUBSET Allocated(m.heap), NEW i \in Workspaces,
         NEW n \in Int, NEW k \in Int
  PROVE  RaisedFrom(Raised(m, S, i, n, k), m, S, i, n, k)
<1> DEFINE up == MovedUp(m, S)
           counted == [up EXCEPT !.row_count[i] = n]
           raised == [counted EXCEPT !.active_row[i] = k]
<1>1. /\ up \in Mawim /\ SameLists(up, m) /\ up.fault = m.fault
      /\ up.row_count = m.row_count /\ up.active_row = m.active_row
      /\ \A t \in Allocated(m.heap) :
           /\ up.heap[t].col = m.heap[t].col
           /\ up.heap[t].row = IF t \in S THEN m.heap[t].row - 1 ELSE m.heap[t].row
           /\ up.heap[t].geometry = m.heap[t].geometry
  BY SlotsMoved DEF MovedUpFrom
<1> HIDE DEF up
<1>2. /\ counted \in Mawim /\ SameLists(counted, up) /\ counted.heap = up.heap
      /\ counted.row_count = [m.row_count EXCEPT ![i] = n]
      /\ counted.active_row = m.active_row /\ counted.fault = m.fault
  BY <1>1, RowCountSet
<1> HIDE DEF counted
<1>3. /\ raised \in Mawim /\ SameLists(raised, counted) /\ raised.heap = up.heap
      /\ raised.row_count = [m.row_count EXCEPT ![i] = n]
      /\ raised.active_row = [m.active_row EXCEPT ![i] = k] /\ raised.fault = m.fault
  BY <1>2, ActiveRowSet
<1>4. SameLists(raised, m)
  BY <1>1, <1>2, <1>3, SameListsTransitive
<1>5. raised = Raised(m, S, i, n, k)
  BY DEF Raised, MovedUp, raised, counted, up
<1> HIDE DEF raised
<1> QED BY <1>1, <1>3, <1>4, <1>5 DEF RaisedFrom

\* mawim_unmanage_window: the lists stay, a row goes at the end of the
\* workspace, and the other structs keep a slot.  It reaches the free of an
\* uninitialized pointer only for a workspace whose list is empty.
LEMMA UnmanageKeeps ==
  ASSUME NEW m \in Mawim, RowsOK(m), Whole(m), NEW s \in Allocated(m.heap)
  PROVE  LET u == UnmanageWindow(m, s)
         IN  /\ u \in Mawim /\ SameLists(u, m) /\ RowsOK(u)
             /\ m.first[m.heap[s].workspace] # NULL => u.fault = m.fault
             /\ m.fault # "none" => u.fault # "none"
             /\ (m.heap[s].row >= 0 /\ m.heap[s].col >= 0) =>
                  \A t \in Allocated(m.heap) \ {s} :
                    (m.heap[t].row >= 0 /\ m.heap[t].col >= 0) =>
                      u.heap[t].row >= 0 /\ u.heap[t].col >= 0
<1> DEFINE i == m.heap[s].workspace
           oldrow == m.heap[s].row
           oldcol == m.heap[s].col
           off == [m EXCEPT !.heap[s].row = -1, !.heap[s].col = -1]
           row_windows == WinsOnRow(off, i, oldrow)
           closed == [off EXCEPT !.heap = [t \in Structs |->
                        IF t \in row_windows /\ off.heap[t].col > oldcol
                        THEN [off.heap[t] EXCEPT !.col = @ - 1] ELSE off.heap[t]]]
           beneath == UNION {WinsOnRow(off, i, r) : r \in oldrow + 1 .. m.row_count[i] - 1}
           count == m.row_count[i] - 1
           raised == [off EXCEPT !.heap = [t \in Structs |->
                                             IF t \in beneath THEN [off.heap[t] EXCEPT !.row = @ - 1]
                                             ELSE off.heap[t]],
                                 !.row_count[i] = count,
                                 !.active_row[i] = IF @ + 1 > count THEN count - 1 ELSE @]
           others == {t \in row_windows : m.heap[t].x11_window # m.heap[s].x11_window}
           u == UnmanageWindow(m, s)
           Slotted(h, t) == h[t].row >= 0 /\ h[t].col >= 0
           Keeps(a) == (m.heap[s].row >= 0 /\ m.heap[s].col >= 0) =>
                         \A t \in Allocated(m.heap) \ {s} : Slotted(m.heap, t) => Slotted(a.heap, t)
<1>1. u = IF row_windows # {} THEN UpdateWindows(closed, others)
          ELSE IF LastRow(m, i) THEN off
          ELSE IF m.first[i] = NULL THEN [off EXCEPT !.fault = "uninitialized free"]
          ELSE UpdateWindows(raised, Listed(raised))
  BY DEF UnmanageWindow
<1> HIDE DEF off, row_windows, closed, beneath, raised, others, u
<1>2. /\ s \in Structs /\ m.heap[s] \in Window /\ i \in Workspaces
      /\ oldrow \in Int /\ oldcol \in Int
      /\ \A t \in Allocated(m.heap) : m.heap[t].row \in Int /\ m.heap[t].col \in Int
  BY DEF Allocated, Mawim, Heap, Window
<1>3. m.row_count[i] \in 1 .. MaxRows /\ m.active_row[i] = m.row_count[i] - 1
  BY <1>2 DEF RowsOK
<1>4. SlotOnly(off, m, s)
  BY SlotCleared DEF off
<1>5. /\ off \in Mawim /\ SameLists(off, m) /\ RowsOK(off) /\ off.fault = m.fault
      /\ Allocated(off.heap) = Allocated(m.heap) /\ Whole(off)
      /\ \A t \in Allocated(m.heap) \ {s} : off.heap[t] = m.heap[t]
  BY <1>4, SameListsSame DEF SlotOnly, RowsOK, Allocated
<1>6. \A r : WinsOnRow(off, i, r) \subseteq Allocated(off.heap)
  BY <1>2, <1>5, WinsOnRowType DEF Whole
<1>7. ASSUME row_windows # {}
      PROVE  u \in Mawim /\ SameLists(u, m) /\ RowsOK(u) /\ u.fault = m.fault /\ Keeps(u)
  <2> DEFINE S == {t \in row_windows : off.heap[t].col > oldcol}
  <2>1. S \in SUBSET Allocated(off.heap)
    BY <1>6 DEF row_windows
  <2>2. closed = MovedLeft(off, S)
    BY DEF closed, MovedLeft
  <2>3. \A t \in S : off.heap[t].col > oldcol
    OBVIOUS
  <2> HIDE DEF S
  <2>4. /\ closed \in Mawim /\ SameLists(closed, off) /\ closed.fault = m.fault
        /\ closed.row_count = off.row_count /\ closed.active_row = off.active_row
        /\ \A t \in Allocated(off.heap) :
             /\ closed.heap[t].row = off.heap[t].row
             /\ closed.heap[t].col = IF t \in S THEN off.heap[t].col - 1 ELSE off.heap[t].col
    <3>1. MovedLeftFrom(closed, off, S)
      BY <1>5, <2>1, <2>2, SlotsMoved
    <3> QED BY <1>5, <3>1 DEF MovedLeftFrom
  <2>5. RowsOK(closed) /\ Allocated(closed.heap) = Allocated(m.heap)
    BY <1>5, <2>4, SameListsSame DEF RowsOK
  <2>6. others \in SUBSET Allocated(closed.heap)
    BY <1>5, <1>6, <2>5 DEF others, row_windows
  <2>7. /\ u \in Mawim /\ SameLists(u, closed) /\ RowsOK(u) /\ u.fault = m.fault
        /\ \A t \in Allocated(closed.heap) : /\ u.heap[t].row = closed.heap[t].row
                                             /\ u.heap[t].col = closed.heap[t].col
    BY <1>1, <1>7, <2>4, <2>5, <2>6, UpdateKeeps
  <2>8. SameLists(u, m)
    BY <1>5, <2>4, <2>7, SameListsTransitive
  <2>9. ASSUME m.heap[s].row >= 0, m.heap[s].col >= 0,
               NEW t \in Allocated(m.heap) \ {s}, Slotted(m.heap, t)
        PROVE  Slotted(u.heap, t)
    <3>1. off.heap[t] = m.heap[t]
      BY <1>5
    <3>2. closed.heap[t].row >= 0 /\ closed.heap[t].col >= 0
      BY <1>2, <1>5, <2>3, <2>4, <2>9, <3>1
    <3> QED BY <2>5, <2>7, <3>2
  <2> QED BY <2>7, <2>8, <2>9
<1>8. ASSUME row_windows = {}, LastRow(m, i)
      PROVE  u \in Mawim /\ SameLists(u, m) /\ RowsOK(u) /\ u.fault = m.fault /\ Keeps(u)
  BY <1>1, <1>5, <1>8
<1>9. ASSUME row_windows = {}, ~ LastRow(m, i), m.first[i] = NULL
      PROVE  u \in Mawim /\ SameLists(u, m) /\ RowsOK(u) /\ u.fault # "none" /\ Keeps(u)
  <2>1. u = [off EXCEPT !.fault = "uninitialized free"]
    BY <1>1, <1>9
  <2>2. /\ u \in Mawim /\ u.heap = off.heap /\ u.first = off.first /\ u.last = off.last
        /\ u.focused_window = off.focused_window /\ u.active_workspace = off.active_workspace
        /\ u.row_count = off.row_count /\ u.active_row = off.active_row
        /\ u.fault = "uninitialized free"
    BY <2>1, <1>5 DEF Mawim, Faults
  <2>3. SameLists(u, m) /\ RowsOK(u)
    BY <2>2, <1>5 DEF SameLists, RowsOK
  <2> QED BY <1>5, <2>2, <2>3
<1>10. ASSUME row_windows = {}, ~ LastRow(m, i), m.first[i] # NULL
       PROVE  u \in Mawim /\ SameLists(u, m) /\ RowsOK(u) /\ u.fault = m.fault /\ Keeps(u)
  <2> DEFINE k == IF m.active_row[i] + 1 > count THEN count - 1 ELSE m.active_row[i]
  <2>1. beneath \in SUBSET Allocated(off.heap)
    BY <1>6 DEF beneath
  <2>2. \A t \in beneath : off.heap[t].row >= oldrow + 1
    BY <1>2, <1>3 DEF beneath, WinsOnRow
  <2>3. count \in 1 .. MaxRows /\ count \in Int /\ k = count - 1 /\ k \in Int
    <3> HIDE DEF i
    <3> QED BY <1>3, <1>10, WindowManagerAssumption DEF LastRow
  <2>4. off.active_row = m.active_row /\ off.row_count = m.row_count
    BY <1>4 DEF SlotOnly
  <2>5. raised = Raised(off, beneath, i, count, k)
    BY <2>4 DEF raised, Raised
  <2> HIDE DEF k, count
  <2>6. /\ raised \in Mawim /\ SameLists(raised, off) /\ raised.fault = m.fault
        /\ raised.row_count = [m.row_count EXCEPT ![i] = count]
        /\ raised.active_row = [m.active_row EXCEPT ![i] = k]
        /\ \A t \in Allocated(off.heap) :
             /\ raised.heap[t].col = off.heap[t].col
             /\ raised.heap[t].row = IF t \in beneath THEN off.heap[t].row - 1 ELSE off.heap[t].row
    <3>1. off \in Mawim /\ i \in Workspaces /\ count \in Int /\ k \in Int
      BY <1>2, <1>5, <2>3
    <3> HIDE DEF i, oldrow, oldcol
    <3>2. RaisedFrom(raised, off, beneath, i, count, k)
      BY <2>1, <2>5, <3>1, RowClosed
    <3> QED BY <1>5, <2>4, <3>2 DEF RaisedFrom
  <2>9. RowsOK(raised)
    <3> HIDE DEF i
    <3>1. m.row_count \in [Workspaces -> Int] /\ m.active_row \in [Workspaces -> Int]
      BY DEF Mawim
    <3> QED BY <1>2, <2>3, <2>6, <3>1 DEF RowsOK
  <2>10. SameLists(raised, m)
    BY <1>5, <2>6, SameListsTransitive
  <2>11. Allocated(raised.heap) = Allocated(m.heap) /\ Whole(raised)
    BY <2>6, <2>10, SameListsSame
  <2>12. Listed(raised) \in SUBSET Allocated(raised.heap)
    BY <2>11 DEF Listed, Whole
  <2>13. /\ u \in Mawim /\ SameLists(u, raised) /\ RowsOK(u) /\ u.fault = m.fault
         /\ \A t \in Allocated(raised.heap) : /\ u.heap[t].row = raised.heap[t].row
                                              /\ u.heap[t].col = raised.heap[t].col
    BY <1>1, <1>10, <2>6, <2>9, <2>12, UpdateKeeps
  <2>14. SameLists(u, m)
    BY <2>10, <2>13, SameListsTransitive
  <2>15. ASSUME m.heap[s].row >= 0, m.heap[s].col >= 0,
                NEW t \in Allocated(m.heap) \ {s}, Slotted(m.heap, t)
         PROVE  Slotted(u.heap, t)
    <3>1. off.heap[t] = m.heap[t]
      BY <1>5
    <3>2. raised.heap[t].row >= 0 /\ raised.heap[t].col >= 0
      BY <1>2, <1>5, <2>2, <2>6, <2>15, <3>1
    <3> QED BY <2>11, <2>13, <3>2
  <2> QED BY <2>13, <2>14, <2>15
<1> QED BY <1>7, <1>8, <1>9, <1>10 DEF u
-----------------------------------------------------------------------------
\* Appending and removing.

\* The two heaps differ in links only.
SamePlaces(g, h, S) ==
  \A t \in S :
    /\ g[t] = Free <=> h[t] = Free
    /\ h[t] # Free => /\ g[t].x11_window = h[t].x11_window /\ g[t].workspace = h[t].workspace
                      /\ g[t].row = h[t].row /\ g[t].col = h[t].col
                      /\ g[t].geometry = h[t].geometry

SameWorkspaces(a, m) ==
  /\ a.focused_window = m.focused_window /\ a.active_workspace = m.active_workspace
  /\ a.row_count = m.row_count /\ a.active_row = m.active_row

\* The heap h in which n is behind s.
Linked(h, s, n) == [h EXCEPT ![s].next = n]

\* Setting the next pointer of one struct.
LEMMA NextSet ==
  ASSUME NEW h \in Heap, NEW s \in Allocated(h), NEW n \in Structs \cup {NULL}
  PROVE  LET g == Linked(h, s, n)
         IN  /\ g \in Heap /\ SamePlaces(g, h, Structs) /\ Allocated(g) = Allocated(h)
             /\ After(g, s) = n /\ \A t \in Structs \ {s} : After(g, t) = After(h, t) /\ g[t] = h[t]
<1> DEFINE g == Linked(h, s, n)
<1>1. s \in Structs /\ h[s] \in Window /\ s # NULL
  BY StructsFinite DEF Heap, Allocated
<1>2. g[s] = [h[s] EXCEPT !.next = n] /\ \A t \in Structs \ {s} : g[t] = h[t]
  BY <1>1 DEF Heap, Linked
<1>3. /\ g[s] \in Window /\ g[s].next = n /\ g[s].row = h[s].row /\ g[s].col = h[s].col
      /\ g[s].x11_window = h[s].x11_window /\ g[s].workspace = h[s].workspace
      /\ g[s].geometry = h[s].geometry
  BY <1>1, <1>2 DEF Window
<1>4. g \in Heap
  BY <1>1, <1>3 DEF Heap, Linked
<1> HIDE DEF g
<1>5. SamePlaces(g, h, Structs) /\ Allocated(g) = Allocated(h)
  BY <1>1, <1>2, <1>3, FreeAssumption DEF SamePlaces, Allocated
<1>6. After(g, s) = n /\ \A t \in Structs \ {s} : After(g, t) = After(h, t)
  BY <1>1, <1>2, <1>3, FreeAssumption DEF After
<1> QED BY <1>2, <1>4, <1>5, <1>6 DEF g

\* No circle comes from taking links away,
LEMMA CutAcyclic ==
  ASSUME NEW h \in Heap, NEW g \in Heap, Acyclic(h),
         \A t \in Structs : After(g, t) \in {NULL, After(h, t)}
  PROVE  Acyclic(g)
  BY DEF Acyclic, Descends

\* from going around a struct,
LEMMA SkipAcyclic ==
  ASSUME NEW h \in Heap, NEW g \in Heap, Acyclic(h), NEW p \in Structs, NEW c \in Structs,
         After(h, p) = c, After(g, p) \in {NULL, After(h, c)},
         \A t \in Structs \ {p} : After(g, t) \in {NULL, After(h, t)}
  PROVE  Acyclic(g)
<1>1. PICK rank \in Numberings : Descends(h, rank)
  BY DEF Acyclic
<1>2. Cardinality(Structs) \in Nat /\ c # NULL
  BY StructsFinite
<1>3. \A t \in Structs : rank[t] \in Int
  BY <1>1, <1>2 DEF Numberings
<1>4. ASSUME After(g, p) # NULL
      PROVE  rank[After(g, p)] < rank[p]
  <2>1. After(g, p) = After(h, c) /\ After(h, c) \in Structs
    BY <1>4, AfterType
  <2>2. rank[After(h, c)] < rank[c] /\ rank[c] < rank[p]
    BY <1>1, <1>2, <1>4, <2>1 DEF Descends
  <2> QED BY <1>3, <2>1, <2>2
<1>5. Descends(g, rank)
  BY <1>1, <1>4 DEF Descends
<1> QED BY <1>1, <1>5 DEF Acyclic

\* or from a link to a struct that links to none: it gets the lowest number,
\* and those below it move up.
LEMMA LinkAcyclic ==
  ASSUME NEW h \in Heap, NEW g \in Heap, Acyclic(h), NEW s \in Structs, NEW last \in Structs \ {s},
         After(g, s) = NULL, After(g, last) = s,
         \A t \in Structs \ {s, last} : After(g, t) = After(h, t)
  PROVE  Acyclic(g)
<1> DEFINE N == Cardinality(Structs)
<1>1. PICK rank \in Numberings : Descends(h, rank)
  BY DEF Acyclic
<1> DEFINE lower == [t \in Structs |-> IF t = s THEN 0
                                       ELSE IF rank[t] < rank[s] THEN rank[t] + 1 ELSE rank[t]]
<1>2. N \in Nat
  BY StructsFinite
<1>3. \A t \in Structs : rank[t] \in 0 .. N - 1
  BY <1>1 DEF Numberings
<1>4. \A t \in Structs \ {s} : rank[t] # rank[s]
  BY <1>1 DEF Numberings
<1>5. /\ lower[s] = 0
      /\ \A t \in Structs \ {s} : lower[t] = IF rank[t] < rank[s] THEN rank[t] + 1 ELSE rank[t]
  OBVIOUS
<1>6. \A t \in Structs : lower[t] \in 0 .. N - 1
  <2> HIDE DEF lower
  <2> QED BY <1>2, <1>3, <1>4, <1>5
<1>7. \A t, u \in Structs : lower[t] = lower[u] => t = u
  <2>1. \A t, u \in Structs : rank[t] = rank[u] => t = u
    BY <1>1 DEF Numberings
  <2>2. \A t \in Structs \ {s} : lower[t] > 0
    BY <1>2, <1>3, <1>4
  <2> HIDE DEF lower
  <2>3. ASSUME NEW t \in Structs \ {s}, NEW u \in Structs \ {s}, lower[t] = lower[u]
        PROVE  rank[t] = rank[u]
    BY <1>3, <1>4, <1>5, <2>3
  <2> QED BY <1>5, <1>6, <2>1, <2>2, <2>3
<1>8. lower \in Numberings
  BY <1>6, <1>7 DEF Numberings
<1>9. ASSUME NEW t \in Structs, After(g, t) # NULL
      PROVE  lower[After(g, t)] < lower[t]
  <2>1. t # s
    BY <1>9
  <2>2. CASE t = last
    BY <1>2, <1>3, <1>4, <2>1, <2>2
  <2>3. CASE t # last
    <3>1. After(g, t) = After(h, t) /\ After(h, t) \in Structs
      BY <1>9, <2>1, <2>3, AfterType
    <3>2. rank[After(h, t)] < rank[t]
      BY <1>1, <1>9, <3>1 DEF Descends
    <3>3. CASE After(h, t) = s
      BY <1>2, <1>3, <1>4, <2>1, <3>1, <3>3
    <3>4. CASE After(h, t) # s
      <4> HIDE DEF lower
      <4> DEFINE u == After(h, t)
      <4>1. u \in Structs \ {s} /\ t \in Structs \ {s} /\ rank[u] < rank[t]
        BY <2>1, <3>1, <3>2, <3>4
      <4> HIDE DEF u
      <4>2. lower[u] < lower[t]
        BY <1>2, <1>3, <1>4, <1>5, <4>1
      <4> QED BY <3>1, <4>2 DEF u
    <3> QED BY <3>3, <3>4
  <2> QED BY <2>2, <2>3
<1> HIDE DEF lower
<1>10. Descends(g, lower)
  BY <1>9 DEF Descends
<1> QED BY <1>8, <1>10 DEF Acyclic

\* What mawim_append_window does to the links: s is the only struct of its
\* list, or was already the last, or follows the last; or the last pointer is
\* stale.
OnlyStruct(a, m, i, s) ==
  /\ m.first[i] = NULL
  /\ After(a.heap, s) = NULL
  /\ \A t \in Structs \ {s} : After(a.heap, t) = After(m.heap, t)
  /\ a.first = [m.first EXCEPT ![i] = s] /\ a.last = [m.last EXCEPT ![i] = s]
  /\ a.fault = m.fault

AlreadyLast(a, m, i, s) ==
  /\ m.first[i] # NULL /\ m.last[i] = s
  /\ After(a.heap, s) = NULL
  /\ \A t \in Structs \ {s} : After(a.heap, t) = After(m.heap, t)
  /\ a.first = m.first /\ a.last = m.last
  /\ a.fault = m.fault

StaleLast(a, m, i) ==
  /\ m.first[i] # NULL /\ m.last[i] \notin Allocated(m.heap)
  /\ \A t \in Structs : After(a.heap, t) = After(m.heap, t)
  /\ a.first = m.first /\ a.last = m.last
  /\ a.fault # "none"

FollowsLast(a, m, i, s) ==
  /\ m.first[i] # NULL /\ m.last[i] \in Allocated(m.heap) \ {s}
  /\ After(a.heap, s) = NULL /\ After(a.heap, m.last[i]) = s
  /\ \A t \in Structs \ {s, m.last[i]} : After(a.heap, t) = After(m.heap, t)
  /\ a.first = m.first /\ a.last = [m.last EXCEPT ![i] = s]
  /\ a.fault = m.fault

\* What mawim_append_window does, in terms of links.
LEMMA AppendIs ==
  ASSUME NEW m \in Mawim, NEW i \in Workspaces, NEW s \in Allocated(m.heap)
  PROVE  LET a == AppendWindow(m, i, s)
         IN  /\ a \in Mawim /\ SamePlaces(a.heap, m.heap, Structs) /\ SameWorkspaces(a, m)
             /\ OnlyStruct(a, m, i, s) \/ AlreadyLast(a, m, i, s) \/ StaleLast(a, m, i)
                 \/ FollowsLast(a, m, i, s)
<1> DEFINE last == m.last[i]
           ended == [m EXCEPT !.heap[s].next = NULL]
           h == Linked(m.heap, s, NULL)
           a == AppendWindow(m, i, s)
<1>1. a = IF m.first[i] = NULL THEN [ended EXCEPT !.first[i] = s, !.last[i] = s]
          ELSE IF last = s THEN ended
          ELSE IF last \notin Structs THEN [m EXCEPT !.fault = "broken list"]
          ELSE IF m.heap[last] = Free THEN [m EXCEPT !.fault = "use after free"]
          ELSE [ended EXCEPT !.heap[last].next = s, !.last[i] = s]
  BY DEF AppendWindow
<1>2. m.heap \in Heap /\ s \in Structs /\ m.first \in [Workspaces -> Structs \cup {NULL}]
      /\ m.last \in [Workspaces -> Structs \cup {NULL, Wild}]
  BY DEF Mawim, Allocated
<1>3. /\ h \in Heap /\ SamePlaces(h, m.heap, Structs) /\ Allocated(h) = Allocated(m.heap)
      /\ After(h, s) = NULL /\ \A t \in Structs \ {s} : After(h, t) = After(m.heap, t)
  BY <1>2, NextSet
<1> HIDE DEF h
<1>4. ended = [m EXCEPT !.heap = h]
  BY DEF h, Linked
<1> HIDE DEF ended, a
<1>5. /\ ended \in Mawim /\ ended.heap = h /\ ended.first = m.first /\ ended.last = m.last
      /\ ended.fault = m.fault /\ SameWorkspaces(ended, m)
  BY <1>3, <1>4 DEF Mawim, SameWorkspaces
<1>6. CASE m.first[i] = NULL
  <2>1. a = [ended EXCEPT !.first[i] = s, !.last[i] = s]
    BY <1>1, <1>6
  <2>2. /\ a \in Mawim /\ a.heap = h /\ a.fault = m.fault /\ SameWorkspaces(a, ended)
        /\ a.first = [m.first EXCEPT ![i] = s] /\ a.last = [m.last EXCEPT ![i] = s]
    BY <1>2, <1>5, <2>1 DEF Mawim, SameWorkspaces
  <2> QED BY <1>3, <1>5, <1>6, <2>2 DEF OnlyStruct, SameWorkspaces, a
<1>7. CASE m.first[i] # NULL /\ last = s
  <2>1. a = ended
    BY <1>1, <1>7
  <2> QED BY <1>3, <1>5, <1>7, <2>1 DEF AlreadyLast, SameWorkspaces, a
<1>8. CASE m.first[i] # NULL /\ last # s /\ last \notin Allocated(m.heap)
  <2>1. \E f \in Faults \ {"none"} : a = [m EXCEPT !.fault = f]
    BY <1>1, <1>8 DEF Faults, Allocated
  <2>2. /\ a \in Mawim /\ a.heap = m.heap /\ a.fault # "none" /\ SameWorkspaces(a, m)
        /\ a.first = m.first /\ a.last = m.last
    BY <2>1 DEF Mawim, SameWorkspaces
  <2>3. SamePlaces(m.heap, m.heap, Structs)
    BY DEF SamePlaces
  <2> QED BY <1>8, <2>2, <2>3 DEF StaleLast, a
<1>9. CASE m.first[i] # NULL /\ last # s /\ last \in Allocated(m.heap)
  <2> DEFINE g == Linked(h, last, s)
  <2>1. last \in Structs /\ m.heap[last] # Free
    BY <1>9 DEF Allocated
  <2>2. a = [ended EXCEPT !.heap[last].next = s, !.last[i] = s]
    BY <1>1, <1>9, <2>1
  <2>3. /\ g \in Heap /\ SamePlaces(g, h, Structs)
        /\ After(g, last) = s /\ \A t \in Structs \ {last} : After(g, t) = After(h, t)
    BY <1>2, <1>3, <1>9, NextSet
  <2>4. a = [ended EXCEPT !.heap = g, !.last[i] = s]
    BY <1>5, <2>2 DEF Linked
  <2> HIDE DEF g
  <2>5. /\ a \in Mawim /\ a.heap = g /\ a.fault = m.fault /\ SameWorkspaces(a, ended)
        /\ a.first = m.first /\ a.last = [m.last EXCEPT ![i] = s]
    BY <1>2, <1>5, <2>3, <2>4 DEF Mawim, SameWorkspaces
  <2>6. SamePlaces(g, m.heap, Structs)
    BY <1>3, <2>3 DEF SamePlaces
  <2> QED BY <1>2, <1>3, <1>5, <1>9, <2>3, <2>5, <2>6 DEF FollowsLast, SameWorkspaces, a
<1> QED BY <1>6, <1>7, <1>8, <1>9

\* Behind a listed struct is a listed struct.
LEMMA ListedClosed ==
  ASSUME NEW m \in Mawim, Acyclic(m.heap), NEW t \in Listed(m)
  PROVE  After(m.heap, t) \in Listed(m) \cup {NULL}
<1>1. PICK i \in Workspaces : t \in OnList(m, i)
  BY DEF Listed
<1>2. m.heap \in Heap /\ m.first[i] \in Structs \cup {NULL}
  BY DEF Mawim
<1>3. After(m.heap, t) \in OnList(m, i) \cup {NULL}
  BY <1>1, <1>2, OnListIsReach, ReachClosed
<1> QED BY <1>3 DEF Listed

LEMMA FirstListed ==
  ASSUME NEW m \in Mawim, NEW i \in Workspaces, m.first[i] # NULL
  PROVE  m.first[i] \in OnList(m, i) /\ m.first[i] \in Listed(m)
<1>1. m.heap \in Heap /\ m.first[i] \in Structs
  BY DEF Mawim
<1> QED BY <1>1, OnListIsReach, ReachType DEF Listed

\* Lists whose first structs and whose links stay within allocated memory.
LEMMA WholeWithin ==
  ASSUME NEW m \in Mawim, NEW G \in SUBSET Allocated(m.heap),
         \A i \in Workspaces : m.first[i] \in G \cup {NULL},
         \A t \in G : After(m.heap, t) \in G \cup {NULL}
  PROVE  Whole(m)
<1>1. m.heap \in Heap /\ G \in SUBSET Structs /\ \A i \in Workspaces : m.first[i] \in Structs \cup {NULL}
  BY DEF Mawim, Allocated
<1>2. \A i \in Workspaces : Reach(m.heap, m.first[i]) \subseteq G
  BY <1>1, ReachWithin
<1> QED BY <1>2, OnListIsReach DEF Whole

\* mawim_append_window makes no circle: the test for the last struct sees to it.
LEMMA AppendSound ==
  ASSUME NEW m \in Mawim, NEW i \in Workspaces, NEW s \in Allocated(m.heap),
         Acyclic(m.heap), Whole(m)
  PROVE  LET a == AppendWindow(m, i, s)
         IN  Acyclic(a.heap) /\ Whole(a) /\ Allocated(a.heap) = Allocated(m.heap)
<1> DEFINE a == AppendWindow(m, i, s)
           G == Listed(m) \cup (IF StaleLast(a, m, i) THEN {} ELSE {s})
<1>1. /\ a \in Mawim /\ SamePlaces(a.heap, m.heap, Structs) /\ SameWorkspaces(a, m)
      /\ OnlyStruct(a, m, i, s) \/ AlreadyLast(a, m, i, s) \/ StaleLast(a, m, i)
          \/ FollowsLast(a, m, i, s)
  BY AppendIs
<1> HIDE DEF a
<1>2. a.heap \in Heap /\ m.heap \in Heap /\ s \in Structs /\ m.first \in [Workspaces -> Structs \cup {NULL}]
  BY <1>1 DEF Mawim, Allocated
<1>3. Allocated(a.heap) = Allocated(m.heap)
  BY <1>1 DEF SamePlaces, Allocated
<1>4. Acyclic(a.heap)
  <2>1. CASE OnlyStruct(a, m, i, s) \/ AlreadyLast(a, m, i, s) \/ StaleLast(a, m, i)
    BY <1>2, <2>1, CutAcyclic DEF OnlyStruct, AlreadyLast, StaleLast
  <2>2. CASE FollowsLast(a, m, i, s)
    <3>1. m.last[i] \in Structs \ {s}
      BY <2>2 DEF FollowsLast, Allocated
    <3> QED BY <1>2, <2>2, <3>1, LinkAcyclic DEF FollowsLast
  <2> QED BY <1>1, <2>1, <2>2
<1>5. G \in SUBSET Allocated(a.heap)
  BY <1>3 DEF Listed, Whole
<1>6. \A j \in Workspaces : m.first[j] \in Listed(m) \cup {NULL}
  BY FirstListed
<1>7. \A j \in Workspaces : a.first[j] \in G \cup {NULL}
  <2> HIDE DEF G
  <2>1. \A j \in Workspaces :
          a.first[j] = m.first[j] \/ (a.first[j] = s /\ ~ StaleLast(a, m, i))
    <3>1. CASE OnlyStruct(a, m, i, s)
      <4>1. ~ StaleLast(a, m, i)
        BY <3>1 DEF OnlyStruct, StaleLast
      <4> QED BY <4>1, <3>1, <1>2 DEF OnlyStruct
    <3>2. CASE ~ OnlyStruct(a, m, i, s)
      <4>1. AlreadyLast(a, m, i, s) \/ StaleLast(a, m, i) \/ FollowsLast(a, m, i, s)
        BY <1>1, <3>2
      <4>2. a.first = m.first
        BY <4>1 DEF AlreadyLast, StaleLast, FollowsLast
      <4> QED BY <4>2
    <3> QED BY <3>1, <3>2
  <2>2. Listed(m) \subseteq G /\ (~ StaleLast(a, m, i) => s \in G)
    BY DEF G
  <2> QED BY <1>6, <2>1, <2>2
<1>8. \A t \in G : After(a.heap, t) \in G \cup {NULL}
  <2>1. \A t \in Listed(m) : After(m.heap, t) \in Listed(m) \cup {NULL}
    BY ListedClosed
  <2>2. G \subseteq Structs
    BY <1>2, ListedType
  <2>3. \A t \in Structs : After(a.heap, t) \in {NULL, s, After(m.heap, t)}
    BY <1>1 DEF OnlyStruct, AlreadyLast, StaleLast, FollowsLast
  <2>4. CASE StaleLast(a, m, i)
    <3>1. G = Listed(m)
      BY <2>4
    <3> HIDE DEF G
    <3> QED BY <2>1, <2>2, <2>4, <3>1 DEF StaleLast
  <2>5. CASE ~ StaleLast(a, m, i)
    <3>1. After(a.heap, s) = NULL
      BY <1>1, <2>5 DEF OnlyStruct, AlreadyLast, FollowsLast
    <3>2. G = Listed(m) \cup {s}
      BY <2>5
    <3> HIDE DEF G
    <3> QED BY <2>1, <2>2, <2>3, <3>1, <3>2
  <2> QED BY <2>4, <2>5
<1>9. Whole(a)
  <2> HIDE DEF G
  <2> QED BY <1>1, <1>5, <1>7, <1>8, WholeWithin
<1> QED BY <1>3, <1>4, <1>9 DEF a

\* No struct is behind itself.
LEMMA NoSelfLink ==
  ASSUME NEW h \in Heap, Acyclic(h), NEW s \in Structs
  PROVE  After(h, s) # s
<1>1. PICK rank \in Numberings : Descends(h, rank)
  BY DEF Acyclic
<1>2. rank[s] \in Int
  BY <1>1, StructsFinite DEF Numberings
<1> QED BY <1>1, <1>2, StructsFinite DEF Descends

\* The struct before c on a list is linked to c, and is found if there is one.
LEMMA PreviousIs ==
  ASSUME NEW m, NEW i, NEW c
  PROVE  LET p == Previous(m, i, c)
         IN  /\ p = NULL \/ (p \in OnList(m, i) /\ m.heap[p].next = c /\ c # m.first[i])
             /\ c # m.first[i] => \A t \in OnList(m, i) : m.heap[t].next = c => p # NULL
<1> DEFINE before == {t \in OnList(m, i) : m.heap[t].next = c}
           p == Previous(m, i, c)
<1>1. p = IF c = m.first[i] \/ before = {} THEN NULL ELSE CHOOSE t \in before : TRUE
  BY DEF Previous
<1>2. NULL \notin OnList(m, i)
  BY DEF OnList
<1>3. CASE c = m.first[i] \/ before = {}
  BY <1>1, <1>3
<1>4. CASE ~ (c = m.first[i] \/ before = {})
  <2>1. p \in before
    <3> HIDE DEF before
    <3> QED BY <1>1, <1>4
  <2> QED BY <2>1, <1>2, <1>4
<1> QED BY <1>3, <1>4

\* What mawim_remove_window does to the links: c goes, p is before it.
Removed(r, m, i, c, p, freed) ==
  /\ c \in OnList(m, i) /\ c \in Allocated(m.heap)
  /\ p = NULL \/ (p \in OnList(m, i) /\ p # c /\ After(m.heap, p) = c /\ c # m.first[i])
  /\ c # m.first[i] => \A t \in OnList(m, i) : After(m.heap, t) = c => p # NULL
  /\ \A t \in Structs \ {c} :
       After(r.heap, t) = IF t = p THEN After(m.heap, c) ELSE After(m.heap, t)
  /\ After(r.heap, c) = IF freed THEN NULL ELSE After(m.heap, c)
  /\ Allocated(r.heap) = IF freed THEN Allocated(m.heap) \ {c} ELSE Allocated(m.heap)
  /\ r.first = [m.first EXCEPT ![i] = IF @ = c THEN After(m.heap, c) ELSE @]
  /\ r.last = [m.last EXCEPT ![i] = IF @ = c THEN p ELSE @]

\* The struct that mawim_remove_window takes off list i for window w.
IsTarget(m, i, w, c) ==
  IF FindWindow(m, i, w) # NULL THEN c = FindWindow(m, i, w) ELSE After(m.heap, c) = NULL

\* What mawim_remove_window does, in terms of links: one struct is skipped.
LEMMA RemoveIs ==
  ASSUME NEW m \in Mawim, Acyclic(m.heap), Whole(m), NEW i \in Workspaces, NEW w,
         NEW freed \in BOOLEAN
  PROVE  LET r == RemoveWindow(m, i, w, freed)
         IN  /\ r \in Mawim /\ SameWorkspaces(r, m) /\ r.fault = m.fault
             /\ SamePlaces(r.heap, m.heap, Allocated(r.heap))
             /\ IF m.first[i] = NULL THEN r = m
                ELSE \E c, p \in Structs \cup {NULL} :
                       IsTarget(m, i, w, c) /\ Removed(r, m, i, c, p, freed)
<1> DEFINE found == FindWindow(m, i, w)
           c == IF found # NULL THEN found ELSE CHOOSE s \in OnList(m, i) : m.heap[s].next = NULL
           p == Previous(m, i, c)
           next == m.heap[c].next
           linked == IF p = NULL THEN m.heap ELSE [m.heap EXCEPT ![p].next = next]
           r == RemoveWindow(m, i, w, freed)
<1>1. r = IF m.first[i] = NULL THEN m
          ELSE [m EXCEPT !.heap = IF freed THEN [linked EXCEPT ![c] = Free] ELSE linked,
                         !.last[i] = IF @ = c THEN p ELSE @,
                         !.first[i] = IF @ = c THEN next ELSE @]
  BY DEF RemoveWindow
<1> HIDE DEF r, linked, p, c
<1>2. CASE m.first[i] = NULL
  <2>1. r = m
    BY <1>1, <1>2
  <2> QED BY <1>2, <2>1 DEF SameWorkspaces, SamePlaces, r
<1>3. CASE m.first[i] # NULL
  <2>1. /\ m.heap \in Heap /\ m.first[i] \in Structs /\ OnList(m, i) \subseteq Structs
        /\ OnList(m, i) \subseteq Allocated(m.heap)
        /\ m.first \in [Workspaces -> Structs \cup {NULL}]
        /\ m.last \in [Workspaces -> Structs \cup {NULL, Wild}]
    BY <1>3, OnListType DEF Mawim, Whole
  <2>2. \A t \in OnList(m, i) : After(m.heap, t) = m.heap[t].next
    BY <2>1, StructsFinite DEF After, Allocated
  <2>3. c \in OnList(m, i) /\ (IF found # NULL THEN c = found ELSE m.heap[c].next = NULL)
    <3>1. CASE found # NULL
      <4>1. NULL \notin Showing(m, i, w)
        BY <2>1, ShowingType, StructsFinite
      <4> QED BY <3>1, <4>1, FindWindowFinds, ShowingType DEF c
    <3>2. CASE found = NULL
      <4>1. \E s \in OnList(m, i) : m.heap[s].next = NULL
        BY <2>1, <2>2, ReachEnd, OnListIsReach
      <4> QED BY <3>2, <4>1 DEF c
    <3> QED BY <3>1, <3>2
  <2>4. After(m.heap, c) = next /\ next \in Structs \cup {NULL} /\ c \in Structs /\ c \in Allocated(m.heap)
        /\ After(m.heap, c) # c
    BY <2>1, <2>2, <2>3, AfterType, NoSelfLink
  <2> HIDE DEF next
  <2>5. /\ p = NULL \/ (p \in OnList(m, i) /\ After(m.heap, p) = c /\ c # m.first[i])
        /\ c # m.first[i] => \A t \in OnList(m, i) : After(m.heap, t) = c => p # NULL
    BY <2>2, PreviousIs DEF p
  <2>6. p # c /\ p \in Structs \cup {NULL}
    BY <2>1, <2>4, <2>5, StructsFinite
  <2>7. /\ linked \in Heap /\ SamePlaces(linked, m.heap, Structs) /\ Allocated(linked) = Allocated(m.heap)
        /\ \A t \in Structs : After(linked, t) = IF t = p THEN next ELSE After(m.heap, t)
    <3>1. CASE p = NULL
      BY <2>1, <3>1, StructsFinite DEF linked, SamePlaces
    <3>2. CASE p # NULL
      <4>1. linked = Linked(m.heap, p, next)
        BY <3>2 DEF linked, Linked
      <4>2. p \in Allocated(m.heap)
        BY <2>1, <2>5, <3>2
      <4>3. m.heap \in Heap /\ next \in Structs \cup {NULL} /\ p \in Structs
        BY <2>1, <2>4, <2>6, <3>2
      <4>4. /\ linked \in Heap /\ SamePlaces(linked, m.heap, Structs)
            /\ Allocated(linked) = Allocated(m.heap) /\ After(linked, p) = next
            /\ \A t \in Structs \ {p} : After(linked, t) = After(m.heap, t)
        BY <4>1, <4>2, <4>3, NextSet
      <4> QED BY <4>3, <4>4
    <3> QED BY <3>1, <3>2
  <2> DEFINE h == IF freed THEN [linked EXCEPT ![c] = Free] ELSE linked
  <2>8. /\ h \in Heap
        /\ \A t \in Structs \ {c} : h[t] = linked[t]
        /\ IF freed THEN h[c] = Free ELSE h[c] = linked[c]
    BY <2>4, <2>7 DEF Heap
  <2> HIDE DEF h
  <2>9. r = [m EXCEPT !.heap = h, !.last[i] = IF @ = c THEN p ELSE @,
                      !.first[i] = IF @ = c THEN next ELSE @]
    BY <1>1, <1>3 DEF h
  <2>10. /\ r \in Mawim /\ r.heap = h /\ SameWorkspaces(r, m) /\ r.fault = m.fault
         /\ r.first = [m.first EXCEPT ![i] = IF @ = c THEN next ELSE @]
         /\ r.last = [m.last EXCEPT ![i] = IF @ = c THEN p ELSE @]
    BY <2>1, <2>4, <2>6, <2>8, <2>9 DEF Mawim, SameWorkspaces
  <2>11. /\ SamePlaces(h, m.heap, Allocated(h))
         /\ Allocated(h) = IF freed THEN Allocated(m.heap) \ {c} ELSE Allocated(m.heap)
    BY <2>4, <2>7, <2>8 DEF SamePlaces, Allocated
  <2>12. /\ \A t \in Structs \ {c} : After(h, t) = IF t = p THEN next ELSE After(m.heap, t)
         /\ After(h, c) = IF freed THEN NULL ELSE After(m.heap, c)
    <3>1. \A t \in Structs \ {c} : After(h, t) = After(linked, t)
      BY <2>8 DEF After
    <3>2. After(h, c) = IF freed THEN NULL ELSE After(linked, c)
      BY <2>8 DEF After
    <3> QED BY <2>4, <2>6, <2>7, <3>1, <3>2
  <2>13. IsTarget(m, i, w, c)
    BY <2>2, <2>3 DEF IsTarget
  <2>14. Removed(r, m, i, c, p, freed)
    BY <2>3, <2>4, <2>5, <2>6, <2>10, <2>11, <2>12 DEF Removed
  <2> QED BY <1>3, <2>4, <2>6, <2>10, <2>11, <2>13, <2>14 DEF r
<1> QED BY <1>2, <1>3

\* mawim_remove_window makes no circle.
LEMMA RemoveSound ==
  ASSUME NEW m \in Mawim, Acyclic(m.heap), Whole(m), NEW i \in Workspaces, NEW w,
         NEW freed \in BOOLEAN
  PROVE  LET r == RemoveWindow(m, i, w, freed)
         IN  /\ Acyclic(r.heap)
             /\ ~ freed => Whole(r) /\ Allocated(r.heap) = Allocated(m.heap)
<1> DEFINE r == RemoveWindow(m, i, w, freed)
<1>1. /\ r \in Mawim
      /\ IF m.first[i] = NULL THEN r = m
         ELSE \E c, p \in Structs \cup {NULL} : Removed(r, m, i, c, p, freed)
  BY RemoveIs
<1> HIDE DEF r
<1>2. CASE r = m
  BY <1>2 DEF r
<1>3. CASE r # m
  <2>1. PICK c, p \in Structs \cup {NULL} : Removed(r, m, i, c, p, freed)
    BY <1>1, <1>3
  <2>2. /\ m.heap \in Heap /\ r.heap \in Heap /\ c \in Structs
        /\ m.first \in [Workspaces -> Structs \cup {NULL}]
    BY <1>1, <2>1 DEF Mawim, Removed, Allocated
  <2>3. Acyclic(r.heap)
    <3>1. CASE p = NULL
      <4>1. \A t \in Structs : After(r.heap, t) \in {NULL, After(m.heap, t)}
        BY <2>1, <2>2, <3>1, StructsFinite DEF Removed
      <4> QED BY <2>2, <4>1, CutAcyclic
    <3>2. CASE p # NULL
      <4>1. /\ p \in Structs /\ After(m.heap, p) = c /\ After(r.heap, p) = After(m.heap, c)
            /\ \A t \in Structs \ {p} : After(r.heap, t) \in {NULL, After(m.heap, t)}
        BY <2>1, <2>2, <3>2 DEF Removed
      <4> QED BY <2>2, <4>1, SkipAcyclic
    <3> QED BY <3>1, <3>2
  <2>4. ASSUME ~ freed
        PROVE  Whole(r) /\ Allocated(r.heap) = Allocated(m.heap)
    <3>1. Allocated(r.heap) = Allocated(m.heap)
      BY <2>1, <2>4 DEF Removed
    <3>2. Listed(m) \in SUBSET Allocated(r.heap)
      BY <3>1 DEF Listed, Whole
    <3>3. \A t \in Listed(m) : After(m.heap, t) \in Listed(m) \cup {NULL}
      BY ListedClosed
    <3>4. c \in Listed(m) /\ Listed(m) \subseteq Structs
      BY <2>1, ListedType DEF Removed, Listed
    <3>5. \A t \in Structs : After(r.heap, t) \in {After(m.heap, t), After(m.heap, c)}
      BY <2>1, <2>4 DEF Removed
    <3>6. \A t \in Listed(m) : After(r.heap, t) \in Listed(m) \cup {NULL}
      BY <3>3, <3>4, <3>5
    <3>7. \A j \in Workspaces : r.first[j] \in {m.first[j], After(m.heap, c)}
      BY <2>1, <2>2 DEF Removed
    <3>8. \A j \in Workspaces : r.first[j] \in Listed(m) \cup {NULL}
      BY <3>3, <3>4, <3>7, FirstListed
    <3> QED BY <1>1, <3>1, <3>2, <3>6, <3>8, WholeWithin
  <2> QED BY <2>3, <2>4 DEF r
<1> QED BY <1>2, <1>3

\* A new struct for window w at s.
Created(m, s, w, i) ==
  [m EXCEPT !.heap[s] = [next |-> NULL, x11_window |-> w, workspace |-> i,
                         row |-> -1, col |-> -1, geometry |-> NoTile]]

\* A new struct is on no list.
LEMMA CreatedIs ==
  ASSUME NEW m \in Mawim, NEW s \in Structs, m.heap[s] = Free, NEW w \in Windows, NEW i \in Workspaces
  PROVE  LET a == Created(m, s, w, i)
         IN  /\ a \in Mawim /\ SameWorkspaces(a, m) /\ a.fault = m.fault
             /\ a.first = m.first /\ a.last = m.last
             /\ SamePlaces(a.heap, m.heap, Structs \ {s})
             /\ Allocated(a.heap) = Allocated(m.heap) \cup {s} /\ s \in Allocated(a.heap)
             /\ a.heap[s].x11_window = w /\ a.heap[s].workspace = i
             /\ \A t \in Structs : After(a.heap, t) = After(m.heap, t)
             /\ \A j \in Workspaces : OnList(a, j) = OnList(m, j)
             /\ Acyclic(m.heap) => Acyclic(a.heap)
             /\ Whole(m) => Whole(a)
<1> DEFINE c == [next |-> NULL, x11_window |-> w, workspace |-> i,
                 row |-> -1, col |-> -1, geometry |-> NoTile]
           h == [m.heap EXCEPT ![s] = c]
           a == Created(m, s, w, i)
<1>0. a = [m EXCEPT !.heap = h]
  BY DEF Created
<1> HIDE DEF a
<1>1. c \in Window /\ c.next = NULL /\ c.x11_window = w /\ c.workspace = i /\ c # Free
  BY FreeAssumption DEF Window, NoTile
<1> HIDE DEF c
<1>2. m.heap \in Heap /\ m.first \in [Workspaces -> Structs \cup {NULL}]
  BY DEF Mawim
<1>3. h \in Heap /\ h[s] = c /\ \A t \in Structs \ {s} : h[t] = m.heap[t]
  BY <1>1, <1>2 DEF Heap
<1> HIDE DEF h
<1>4. \A t \in Structs : After(h, t) = After(m.heap, t)
  BY <1>1, <1>3 DEF After
<1>5. Allocated(h) = Allocated(m.heap) \cup {s} /\ SamePlaces(h, m.heap, Structs \ {s})
  BY <1>1, <1>3 DEF Allocated, SamePlaces
<1>6. /\ a \in Mawim /\ a.heap = h /\ SameWorkspaces(a, m) /\ a.fault = m.fault
      /\ a.first = m.first /\ a.last = m.last
  BY <1>0, <1>3 DEF Mawim, SameWorkspaces
<1>7. \A j \in Workspaces : OnList(a, j) = OnList(m, j)
  <2>1. \A j \in Workspaces : Reach(h, m.first[j]) = Reach(m.heap, m.first[j])
    BY <1>2, <1>3, <1>4, WalkSame
  <2> QED BY <2>1, <1>6, OnListIsReach
<1>8. Acyclic(m.heap) => Acyclic(h)
  BY <1>2, <1>3, <1>4, CutAcyclic
<1>9. Whole(m) => Whole(a)
  BY <1>5, <1>6, <1>7 DEF Whole
<1> QED BY <1>1, <1>3, <1>4, <1>5, <1>6, <1>7, <1>8, <1>9 DEF a, h, c

\* s names workspace n.
Renamed(m, s, n) == [m EXCEPT !.heap[s].workspace = n]

\* Naming another workspace in a struct changes no link.
LEMMA RenamedIs ==
  ASSUME NEW m \in Mawim, NEW s \in Allocated(m.heap), NEW n \in Workspaces
  PROVE  LET a == Renamed(m, s, n)
         IN  /\ a \in Mawim /\ SameWorkspaces(a, m) /\ a.fault = m.fault
             /\ a.first = m.first /\ a.last = m.last
             /\ SamePlaces(a.heap, m.heap, Structs \ {s})
             /\ Allocated(a.heap) = Allocated(m.heap)
             /\ a.heap[s].x11_window = m.heap[s].x11_window /\ a.heap[s].workspace = n
             /\ \A t \in Structs : After(a.heap, t) = After(m.heap, t)
             /\ \A j \in Workspaces : OnList(a, j) = OnList(m, j)
             /\ Acyclic(m.heap) => Acyclic(a.heap)
             /\ Whole(m) => Whole(a)
<1> DEFINE h == [m.heap EXCEPT ![s].workspace = n]
           a == Renamed(m, s, n)
<1>1. s \in Structs /\ m.heap[s] \in Window /\ m.heap[s] # Free
  BY DEF Mawim, Heap, Allocated
<1>2. m.heap \in Heap /\ m.first \in [Workspaces -> Structs \cup {NULL}]
  BY DEF Mawim
<1>3. h[s] = [m.heap[s] EXCEPT !.workspace = n] /\ \A t \in Structs \ {s} : h[t] = m.heap[t]
  BY <1>1, <1>2 DEF Heap
<1>4. /\ h[s] \in Window /\ h[s].next = m.heap[s].next /\ h[s].workspace = n
      /\ h[s].x11_window = m.heap[s].x11_window
  BY <1>1, <1>3 DEF Window
<1>5. h \in Heap
  BY <1>2, <1>4 DEF Heap
<1>6. h[s] # Free
  BY <1>4, FreeAssumption
<1>7. a = [m EXCEPT !.heap = h]
  BY DEF Renamed
<1> HIDE DEF h, a
<1>8. \A t \in Structs : After(h, t) = After(m.heap, t)
  BY <1>1, <1>3, <1>4, <1>6 DEF After
<1>9. Allocated(h) = Allocated(m.heap) /\ SamePlaces(h, m.heap, Structs \ {s})
  BY <1>1, <1>3, <1>6 DEF Allocated, SamePlaces
<1>10. /\ a \in Mawim /\ a.heap = h /\ SameWorkspaces(a, m) /\ a.fault = m.fault
       /\ a.first = m.first /\ a.last = m.last
  BY <1>5, <1>7 DEF Mawim, SameWorkspaces
<1>11. \A j \in Workspaces : OnList(a, j) = OnList(m, j)
  <2>1. \A j \in Workspaces : Reach(h, m.first[j]) = Reach(m.heap, m.first[j])
    BY <1>2, <1>5, <1>8, WalkSame
  <2> QED BY <2>1, <1>10, OnListIsReach
<1>12. Acyclic(m.heap) => Acyclic(h)
  BY <1>2, <1>5, <1>8, CutAcyclic
<1>13. Whole(m) => Whole(a)
  BY <1>9, <1>10, <1>11 DEF Whole
<1> QED BY <1>4, <1>8, <1>9, <1>10, <1>11, <1>12, <1>13 DEF a
-----------------------------------------------------------------------------
\* What holds however the commands confuse the lists.

\* Records that a handler may hand on.
Sound(m) == m \in Mawim /\ RowsOK(m) /\ Acyclic(m.heap)

ListInv ==
  /\ TypeOK
  /\ RowsOK(mawim)
  /\ Acyclic(mawim.heap)
  /\ mawim.fault = "none" => Whole(mawim)

\* The type invariant, with the type of mawim as a set.
LEMMA MawimType == TypeOK <=> /\ mawim \in Mawim
                              /\ xwin \in [Windows -> {"none", "unmapped", "mapped"}]
                              /\ events \in Seq([type : EventTypes, window : Windows \cup {NULL}])
                              /\ loop \in {"x11", "mawimctl"}
  BY DEF TypeOK, Mawim, Heap

\* A layout step keeps the invariant of mawim.
LEMMA SameListsSound ==
  ASSUME NEW a, NEW m \in Mawim, a \in Mawim, RowsOK(a), SameLists(a, m), Acyclic(m.heap)
  PROVE  Sound(a)
  BY SameListsSame DEF Sound

LEMMA FaultSound ==
  ASSUME NEW m, Sound(m), NEW f \in Faults
  PROVE  Sound([m EXCEPT !.fault = f])
  BY DEF Sound, Mawim, RowsOK

LEMMA CreatedSound ==
  ASSUME NEW m \in Mawim, Sound(m), NEW s \in Structs, m.heap[s] = Free,
         NEW w \in Windows, NEW i \in Workspaces
  PROVE  LET a == Created(m, s, w, i)
         IN  Sound(a) /\ (Whole(m) => Whole(a)) /\ s \in Allocated(a.heap)
<1> DEFINE a == Created(m, s, w, i)
<1>1. a \in Mawim /\ SameWorkspaces(a, m) /\ (Acyclic(m.heap) => Acyclic(a.heap))
  BY CreatedIs
<1>2. Whole(m) => Whole(a)
  BY CreatedIs
<1>3. s \in Allocated(a.heap)
  BY CreatedIs
<1> HIDE DEF a
<1>4. RowsOK(a)
  BY <1>1 DEF Sound, RowsOK, SameWorkspaces
<1> QED BY <1>1, <1>2, <1>3, <1>4 DEF Sound, a

\* What each handler hands to Finish.

LEMMA ConfigureKnownSound ==
  ASSUME NEW m, Sound(m), Whole(m), NEW i \in Workspaces, NEW w \in Windows, Showing(m, i, w) # {}
  PROVE  Sound(ManageWindow(m, FindWindow(m, i, w)))
<1> DEFINE s == FindWindow(m, i, w)
<1>1. s \in Allocated(m.heap)
  <2>1. NULL \notin Showing(m, i, w) /\ Showing(m, i, w) \subseteq OnList(m, i)
    BY ShowingType DEF OnList
  <2>2. s \in Showing(m, i, w)
    BY <2>1, FindWindowFinds
  <2> QED BY <2>1, <2>2 DEF Whole
<1> HIDE DEF s
<1>2. ManageWindow(m, s) \in Mawim /\ SameLists(ManageWindow(m, s), m) /\ RowsOK(ManageWindow(m, s))
  BY <1>1, ManageKeeps DEF Sound
<1> QED BY <1>2, SameListsSound DEF Sound, s

LEMMA AppendStaysSound ==
  ASSUME NEW m, Sound(m), Whole(m), NEW i \in Workspaces, NEW s \in Allocated(m.heap)
  PROVE  LET a == AppendWindow(m, i, s)
         IN  Sound(a) /\ Whole(a) /\ Allocated(a.heap) = Allocated(m.heap)
<1> DEFINE a == AppendWindow(m, i, s)
<1>1. m \in Mawim /\ RowsOK(m) /\ Acyclic(m.heap)
  BY DEF Sound
<1>2. a \in Mawim /\ SameWorkspaces(a, m) /\ SamePlaces(a.heap, m.heap, Structs)
  BY <1>1, AppendIs
<1>3. Acyclic(a.heap) /\ Whole(a) /\ Allocated(a.heap) = Allocated(m.heap)
  BY <1>1, AppendSound
<1> HIDE DEF a
<1>4. RowsOK(a)
  BY <1>1, <1>2 DEF RowsOK, SameWorkspaces
<1> QED BY <1>2, <1>3, <1>4 DEF Sound, a

LEMMA RemoveStaysSound ==
  ASSUME NEW m, Sound(m), Whole(m), NEW i \in Workspaces, NEW w, NEW freed \in BOOLEAN
  PROVE  LET r == RemoveWindow(m, i, w, freed)
         IN  Sound(r) /\ (~ freed => Whole(r) /\ Allocated(r.heap) = Allocated(m.heap))
<1> DEFINE r == RemoveWindow(m, i, w, freed)
<1>1. m \in Mawim /\ RowsOK(m) /\ Acyclic(m.heap)
  BY DEF Sound
<1>2. r \in Mawim /\ SameWorkspaces(r, m)
  BY <1>1, RemoveIs
<1>3. Acyclic(r.heap) /\ (~ freed => Whole(r) /\ Allocated(r.heap) = Allocated(m.heap))
  BY <1>1, RemoveSound
<1> HIDE DEF r
<1>4. RowsOK(r)
  BY <1>1, <1>2 DEF RowsOK, SameWorkspaces
<1> QED BY <1>2, <1>3, <1>4 DEF Sound, r

LEMMA ManageStaysSound ==
  ASSUME NEW m, Sound(m), Whole(m), NEW s \in Allocated(m.heap)
  PROVE  LET u == ManageWindow(m, s)
         IN  Sound(u) /\ Whole(u) /\ Allocated(u.heap) = Allocated(m.heap)
<1> DEFINE u == ManageWindow(m, s)
<1>1. m \in Mawim /\ RowsOK(m) /\ Acyclic(m.heap)
  BY DEF Sound
<1>2. u \in Mawim /\ SameLists(u, m) /\ RowsOK(u)
  BY <1>1, ManageKeeps
<1> HIDE DEF u
<1> QED BY <1>1, <1>2, SameListsSame DEF Sound, u

LEMMA UnmanageStaysSound ==
  ASSUME NEW m, Sound(m), Whole(m), NEW s \in Allocated(m.heap)
  PROVE  LET u == UnmanageWindow(m, s)
         IN  Sound(u) /\ Whole(u) /\ Allocated(u.heap) = Allocated(m.heap)
<1> DEFINE u == UnmanageWindow(m, s)
<1>1. m \in Mawim /\ RowsOK(m) /\ Acyclic(m.heap)
  BY DEF Sound
<1>2. u \in Mawim /\ SameLists(u, m) /\ RowsOK(u)
  BY <1>1, UnmanageKeeps
<1> HIDE DEF u
<1> QED BY <1>1, <1>2, SameListsSame DEF Sound, u

LEMMA UpdateAllStaysSound ==
  ASSUME NEW m, Sound(m), Whole(m)
  PROVE  Sound(UpdateAllWindows(m)) /\ SameLists(UpdateAllWindows(m), m)
<1>1. m \in Mawim /\ RowsOK(m) /\ Acyclic(m.heap)
  BY DEF Sound
<1>2. Listed(m) \in SUBSET Allocated(m.heap)
  BY DEF Whole, Listed
<1> DEFINE u == UpdateAllWindows(m)
<1>3. u \in Mawim /\ SameLists(u, m) /\ RowsOK(u)
  BY <1>1, <1>2, UpdateKeeps DEF UpdateAllWindows
<1> HIDE DEF u
<1> QED BY <1>1, <1>3, SameListsSame DEF Sound, u

LEMMA RenamedStaysSound ==
  ASSUME NEW m, Sound(m), Whole(m), NEW s \in Allocated(m.heap), NEW n \in Workspaces
  PROVE  LET a == Renamed(m, s, n)
         IN  Sound(a) /\ Whole(a) /\ Allocated(a.heap) = Allocated(m.heap)
<1> DEFINE a == Renamed(m, s, n)
<1>1. m \in Mawim /\ RowsOK(m) /\ Acyclic(m.heap)
  BY DEF Sound
<1>2. a \in Mawim /\ SameWorkspaces(a, m) /\ Acyclic(a.heap) /\ Whole(a) /\ Allocated(a.heap) = Allocated(m.heap)
  BY <1>1, RenamedIs
<1> HIDE DEF a
<1>3. RowsOK(a)
  BY <1>1, <1>2 DEF RowsOK, SameWorkspaces
<1> QED BY <1>2, <1>3 DEF Sound, a

\* The record that handle_move_focused_to_workspace hands on.
Moved(m, s, n) ==
  LET i == m.active_workspace
      removed == RemoveWindow(UnmanageWindow(m, s), i, m.heap[s].x11_window, FALSE)
  IN  AppendWindow(Renamed(removed, s, n), n, s)

\* handle_move_focused_to_workspace keeps it, whatever the focus is.
LEMMA MoveSound ==
  ASSUME NEW m, Sound(m), Whole(m), NEW s \in Allocated(m.heap), NEW n \in Workspaces,
         m.active_workspace \in Workspaces
  PROVE  Sound(UpdateAllWindows(ManageWindow(Moved(m, s, n), s)))
<1> DEFINE i == m.active_workspace
           u == UnmanageWindow(m, s)
           r == RemoveWindow(u, i, m.heap[s].x11_window, FALSE)
           a == Renamed(r, s, n)
           v == AppendWindow(a, n, s)
           z == ManageWindow(v, s)
<1>1. Sound(u) /\ Whole(u) /\ s \in Allocated(u.heap)
  BY UnmanageStaysSound
<1> HIDE DEF u
<1>2. Sound(r) /\ Whole(r) /\ s \in Allocated(r.heap)
  BY <1>1, RemoveStaysSound
<1> HIDE DEF r
<1>3. Sound(a) /\ Whole(a) /\ s \in Allocated(a.heap)
  BY <1>2, RenamedStaysSound
<1> HIDE DEF a
<1>4. Sound(v) /\ Whole(v) /\ s \in Allocated(v.heap)
  BY <1>3, AppendStaysSound
<1>5. v = Moved(m, s, n)
  BY DEF Moved, a, r, u
<1> HIDE DEF v
<1>6. Sound(z) /\ Whole(z)
  BY <1>4, ManageStaysSound
<1> HIDE DEF z
<1>7. Sound(UpdateAllWindows(z))
  BY <1>6, UpdateAllStaysSound
<1> QED BY <1>5, <1>7 DEF z

\* The end of a handler keeps the invariant.
LEMMA FinishKeeps ==
  ASSUME ListInv, NEW m, Sound(m), Finish(m), events' \in Seq([type : EventTypes, window : Windows \cup {NULL}]),
         loop' \in {"x11", "mawimctl"}
  PROVE  ListInv'
<1>1. mawim' = [m EXCEPT !.updated = {},
                         !.fault = IF m.fault = "none" /\ Broken(m) THEN "broken list" ELSE m.fault]
  BY DEF Finish
<1>2. /\ mawim' \in Mawim /\ mawim'.heap = m.heap /\ mawim'.first = m.first
      /\ mawim'.row_count = m.row_count /\ mawim'.active_row = m.active_row
      /\ mawim'.fault = IF m.fault = "none" /\ Broken(m) THEN "broken list" ELSE m.fault
  BY <1>1 DEF Sound, Mawim, Faults
<1>3. RowsOK(mawim') /\ Acyclic(mawim'.heap)
  BY <1>2 DEF Sound, RowsOK
<1>4. xwin' \in [Windows -> {"none", "unmapped", "mapped"}]
  <2>1. xwin \in [Windows -> {"none", "unmapped", "mapped"}]
    BY MawimType DEF ListInv
  <2> QED BY <2>1 DEF Finish
<1>5. ASSUME mawim'.fault = "none"
      PROVE  Whole(mawim')
  <2>1. ~ Broken(m)
    BY <1>2, <1>5
  <2>2. \A i \in Workspaces : OnList(mawim', i) = OnList(m, i)
    BY <1>2, OnListIsReach
  <2>3. \A i \in Workspaces : OnList(m, i) \subseteq Structs
    BY OnListType DEF Sound
  <2> QED BY <1>2, <2>1, <2>2, <2>3 DEF Broken, Whole, Allocated
<1>6. TypeOK'
  BY <1>2, <1>4 DEF TypeOK, Mawim, Heap
<1> QED BY <1>3, <1>5, <1>6 DEF ListInv

LEMMA DeliverType ==
  ASSUME ListInv, Deliver
  PROVE  /\ events' \in Seq([type : EventTypes, window : Windows \cup {NULL}])
         /\ loop' \in {"x11", "mawimctl"}
         /\ Sound(mawim) /\ Whole(mawim)
<1>1. events \in Seq([type : EventTypes, window : Windows \cup {NULL}]) /\ events # <<>>
      /\ mawim.fault = "none" /\ loop \in {"x11", "mawimctl"}
  BY MawimType DEF ListInv, Deliver
<1>2. events' \in Seq([type : EventTypes, window : Windows \cup {NULL}])
  BY <1>1 DEF Deliver
<1>3. Sound(mawim) /\ Whole(mawim)
  BY <1>1, MawimType DEF ListInv, Sound
<1> QED BY <1>1, <1>2, <1>3 DEF Deliver

LEMMA FailKeeps ==
  ASSUME ListInv, NEW f \in Faults, Fail(f),
         events' \in Seq([type : EventTypes, window : Windows \cup {NULL}]),
         loop' \in {"x11", "mawimctl"}
  PROVE  ListInv'
<1>1. Sound(mawim)
  BY MawimType DEF ListInv, Sound
<1> QED BY <1>1, FaultSound, FinishKeeps DEF Fail

\* Every handler of an X event keeps the invariant.
LEMMA EventKeeps ==
  ASSUME ListInv, HandleEvent
  PROVE  ListInv'
<1>1. Deliver
  BY DEF HandleEvent, HandleConfigureKnown, HandleConfigureNew, HandleDestroyNotify,
         HandleMapRequest, HandleLeaveNotify, Handle
<1>2. /\ events' \in Seq([type : EventTypes, window : Windows \cup {NULL}])
      /\ loop' \in {"x11", "mawimctl"}
      /\ Sound(mawim) /\ Whole(mawim) /\ mawim \in Mawim
      /\ xwin \in [Windows -> {"none", "unmapped", "mapped"}]
  BY <1>1, DeliverType, MawimType DEF ListInv
<1>3. ASSUME UNCHANGED mawim, xwin' \in [Windows -> {"none", "unmapped", "mapped"}]
      PROVE  ListInv'
  <2>1. TypeOK'
    BY <1>2, <1>3 DEF TypeOK, ListInv
  <2>2. RowsOK(mawim') /\ Acyclic(mawim'.heap) /\ Whole(mawim')
    BY <1>2, <1>3 DEF ListInv
  <2> QED BY <2>1, <2>2 DEF ListInv
<1>4. ASSUME NEW w \in Windows, HandleConfigureKnown(w)
      PROVE  ListInv'
  <2> DEFINE i == FindInWorkspaces(mawim, w)
  <2>1. Finish(ManageWindow(mawim, FindWindow(mawim, i, w))) /\ i # 0
    BY <1>4 DEF HandleConfigureKnown
  <2>2. i \in Workspaces /\ Showing(mawim, i, w) # {}
    BY <2>1, FindInWorkspacesFinds
  <2> HIDE DEF i
  <2>3. Sound(ManageWindow(mawim, FindWindow(mawim, i, w)))
    BY <1>2, <2>2, ConfigureKnownSound
  <2> QED BY <1>2, <2>1, <2>3, FinishKeeps
<1>5. ASSUME NEW w \in Windows, NEW s \in Structs, HandleConfigureNew(w, s)
      PROVE  ListInv'
  <2> DEFINE i == mawim.active_workspace
             a == AppendWindow(Created(mawim, s, w, i), i, s)
  <2>1. /\ mawim.heap[s] = Free
        /\ IF ActiveExists THEN Finish(ManageWindow(a, s)) ELSE Fail("workspace index")
    BY <1>5 DEF HandleConfigureNew, Created
  <2>2. CASE ~ ActiveExists
    BY <1>2, <2>1, <2>2, FailKeeps DEF Faults
  <2>3. CASE ActiveExists
    <3>1. i \in Workspaces
      BY <2>3 DEF ActiveExists
    <3> HIDE DEF i
    <3> DEFINE c == Created(mawim, s, w, i)
    <3>2. Sound(c) /\ Whole(c) /\ s \in Allocated(c.heap)
      BY <1>2, <2>1, <3>1, CreatedSound
    <3> HIDE DEF c
    <3>4. Sound(AppendWindow(c, i, s)) /\ Whole(AppendWindow(c, i, s))
          /\ s \in Allocated(AppendWindow(c, i, s).heap)
      BY <3>1, <3>2, AppendStaysSound
    <3>5. a = AppendWindow(c, i, s)
      BY DEF c
    <3> HIDE DEF a
    <3>6. Sound(ManageWindow(a, s))
      BY <3>4, <3>5, ManageStaysSound
    <3> QED BY <1>2, <2>1, <2>3, <3>6, FinishKeeps
  <2> QED BY <2>2, <2>3
<1>6. ASSUME NEW w \in Windows, HandleDestroyNotify(w)
      PROVE  ListInv'
  <2> DEFINE i == FindInWorkspaces(mawim, w)
             s == FindWindow(mawim, i, w)
  <2>1. IF i = 0 THEN UNCHANGED <<mawim, xwin>>
        ELSE Finish(RemoveWindow(UnmanageWindow(mawim, s), i, w, TRUE))
    BY <1>6 DEF HandleDestroyNotify
  <2>2. CASE i = 0
    BY <1>2, <1>3, <2>1, <2>2
  <2>3. CASE i # 0
    <3>1. i \in Workspaces /\ Showing(mawim, i, w) # {}
      BY <2>3, FindInWorkspacesFinds
    <3> HIDE DEF i
    <3>2. NULL \notin Showing(mawim, i, w) /\ Showing(mawim, i, w) \subseteq OnList(mawim, i)
      BY ShowingType DEF OnList
    <3>3. s \in Allocated(mawim.heap)
      BY <1>2, <3>1, <3>2, FindWindowFinds DEF Whole
    <3> HIDE DEF s
    <3> DEFINE u == UnmanageWindow(mawim, s)
    <3>4. Sound(u) /\ Whole(u)
      BY <1>2, <3>3, UnmanageStaysSound
    <3> HIDE DEF u
    <3>5. Sound(RemoveWindow(u, i, w, TRUE))
      BY <3>1, <3>4, RemoveStaysSound
    <3> QED BY <1>2, <2>1, <2>3, <3>5, FinishKeeps DEF u
  <2> QED BY <2>2, <2>3
<1>7. ASSUME NEW w \in Windows, HandleMapRequest(w)
      PROVE  ListInv'
  BY <1>2, <1>3, <1>7 DEF HandleMapRequest
<1>8. ASSUME HandleLeaveNotify
      PROVE  ListInv'
  <2>1. CASE ~ ActiveExists
    BY <1>2, <1>8, <2>1, FailKeeps DEF HandleLeaveNotify, Faults
  <2>2. CASE ActiveExists
    <3>1. PICK s \in OnList(mawim, mawim.active_workspace) \cup {NULL} :
                 Finish([mawim EXCEPT !.focused_window[mawim.active_workspace] = s])
      BY <1>8, <2>2 DEF HandleLeaveNotify
    <3>2. s \in Structs \cup {NULL}
      BY <1>2, <2>2, OnListType DEF ActiveExists
    <3>3. Sound([mawim EXCEPT !.focused_window[mawim.active_workspace] = s])
      BY <1>2, <3>2 DEF Sound, Mawim, RowsOK
    <3> QED BY <1>2, <3>1, <3>3, FinishKeeps
  <2> QED BY <2>1, <2>2
<1> QED BY <1>4, <1>5, <1>6, <1>7, <1>8 DEF HandleEvent

\* Every handler of a command keeps it, also for a stale focus and number 0.
LEMMA CommandKeeps ==
  ASSUME ListInv, NEW n \in WorkspaceIds,
         HandleSetWorkspace(n) \/ HandleMoveFocused(n) \/ HandleCloseFocused
  PROVE  ListInv'
<1>1. /\ mawim.fault = "none" /\ loop' = loop /\ loop \in {"x11", "mawimctl"}
      /\ events \in Seq([type : EventTypes, window : Windows \cup {NULL}])
      /\ Sound(mawim) /\ Whole(mawim) /\ mawim \in Mawim
      /\ xwin \in [Windows -> {"none", "unmapped", "mapped"}]
      /\ n \in Int
  <2>1. Command
    BY DEF HandleSetWorkspace, HandleMoveFocused, HandleCloseFocused
  <2>2. n \in Int
    BY DEF WorkspaceIds
  <2> QED BY <2>1, <2>2, MawimType DEF ListInv, Sound, Command
<1>2. ASSUME UNCHANGED mawim, xwin' \in [Windows -> {"none", "unmapped", "mapped"}],
             events' \in Seq([type : EventTypes, window : Windows \cup {NULL}])
      PROVE  ListInv'
  <2>1. TypeOK'
    BY <1>1, <1>2 DEF TypeOK, ListInv
  <2>2. RowsOK(mawim') /\ Acyclic(mawim'.heap) /\ Whole(mawim')
    BY <1>1, <1>2 DEF ListInv
  <2> QED BY <2>1, <2>2 DEF ListInv
<1>3. ASSUME HandleSetWorkspace(n)
      PROVE  ListInv'
  <2> DEFINE a == [mawim EXCEPT !.active_workspace = n]
  <2>1. /\ n <= WorkspaceCount /\ events' = events
        /\ Finish(UpdateAllWindows(a))
    BY <1>3 DEF HandleSetWorkspace
  <2>2. n \in 0 .. WorkspaceCount
    BY <1>1, <2>1, WindowManagerAssumption DEF WorkspaceIds
  <2>3. a \in Mawim /\ a.heap = mawim.heap /\ a.first = mawim.first
        /\ a.row_count = mawim.row_count /\ a.active_row = mawim.active_row
    BY <1>1, <2>2 DEF Mawim
  <2> HIDE DEF a
  <2>4. Sound(a) /\ Whole(a)
    BY <1>1, <2>3, OnListIsReach DEF Sound, RowsOK, Whole
  <2>5. Sound(UpdateAllWindows(a))
    BY <2>4, UpdateAllStaysSound
  <2> QED BY <1>1, <2>1, <2>5, FinishKeeps
<1>4. ASSUME HandleMoveFocused(n)
      PROVE  ListInv'
  <2> DEFINE i == mawim.active_workspace
             s == mawim.focused_window[i]
  <2>1. /\ events' = events
        /\ IF i \notin Workspaces THEN Fail("workspace index")
           ELSE IF s = NULL THEN UNCHANGED <<mawim, xwin>>
           ELSE IF mawim.heap[s] = Free THEN Fail("use after free")
           ELSE IF n \notin Workspaces THEN Fail("workspace index")
           ELSE Finish(UpdateAllWindows(ManageWindow(Moved(mawim, s, n), s)))
    BY <1>4 DEF HandleMoveFocused, Moved, Renamed
  <2>2. CASE i \notin Workspaces
    BY <1>1, <2>1, <2>2, FailKeeps DEF Faults
  <2>3. CASE i \in Workspaces /\ s = NULL
    BY <1>1, <1>2, <2>1, <2>3
  <2>4. CASE i \in Workspaces /\ s # NULL /\ mawim.heap[s] = Free
    BY <1>1, <2>1, <2>4, FailKeeps DEF Faults
  <2>5. CASE i \in Workspaces /\ s # NULL /\ mawim.heap[s] # Free /\ n \notin Workspaces
    BY <1>1, <2>1, <2>5, FailKeeps DEF Faults
  <2>6. CASE i \in Workspaces /\ s # NULL /\ mawim.heap[s] # Free /\ n \in Workspaces
    <3>1. s \in Allocated(mawim.heap)
      BY <1>1, <2>6 DEF Mawim, Allocated
    <3> HIDE DEF s
    <3>2. Sound(UpdateAllWindows(ManageWindow(Moved(mawim, s, n), s)))
      BY <1>1, <2>6, <3>1, MoveSound
    <3> QED BY <1>1, <2>1, <2>6, <3>2, FinishKeeps
  <2> QED BY <2>2, <2>3, <2>4, <2>5, <2>6
<1>5. ASSUME HandleCloseFocused
      PROVE  ListInv'
  <2> DEFINE i == mawim.active_workspace + 1
             s == mawim.focused_window[i]
             w == mawim.heap[s].x11_window
  <2>1. \/ i \notin Workspaces /\ Fail("workspace index") /\ UNCHANGED events
        \/ UNCHANGED <<mawim, xwin, events>>
        \/ Fail("use after free") /\ UNCHANGED events
        \/ /\ i \in Workspaces /\ s # NULL /\ mawim.heap[s] # Free
           /\ xwin' = [xwin EXCEPT ![w] = "none"]
           /\ events' = Append(events, Event("DestroyNotify", w))
           /\ UNCHANGED mawim
    BY <1>5 DEF HandleCloseFocused
  <2>2. CASE Fail("workspace index") /\ UNCHANGED events
    BY <1>1, <2>2, FailKeeps DEF Faults
  <2>3. CASE UNCHANGED <<mawim, xwin, events>>
    BY <1>1, <1>2, <2>3
  <2>4. CASE Fail("use after free") /\ UNCHANGED events
    BY <1>1, <2>4, FailKeeps DEF Faults
  <2>5. CASE /\ i \in Workspaces /\ s # NULL /\ mawim.heap[s] # Free
             /\ xwin' = [xwin EXCEPT ![w] = "none"]
             /\ events' = Append(events, Event("DestroyNotify", w))
             /\ UNCHANGED mawim
    <3>1. w \in Windows
      BY <1>1, <2>5 DEF Mawim, Heap, Window
    <3> HIDE DEF w
    <3>2. Event("DestroyNotify", w) \in [type : EventTypes, window : Windows \cup {NULL}]
      BY <3>1 DEF Event, EventTypes
    <3>3. events' \in Seq([type : EventTypes, window : Windows \cup {NULL}])
      BY <1>1, <2>5, <3>2
    <3>4. xwin' \in [Windows -> {"none", "unmapped", "mapped"}]
      BY <1>1, <2>5, <3>1
    <3> QED BY <1>2, <2>5, <3>3, <3>4
  <2> QED BY <2>1, <2>2, <2>3, <2>4, <2>5
<1> QED BY <1>3, <1>4, <1>5

\* The X server and the main loop keep it.
LEMMA EnvironmentKeeps ==
  ASSUME ListInv, Environment \/ EventsDone \/ CommandsDone
  PROVE  ListInv'
<1> DEFINE Queue == Seq([type : EventTypes, window : Windows \cup {NULL}])
<1>1. /\ loop \in {"x11", "mawimctl"} /\ events \in Queue /\ mawim \in Mawim
      /\ xwin \in [Windows -> {"none", "unmapped", "mapped"}]
  BY MawimType DEF ListInv
<1>2. \A type \in EventTypes, w \in Windows \cup {NULL} : Append(events, Event(type, w)) \in Queue
  BY <1>1 DEF Event
<1> HIDE DEF Queue
<1> DEFINE Kept == /\ UNCHANGED mawim /\ loop' \in {"x11", "mawimctl"} /\ events' \in Queue
                   /\ xwin' \in [Windows -> {"none", "unmapped", "mapped"}]
<1>3. Kept
  <2>1. CASE Environment
    <3>1. ASSUME NEW w \in Windows, CreateWindow(w) \/ UnmapWindow(w)
          PROVE  Kept
      BY <1>1, <3>1 DEF CreateWindow, UnmapWindow
    <3>2. ASSUME NEW w \in Windows, ConfigureWindow(w) \/ MapWindow(w) \/ DestroyWindow(w)
          PROVE  Kept
      BY <1>1, <1>2, <3>2 DEF ConfigureWindow, MapWindow, DestroyWindow, Send, EventTypes
    <3>3. ASSUME MovePointer
          PROVE  Kept
      BY <1>1, <1>2, <3>3 DEF MovePointer, Send, EventTypes
    <3> QED BY <2>1, <3>1, <3>2, <3>3 DEF Environment
  <2>2. CASE EventsDone \/ CommandsDone
    BY <1>1, <2>2 DEF EventsDone, CommandsDone
  <2> QED BY <2>1, <2>2
<1>4. TypeOK'
  BY <1>3 DEF TypeOK, ListInv, Queue
<1>5. mawim' = mawim
  BY <1>3
<1> QED BY <1>4, <1>5 DEF ListInv

LEMMA InitListInv == Init => ListInv
<1> SUFFICES ASSUME Init
             PROVE  ListInv
  OBVIOUS
<1>1. /\ mawim.heap = [s \in Structs |-> Free] /\ mawim.first = [i \in Workspaces |-> NULL]
      /\ mawim.row_count = [i \in Workspaces |-> 1] /\ mawim.active_row = [i \in Workspaces |-> 0]
  BY DEF Init
<1>2. TypeOK
  BY WindowManagerAssumption DEF Init, TypeOK, Workspaces, Faults
<1>3. RowsOK(mawim)
  BY <1>1, WindowManagerAssumption DEF RowsOK
<1>4. mawim.heap \in Heap
  BY <1>2, MawimType DEF Mawim
<1>5. Acyclic(mawim.heap)
  <2>1. \A s \in Structs : After(mawim.heap, s) = NULL
    BY <1>1 DEF After
  <2>2. Numberings # {}
    <3> DEFINE N == Cardinality(Structs)
    <3>1. N \in Nat /\ ExistsBijection(1 .. N, Structs)
      BY FS_CardinalityType, WindowManagerAssumption
    <3>2. PICK f \in Bijection(1 .. N, Structs) : TRUE
      BY <3>1 DEF ExistsBijection
    <3>3. /\ f \in [1 .. N -> Structs]
          /\ \A s \in Structs : \E k \in 1 .. N : f[k] = s
      BY <3>2 DEF Bijection, Surjection
    <3> DEFINE rank == [s \in Structs |-> (CHOOSE k \in 1 .. N : f[k] = s) - 1]
    <3>4. \A s \in Structs : rank[s] + 1 \in 1 .. N /\ rank[s] \in 0 .. N - 1 /\ f[rank[s] + 1] = s
      <4>1. SUFFICES ASSUME NEW s \in Structs
                     PROVE  rank[s] + 1 \in 1 .. N /\ rank[s] \in 0 .. N - 1 /\ f[rank[s] + 1] = s
        OBVIOUS
      <4>2. PICK k : k = CHOOSE n \in 1 .. N : f[n] = s
        OBVIOUS
      <4>3. k \in 1 .. N /\ f[k] = s
        BY <3>3, <4>2
      <4>4. rank[s] = k - 1
        BY <4>2
      <4> HIDE DEF rank
      <4>5. rank[s] + 1 = k /\ rank[s] \in 0 .. N - 1
        BY <3>1, <4>3, <4>4
      <4> QED BY <4>3, <4>5
    <3>5. rank \in [Structs -> 0 .. N - 1]
      BY <3>4
    <3>6. \A s, t \in Structs : rank[s] = rank[t] => s = t
      <4> HIDE DEF rank
      <4> QED BY <3>4
    <3> HIDE DEF rank
    <3>7. rank \in Numberings
      BY <3>5, <3>6 DEF Numberings
    <3> QED BY <3>7
  <2> QED BY <2>1, <2>2 DEF Acyclic, Descends
<1>6. Whole(mawim)
  <2>1. \A i \in Workspaces : mawim.first[i] = NULL
    BY <1>1
  <2> QED BY <1>4, <2>1, ReachNull, OnListIsReach DEF Whole
<1> QED BY <1>2, <1>3, <1>5, <1>6 DEF ListInv

\* Every step keeps it.
LEMMA NextListInv == ListInv /\ [Next]_vars => ListInv'
<1> SUFFICES ASSUME ListInv, [Next]_vars
             PROVE  ListInv'
  OBVIOUS
<1>1. CASE UNCHANGED vars
  <2>1. mawim' = mawim /\ xwin' = xwin /\ events' = events /\ loop' = loop
    BY <1>1 DEF vars
  <2>2. TypeOK'
    BY <2>1 DEF ListInv, TypeOK
  <2> QED BY <2>1, <2>2 DEF ListInv
<1>2. CASE Environment
  BY <1>2, EnvironmentKeeps
<1>3. CASE MainLoop
  BY <1>3, EnvironmentKeeps, EventKeeps DEF MainLoop
<1>4. CASE \E n \in WorkspaceIds : HandleSetWorkspace(n) \/ HandleMoveFocused(n)
  BY <1>4, CommandKeeps
<1>5. CASE HandleCloseFocused
  <2>1. 0 \in WorkspaceIds
    BY WindowManagerAssumption DEF WorkspaceIds
  <2> QED BY <1>5, <2>1, CommandKeeps
<1> QED BY <1>1, <1>2, <1>3, <1>4, <1>5 DEF Next

\* It holds in every state that is reached.
LEMMA ListInvAlways == Init /\ [][Next]_vars => []ListInv
  BY InitListInv, NextListInv, PTL

(***************************************************************************)
(* The state of the window manager is well-typed, under every user and any *)
(* sequence of X events and commands.                                      *)
(***************************************************************************)
THEOREM TypeCorrect == Spec => []TypeOK
<1>1. ListInv => TypeOK
  BY DEF ListInv
<1> QED BY <1>1, ListInvAlways, PTL DEF Spec

(***************************************************************************)
(* row_count, by which mawim_update_window divides, is never zero and      *)
(* never above MaxRows, and the active row is a row in use, also while     *)
(* commands on a stale focus confuse the lists.                            *)
(***************************************************************************)
THEOREM RowsCounted == Spec => []RowCountPositive
<1>1. ListInv => RowCountPositive
  BY WindowManagerAssumption DEF ListInv, RowsOK, RowCountPositive
<1> QED BY <1>1, ListInvAlways, PTL DEF Spec

(***************************************************************************)
(* However X events and commands interleave, and however stale the focus   *)
(* that a command acts on, no list is ever circular: the walks of          *)
(* src/window.c end.                                                       *)
(***************************************************************************)
THEOREM NeverCircular == Spec => []NoCircularList
<1>1. ListInv => NoCircularList
  <2> SUFFICES ASSUME ListInv, NEW i \in Workspaces
               PROVE  Chain(mawim, i)[Cardinality(Structs)] = NULL
    BY DEF NoCircularList
  <2>1. mawim.heap \in Heap /\ mawim.first[i] \in Structs \cup {NULL} /\ Acyclic(mawim.heap)
    BY MawimType DEF ListInv, Mawim
  <2> QED BY <2>1, ChainIsWalk, WalkEnds
<1> QED BY <1>1, ListInvAlways, PTL DEF Spec
=============================================================================
