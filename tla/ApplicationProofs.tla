-------------------------- MODULE ApplicationProofs --------------------------
(***************************************************************************)
(* What runs above the kernel: the window manager, the containers, the     *)
(* terminal, the shell, the profiler and command lines, one section each.  *)
(***************************************************************************)
EXTENDS WindowManager, Containers, Terminal, Shell, Profiler, FiniteSetTheorems,
        SequenceTheorems, WellFoundedInduction, TLAPS

-----------------------------------------------------------------------------
(***************************************************************************)
(* One window has the focus, every maximised window can be restored, and   *)
(* the window list has exactly the live windows, for any number of them.   *)
(***************************************************************************)

\* The part of the type invariant the proofs need.
FieldsTyped ==
    /\ live \subseteq Windows
    /\ list \in ListType
    /\ flags \in [Windows -> SUBSET Buttons]
    /\ state \in [Windows -> States]
    /\ visible \in [Windows -> BOOLEAN]
    /\ place \in [Windows -> Places]
    /\ restore \in [Windows -> Places]

\* A window is at its own place unless it is, or was when it was minimised,
\* maximised; what the mouse can reach is not minimised.
PlacesKept ==
    \A w \in live :
        /\ state[w] = "NORMAL" => place[w] = "own"
        /\ state[w] = "MAXIMIZED" => place[w] = "screen" /\ restore[w] = "own"
        /\ visible[w] => state[w] # "MINIMIZED"

IInv == FieldsTyped /\ OneFocused /\ PlacesKept

\* What unlinking, and moving to the front, leave alone.
LEMMA UnlinkedFields ==
    ASSUME NEW l \in ListType, NEW w \in Windows
    PROVE  /\ Unlinked(l, w) \in ListType
           /\ Unlinked(l, w).active = l.active
           /\ Unlinked(l, w).focused = l.focused
BY DEF Unlinked, ListType

\* Raising a window keeps the list typed, and who is active and focused.
LEMMA MoveToFrontFields ==
    ASSUME NEW l \in ListType, NEW w \in Windows
    PROVE  /\ MoveToFront(l, w) \in ListType
           /\ MoveToFront(l, w).active = l.active
           /\ MoveToFront(l, w).focused = l.focused
<1>1. Unlinked(l, w) \in ListType
      BY UnlinkedFields
<1>2. /\ AtFront(Unlinked(l, w), w) \in ListType
      /\ AtFront(Unlinked(l, w), w).active = Unlinked(l, w).active
      /\ AtFront(Unlinked(l, w), w).focused = Unlinked(l, w).focused
      BY <1>1 DEF AtFront, ListType
<1>. QED  BY <1>2, UnlinkedFields DEF MoveToFront

\* Focusing a window takes the focus from any other.
LEMMA FocusIsUnique ==
    ASSUME NEW l \in ListType, NEW w \in Windows, NEW alive \in SUBSET Windows,
           \A v \in alive : l.focused[v] => l.active = v
    PROVE  /\ FocusWindow(l, w) \in ListType
           /\ \A v \in alive : FocusWindow(l, w).focused[v] => FocusWindow(l, w).active = v
<1>1. CASE l.active = w
      BY <1>1 DEF FocusWindow
<1>2. CASE l.active # w
  <2>. DEFINE m == [l EXCEPT !.active = w,
                             !.focused = [v \in Windows |->
                                 v = w \/ (v # l.active /\ l.focused[v])]]
  <2>1. m \in ListType
        BY DEF ListType
  <2>2. m.active = w /\ \A v \in Windows : m.focused[v] <=> (v = w \/ (v # l.active /\ l.focused[v]))
        BY DEF ListType
  <2>3. FocusWindow(l, w) = MoveToFront(m, w)
        BY <1>2 DEF FocusWindow
  <2>. HIDE DEF m
  <2>4. /\ FocusWindow(l, w) \in ListType
        /\ FocusWindow(l, w).active = w
        /\ FocusWindow(l, w).focused = m.focused
        BY <2>1, <2>2, <2>3, MoveToFrontFields
  <2>. QED  BY <2>2, <2>4
<1>. QED  BY <1>1, <1>2

\* The invariant holds at the start and through every step.
LEMMA Start == Init => IInv
BY DEF Init, IInv, FieldsTyped, OneFocused, PlacesKept, ListType, States, Places

\* create_window keeps the list sound.
LEMMA CreateWindowKeeps ==
    ASSUME IInv, NEW fl \in SUBSET Buttons, CreateWindow(fl)
    PROVE  IInv'
<1>1. PICK w \in Windows \ live :
         /\ live' = live \cup {w}
         /\ list' = AtFront([list EXCEPT !.focused[w] = FALSE], w)
         /\ flags' = [flags EXCEPT ![w] = fl]
         /\ state' = [state EXCEPT ![w] = "NORMAL"]
         /\ visible' = [visible EXCEPT ![w] = TRUE]
         /\ place' = [place EXCEPT ![w] = "own"]
         /\ restore' = restore
      BY DEF CreateWindow
<1>2. list' \in ListType /\ list'.active = list.active
      BY <1>1 DEF IInv, FieldsTyped, AtFront, ListType
<1>3. \A v \in Windows : list'.focused[v] <=> (v # w /\ list.focused[v])
      BY <1>1 DEF IInv, FieldsTyped, AtFront, ListType
<1>4. FieldsTyped'
      BY <1>1, <1>2 DEF IInv, FieldsTyped, States, Places
<1>5. OneFocused'
      BY <1>1, <1>2, <1>3 DEF IInv, OneFocused, FieldsTyped
<1>6. PlacesKept'
      BY <1>1 DEF IInv, PlacesKept, FieldsTyped
<1>. QED  BY <1>4, <1>5, <1>6 DEF IInv

\* destroy_window keeps the list sound.
LEMMA DestroyKeeps ==
    ASSUME IInv, NEW w \in Windows, DestroyWindow(w)
    PROVE  IInv'
<1>1. /\ list' \in ListType
      /\ list'.active = list.active
      /\ list'.focused = list.focused
      BY UnlinkedFields DEF IInv, FieldsTyped, DestroyWindow
<1>. QED  BY <1>1 DEF IInv, FieldsTyped, OneFocused, PlacesKept, DestroyWindow

\* A mouse event keeps the list sound.
LEMMA MouseKeeps ==
    ASSUME IInv, NEW w \in Windows, GuiHandleMouse(w)
    PROVE  IInv'
<1>1. \A v \in Windows :
         /\ FocusWindow(list, v) \in ListType
         /\ \A x \in live : FocusWindow(list, v).focused[x] => FocusWindow(list, v).active = x
      BY FocusIsUnique DEF IInv, FieldsTyped, OneFocused
<1>2. live' = live /\ w \in live /\ visible[w]
      BY DEF GuiHandleMouse, MouseElsewhere, MouseMinimize, MouseMaximize, OnScreen
<1>3. list' \in ListType /\ OneFocused'
  <2>1. CASE list' = FocusWindow(list, w)
        BY <1>1, <1>2, <2>1 DEF OneFocused
  <2>2. ASSUME NEW v \in live, list' = FocusWindow(FocusWindow(list, v), w)
        PROVE  list' \in ListType /\ OneFocused'
    <3>1. v \in Windows /\ live \in SUBSET Windows
          BY DEF IInv, FieldsTyped
    <3>2. FocusWindow(list, v) \in ListType
          BY <1>1, <3>1
    <3>3. \A x \in live : FocusWindow(list, v).focused[x] => FocusWindow(list, v).active = x
          BY <1>1, <3>1
    <3>. DEFINE l == FocusWindow(list, v)
    <3>. HIDE DEF l
    <3>4. /\ FocusWindow(l, w) \in ListType
          /\ \A x \in live : FocusWindow(l, w).focused[x] => FocusWindow(l, w).active = x
          BY <3>1, <3>2, <3>3, FocusIsUnique DEF l
    <3>. QED  BY <1>2, <2>2, <3>4 DEF OneFocused, l
  <2>. QED  BY <2>1, <2>2 DEF GuiHandleMouse, MouseElsewhere, MouseMinimize, MouseMaximize
<1>4. CASE MouseElsewhere(w)
      BY <1>2, <1>3, <1>4 DEF IInv, FieldsTyped, PlacesKept, MouseElsewhere
<1>5. CASE MouseMinimize(w)
      BY <1>2, <1>3, <1>5 DEF IInv, FieldsTyped, PlacesKept, MouseMinimize, States
<1>6. CASE MouseMaximize(w)
      BY <1>2, <1>3, <1>6 DEF IInv, FieldsTyped, PlacesKept, MouseMaximize, States, Places
<1>. QED  BY <1>4, <1>5, <1>6 DEF GuiHandleMouse

\* Every step keeps the list sound.
LEMMA StepKeeps == IInv /\ [Next]_vars => IInv'
<1>. SUFFICES ASSUME IInv, [Next]_vars PROVE IInv'
     OBVIOUS
<1>1. CASE UNCHANGED vars
      BY <1>1 DEF vars, IInv, FieldsTyped, OneFocused, PlacesKept
<1>2. CASE Next
      BY <1>2, CreateWindowKeeps, DestroyKeeps, MouseKeeps DEF Next
<1>. QED  BY <1>1, <1>2

\* At most one title bar is active (window_manager.c:282-292), also when the
\* active window was destroyed and its memory became another window.
THEOREM FocusIsSingle == Spec => []OneFocused
<1>1. IInv => OneFocused
      BY DEF IInv
<1>. QED  BY <1>1, Start, StepKeeps, PTL DEF Spec

\* Restoring a maximised window gives it its own place back (window_manager.c:320-330).
THEOREM MaximisedRestores == Spec => []RestoresOwnPlace
<1>1. IInv => RestoresOwnPlace
      BY DEF IInv, PlacesKept, RestoresOwnPlace
<1>. QED  BY <1>1, Start, StepKeeps, PTL DEF Spec
-----------------------------------------------------------------------------
(***************************************************************************)
(* The window list.                                                        *)
(***************************************************************************)

\* A list that has exactly the windows L: it stays in L, no window has two
\* predecessors, the head has none, and a walk from the head misses nothing.
Linked(head, next, L) ==
    /\ head \in L \cup {NULL}
    /\ \A v \in L : next[v] \in L \cup {NULL}
    /\ \A v, w \in L : next[v] = next[w] => v = w
    /\ \A v \in L : next[v] # head
    /\ \A S \in SUBSET L :
          (head # NULL => head \in S) /\ (\A v \in S : next[v] # NULL => next[v] \in S)
             => S = L

\* A window that is not in the list is put at the front.
LEMMA FrontLinked ==
    ASSUME NEW l \in ListType, NEW L \in SUBSET Windows, Linked(l.head, l.next, L),
           NEW w \in Windows \ L
    PROVE  Linked(AtFront(l, w).head, AtFront(l, w).next, L \cup {w})
<1>. DEFINE m == AtFront(l, w)
            M == L \cup {w}
<1>1. /\ m.head = w /\ m.next[w] = l.head /\ w # NULL
      /\ \A v \in L : m.next[v] = l.next[v]
      BY WindowsAssumption DEF AtFront, ListType
<1>. HIDE DEF m
<1>2. m.head \in M \cup {NULL} /\ \A v \in M : m.next[v] \in M \cup {NULL}
      BY <1>1 DEF Linked
<1>3. \A v \in M : m.next[v] # m.head
      BY <1>1 DEF Linked
<1>4. \A u, v \in M : m.next[u] = m.next[v] => u = v
      BY <1>1 DEF Linked
<1>5. ASSUME NEW S \in SUBSET M, m.head # NULL => m.head \in S,
             \A v \in S : m.next[v] # NULL => m.next[v] \in S
      PROVE  S = M
  <2>1. w \in S
        BY <1>1, <1>5
  <2>2. l.head # NULL => l.head \in S \cap L
        BY <1>1, <1>5, <2>1 DEF Linked
  <2>3. \A v \in S \cap L : l.next[v] # NULL => l.next[v] \in S \cap L
        BY <1>1, <1>5 DEF Linked
  <2>4. S \cap L = L
        BY <2>2, <2>3 DEF Linked
  <2>. QED  BY <2>1, <2>4
<1>6. Linked(m.head, m.next, M)
      BY <1>2, <1>3, <1>4, <1>5 DEF Linked
<1>. QED  BY <1>6 DEF m

\* A window is taken out of the list, whatever dead objects point to it.
LEMMA UnlinkedLinked ==
    ASSUME NEW l \in ListType, NEW L \in SUBSET Windows, Linked(l.head, l.next, L), NEW w \in L
    PROVE  Linked(Unlinked(l, w).head, Unlinked(l, w).next, L \ {w})
<1>. DEFINE m == Unlinked(l, w)
            M == L \ {w}
<1>0. w # NULL
      BY WindowsAssumption
<1>1. CASE l.head = w
  <2>1. m.head = l.next[w] /\ m.next = l.next
        BY <1>1 DEF Unlinked, ListType
  <2>. HIDE DEF m
  <2>2. \A v \in L : l.next[v] # w
        BY <1>1 DEF Linked
  <2>3. /\ m.head \in M \cup {NULL} /\ \A v \in M : m.next[v] \in M \cup {NULL}
        /\ \A u, v \in M : m.next[u] = m.next[v] => u = v
        /\ \A v \in M : m.next[v] # m.head
        BY <2>1, <2>2 DEF Linked
  <2>4. ASSUME NEW S \in SUBSET M, m.head # NULL => m.head \in S,
               \A v \in S : m.next[v] # NULL => m.next[v] \in S
        PROVE  S = M
    <3>1. \A v \in S \cup {w} : l.next[v] # NULL => l.next[v] \in S \cup {w}
          BY <2>1, <2>4
    <3>2. S \cup {w} \in SUBSET L /\ l.head \in S \cup {w}
          BY <1>1
    <3>3. S \cup {w} = L
          BY <3>1, <3>2 DEF Linked
    <3>. QED  BY <3>3
  <2>5. Linked(m.head, m.next, M)
        BY <2>3, <2>4 DEF Linked
  <2>. QED  BY <2>5 DEF m
<1>2. CASE l.head # w
  <2>1. /\ m.head = l.head
        /\ \A v \in Windows : m.next[v] = IF l.next[v] = w THEN l.next[w] ELSE l.next[v]
        BY <1>2 DEF Unlinked, ListType
  <2>. HIDE DEF m
  <2>2. \A v \in M : /\ l.next[v] = w => m.next[v] = l.next[w] /\ l.next[w] # w
                     /\ l.next[v] # w => m.next[v] = l.next[v]
        BY <2>1 DEF Linked
  <2>3. /\ m.head \in M \cup {NULL} /\ \A v \in M : m.next[v] \in M \cup {NULL}
        BY <1>2, <2>1, <2>2 DEF Linked
  <2>4. \A v \in M : m.next[v] # m.head
        BY <2>1, <2>2 DEF Linked
  <2>5. \A u, v \in M : m.next[u] = m.next[v] => u = v
        BY <2>2 DEF Linked
  <2>6. ASSUME NEW S \in SUBSET M, m.head # NULL => m.head \in S,
               \A v \in S : m.next[v] # NULL => m.next[v] \in S
        PROVE  S = M
    <3>1. CASE \E v \in S : l.next[v] = w
      <4>1. PICK u \in S : l.next[u] = w
            BY <3>1
      <4>2. l.next[w] # NULL => l.next[w] \in S
            BY <2>2, <2>6, <4>1
      <4>3. \A v \in S \cup {w} : l.next[v] # NULL => l.next[v] \in S \cup {w}
            BY <2>2, <2>6, <4>2
      <4>4. S \cup {w} \in SUBSET L /\ (l.head # NULL => l.head \in S \cup {w})
            BY <2>1, <2>6
      <4>5. S \cup {w} = L
            BY <4>3, <4>4 DEF Linked
      <4>. QED  BY <4>5
    <3>2. CASE \A v \in S : l.next[v] # w
      <4>1. \A v \in S : l.next[v] # NULL => l.next[v] \in S
            BY <2>2, <2>6, <3>2
      <4>2. S = L
            BY <2>1, <2>6, <4>1 DEF Linked
      <4>. QED  BY <4>2
    <3>. QED  BY <3>1, <3>2
  <2>7. Linked(m.head, m.next, M)
        BY <2>3, <2>4, <2>5, <2>6 DEF Linked
  <2>. QED  BY <2>7 DEF m
<1>. QED  BY <1>1, <1>2

\* focus_window keeps the list whole.
LEMMA FocusLinked ==
    ASSUME NEW l \in ListType, NEW L \in SUBSET Windows, Linked(l.head, l.next, L), NEW w \in L
    PROVE  /\ FocusWindow(l, w) \in ListType
           /\ Linked(FocusWindow(l, w).head, FocusWindow(l, w).next, L)
<1>1. CASE l.active = w
      BY <1>1 DEF FocusWindow
<1>2. CASE l.active # w
  <2>. DEFINE m == [l EXCEPT !.active = w,
                             !.focused = [v \in Windows |->
                                 v = w \/ (v # l.active /\ l.focused[v])]]
              u == Unlinked(m, w)
  <2>1. m \in ListType /\ m.head = l.head /\ m.next = l.next
        BY DEF ListType
  <2>2. FocusWindow(l, w) = AtFront(u, w)
        BY <1>2 DEF FocusWindow, MoveToFront
  <2>. HIDE DEF m
  <2>3. u \in ListType /\ Linked(u.head, u.next, L \ {w})
        BY <2>1, UnlinkedFields, UnlinkedLinked
  <2>. HIDE DEF u
  <2>4. Linked(AtFront(u, w).head, AtFront(u, w).next, (L \ {w}) \cup {w})
        BY <2>3, FrontLinked
  <2>5. AtFront(u, w) \in ListType
        BY <2>3 DEF AtFront, ListType
  <2>6. (L \ {w}) \cup {w} = L
        OBVIOUS
  <2>. QED  BY <2>2, <2>4, <2>5, <2>6
<1>. QED  BY <1>1, <1>2

\* The list has the live windows, and window_count is their number.
ListInv ==
    /\ live \subseteq Windows
    /\ list \in ListType
    /\ Linked(list.head, list.next, live)
    /\ count = Cardinality(live)

\* Sets of windows are finite.
LEMMA WindowsFinite ==
    ASSUME NEW L \in SUBSET Windows
    PROVE  IsFiniteSet(L) /\ Cardinality(L) \in Nat
<1>1. IsFiniteSet(Windows)
      BY WindowsAssumption, FS_Interval DEF Windows
<1>. QED  BY <1>1, FS_Subset, FS_CardinalityType

\* The empty list is whole.
LEMMA ListStart == Init => ListInv
<1>. SUFFICES ASSUME Init PROVE ListInv
     OBVIOUS
<1>1. live = {} /\ list \in ListType /\ list.head = NULL /\ count = 0
      BY DEF Init, ListType
<1>2. Linked(list.head, list.next, live)
      BY <1>1 DEF Linked
<1>. QED  BY <1>1, <1>2, FS_EmptySet DEF ListInv

\* create_window puts a new window at the front and counts it.
LEMMA CreateKeepsList ==
    ASSUME ListInv, NEW fl \in SUBSET Buttons, CreateWindow(fl)
    PROVE  ListInv'
<1>1. PICK w \in Windows \ live :
         /\ live' = live \cup {w}
         /\ list' = AtFront([list EXCEPT !.focused[w] = FALSE], w)
         /\ count' = count + 1
      BY DEF CreateWindow
<1>. DEFINE l == [list EXCEPT !.focused[w] = FALSE]
<1>2. l \in ListType /\ l.head = list.head /\ l.next = list.next
      BY DEF ListInv, ListType
<1>. HIDE DEF l
<1>3. AtFront(l, w) \in ListType
      BY <1>2 DEF AtFront, ListType
<1>4. Linked(AtFront(l, w).head, AtFront(l, w).next, live \cup {w})
      BY <1>2, FrontLinked DEF ListInv
<1>5. list' = AtFront(l, w)
      BY <1>1 DEF l
<1>6. count' = Cardinality(live')
      BY <1>1, WindowsFinite, FS_AddElement DEF ListInv
<1>. QED  BY <1>1, <1>3, <1>4, <1>5, <1>6 DEF ListInv

\* destroy_window takes its window out, also from the middle.
LEMMA DestroyKeepsList ==
    ASSUME ListInv, NEW w \in Windows, DestroyWindow(w)
    PROVE  ListInv'
<1>1. w \in live /\ live' = live \ {w} /\ list' = Unlinked(list, w) /\ count' = count - 1
      BY DEF DestroyWindow
<1>2. list' \in ListType
      BY <1>1, UnlinkedFields DEF ListInv
<1>3. Linked(list'.head, list'.next, live')
      BY <1>1, UnlinkedLinked DEF ListInv
<1>4. count' = Cardinality(live')
      BY <1>1, WindowsFinite, FS_RemoveElement DEF ListInv
<1>. QED  BY <1>1, <1>2, <1>3, <1>4 DEF ListInv

\* A mouse event moves windows to the front, minimising up to two of them.
LEMMA MouseKeepsList ==
    ASSUME ListInv, NEW w \in Windows, GuiHandleMouse(w)
    PROVE  ListInv'
<1>1. live' = live /\ count' = count /\ w \in live
      BY DEF GuiHandleMouse, MouseElsewhere, MouseMinimize, MouseMaximize, OnScreen
<1>2. CASE list' = FocusWindow(list, w)
      BY <1>1, <1>2, FocusLinked DEF ListInv
<1>3. ASSUME NEW v \in live, list' = FocusWindow(FocusWindow(list, v), w) PROVE ListInv'
  <2>. DEFINE l == FocusWindow(list, v)
  <2>1. l \in ListType /\ Linked(l.head, l.next, live)
        BY FocusLinked DEF ListInv
  <2>. HIDE DEF l
  <2>2. FocusWindow(l, w) \in ListType /\ Linked(FocusWindow(l, w).head, FocusWindow(l, w).next, live)
        BY <1>1, <2>1, FocusLinked DEF ListInv
  <2>3. list' = FocusWindow(l, w)
        BY <1>3 DEF l
  <2>. QED  BY <1>1, <2>2, <2>3 DEF ListInv
<1>. QED  BY <1>2, <1>3 DEF GuiHandleMouse, MouseElsewhere, MouseMinimize, MouseMaximize

\* Every step keeps the list.
LEMMA StepKeepsList == ListInv /\ [Next]_vars => ListInv'
<1>. SUFFICES ASSUME ListInv, [Next]_vars PROVE ListInv'
     OBVIOUS
<1>1. CASE UNCHANGED vars
      BY <1>1 DEF vars, ListInv
<1>2. CASE Next
      BY <1>2, CreateKeepsList, DestroyKeepsList, MouseKeepsList DEF Next
<1>. QED  BY <1>1, <1>2

\* Walking the window list always meets exactly the windows that exist
\* (window_manager.c:110-139, 282-292), and window_count is their number.
THEOREM ListAlwaysSound == Spec => []WindowListSound
<1>1. ListInv => WindowListSound
  <2>. SUFFICES ASSUME ListInv PROVE WindowListSound
       OBVIOUS
  <2>1. ASSUME NEW w \in Listed PROVE w \in live
    <3>1. list.head # NULL
          BY DEF Listed
    <3>2. live \in SUBSET Windows /\ list.head \in live
          BY <3>1 DEF ListInv, Linked
    <3>3. \A v \in live : list.next[v] # NULL => list.next[v] \in live
          BY DEF ListInv, Linked
    <3>. QED  BY <3>2, <3>3 DEF Listed
  <2>2. ASSUME NEW w \in live PROVE w \in Listed
    <3>1. list.head # NULL
      <4>. SUFFICES ASSUME list.head = NULL PROVE FALSE
           OBVIOUS
      <4>1. {} \in SUBSET live /\ \A v \in {} : list.next[v] # NULL => list.next[v] \in {}
            OBVIOUS
      <4>2. {} = live
            BY <4>1 DEF ListInv, Linked
      <4>. QED  BY <4>2
    <3>2. ASSUME NEW S \in SUBSET Windows, list.head \in S,
                 \A v \in S : list.next[v] # NULL => list.next[v] \in S
          PROVE  w \in S
      <4>1. list.head \in S \cap live
            BY <3>1, <3>2 DEF ListInv, Linked
      <4>2. \A v \in S \cap live : list.next[v] # NULL => list.next[v] \in S \cap live
            BY <3>2 DEF ListInv, Linked
      <4>3. S \cap live = live
            BY <4>1, <4>2 DEF ListInv, Linked
      <4>. QED  BY <4>3
    <3>. QED  BY <3>1, <3>2 DEF Listed, ListInv
  <2>3. /\ \A v, w \in live : list.next[v] = list.next[w] => v = w
        /\ \A v \in live : list.next[v] # list.head
        BY DEF ListInv, Linked
  <2>. QED  BY <2>1, <2>2, <2>3 DEF WindowListSound, ListInv
<1>. QED  BY <1>1, ListStart, StepKeepsList, PTL DEF Spec

\* The variables keep their types, window_count included.
THEOREM WindowsTyped == Spec => []TypeOK
<1>1. IInv /\ ListInv => TypeOK
      BY WindowsFinite DEF IInv, FieldsTyped, ListInv, TypeOK
<1>. QED  BY <1>1, Start, StepKeeps, ListStart, StepKeepsList, PTL DEF Spec

-----------------------------------------------------------------------------
(***************************************************************************)
(* With one manager no init process outlives its container, for any length *)
(* of the array and any number of containers.                              *)
(***************************************************************************)

\* What is in the table: containers with ids that were given, each once; one that
\* runs knows its init process, and one that has not been stopped has its group.
TableSound(array, n, groups) ==
    /\ \A s \in Slots : s < n => array[s].id \in 1 .. lastId
    /\ \A s, t \in Slots : s < n /\ t < n /\ s # t => array[s].id # array[t].id
    /\ \A s \in Slots : s < n /\ array[s].state = "RUNNING" => array[s].init = array[s].id
    /\ \A s \in Slots : s < n /\ array[s].state # "STOPPED" => array[s].id \in groups

\* InitsAreContained, of an array that may not be stored yet
Contained(array, n, groups, running) ==
    \A i \in running : \E s \in Slots :
        /\ s < n
        /\ array[s].id = i /\ array[s].init = i
        /\ array[s].state = "RUNNING"
        /\ i \in groups

\* While a call sleeps the slot stays what it was when the call began.
Undisturbed(call) ==
    /\ call.slot < size
    /\ containers[call.slot].id = call.id
    /\ containers[call.slot].state = "RUNNING"
    /\ call.id \notin inits

ContainersInv ==
    /\ containers \in [Slots -> Container]
    /\ size \in 0 .. MaxContainers
    /\ lastId \in 0 .. LastId
    /\ inits \subseteq Ids
    /\ TableSound(containers, size, cgroups)
    /\ Contained(containers, size, cgroups, inits)
    /\ asleep = <<>> \/ \E call \in Call : asleep = <<call>> /\ Undisturbed(call)

-----------------------------------------------------------------------------
\* Where compaction takes the containers from: all but the removed one, in order.
LEMMA CompactedSlots ==
    ASSUME NEW array \in [Slots -> Container], size \in 0 .. MaxContainers,
           NEW i \in Slots, i < size, NEW new, new = Compacted(array, i)
    PROVE  /\ new \in [Slots -> Container]
           /\ \A s \in Slots : s < size - 1 =>
                 IF i <= s THEN s + 1 \in Slots /\ new[s] = array[s + 1] ELSE new[s] = array[s]
           /\ \A t \in Slots : t < size /\ t # i =>
                 IF i < t THEN t - 1 \in Slots /\ new[t - 1] = array[t] ELSE new[t] = array[t]
<1>1. \A s \in Slots : s < size - 1 => s + 1 \in Slots
    BY ContainersAssumption DEF Slots
<1>2. \A t \in Slots : i < t => t - 1 \in Slots
    BY ContainersAssumption DEF Slots
<1>3. \A s \in Slots : i \in Int /\ s \in Int /\ size \in Int
    BY DEF Slots
<1> QED  BY <1>1, <1>2, <1>3 DEF Compacted

\* Removing a container whose init process has ended keeps the others as they are.
LEMMA RemovalFromTableKeeps ==
    ASSUME NEW array \in [Slots -> Container], size \in 0 .. MaxContainers,
           NEW i \in Slots, i < size, NEW new, new = Compacted(array, i),
           NEW groups, NEW gone \in SUBSET {array[i].id}, NEW running, array[i].id \notin running,
           TableSound(array, size, groups), Contained(array, size, groups, running)
    PROVE  /\ new \in [Slots -> Container]
           /\ TableSound(new, size - 1, groups \ gone)
           /\ Contained(new, size - 1, groups \ gone, running)
<1> DEFINE Was(s) == IF i <= s THEN s + 1 ELSE s
<1>1. /\ new \in [Slots -> Container]
      /\ \A s \in Slots : s < size - 1 =>
            IF i <= s THEN s + 1 \in Slots /\ new[s] = array[s + 1] ELSE new[s] = array[s]
      /\ \A t \in Slots : t < size /\ t # i =>
            IF i < t THEN t - 1 \in Slots /\ new[t - 1] = array[t] ELSE new[t] = array[t]
    BY CompactedSlots
<1>2. \A s \in Slots : s < size - 1 =>
          Was(s) \in Slots /\ Was(s) < size /\ Was(s) # i /\ new[s] = array[Was(s)]
    BY <1>1 DEF Slots
<1>3. \A s, t \in Slots : s # t => Was(s) # Was(t)
    BY DEF Slots
<1>4. \A t \in Slots : t < size /\ t # i => array[t].id # array[i].id
    BY DEF TableSound
<1>5. TableSound(new, size - 1, groups \ gone)
    <2> HIDE DEF Was
    <2>1. \A s \in Slots : s < size - 1 => new[s].id \in 1 .. lastId
        BY <1>2 DEF TableSound
    <2>2. \A s, t \in Slots : s < size - 1 /\ t < size - 1 /\ s # t => new[s].id # new[t].id
        BY <1>2, <1>3 DEF TableSound
    <2>3. \A s \in Slots : s < size - 1 /\ new[s].state = "RUNNING" => new[s].init = new[s].id
        BY <1>2 DEF TableSound
    <2>4. \A s \in Slots : s < size - 1 /\ new[s].state # "STOPPED" => new[s].id \in groups \ gone
        BY <1>2, <1>4 DEF TableSound
    <2> QED  BY <2>1, <2>2, <2>3, <2>4 DEF TableSound
<1>6. ASSUME NEW p \in running
      PROVE  \E s \in Slots : /\ s < size - 1
                              /\ new[s].id = p /\ new[s].init = p
                              /\ new[s].state = "RUNNING"
                              /\ p \in groups \ gone
    <2>1. PICK t \in Slots : /\ t < size
                             /\ array[t].id = p /\ array[t].init = p
                             /\ array[t].state = "RUNNING"
                             /\ p \in groups
        BY <1>6 DEF Contained
    <2>2. t # i /\ p \notin gone
        BY <1>6, <2>1
    <2>3. CASE i < t
        BY <1>1, <2>1, <2>2, <2>3 DEF Slots
    <2>4. CASE t < i
        BY <1>1, <2>1, <2>2, <2>4 DEF Slots
    <2> QED  BY <2>2, <2>3, <2>4 DEF Slots
<1>7. Contained(new, size - 1, groups \ gone, running)
    BY <1>6 DEF Contained
<1> QED  BY <1>1, <1>5, <1>7

\* With one manager no call sleeps while another is made.
LEMMA NobodySleeps ==
    ASSUME \A m, n \in Managers : m = n, ContainersInv, NEW m \in Managers, Idle(m)
    PROVE  asleep = <<>>
<1> SUFFICES ASSUME NEW call \in Call, asleep = <<call>> PROVE FALSE
    BY DEF ContainersInv
<1>1. call.by = m
    BY DEF Call
<1>2. 1 \in DOMAIN asleep /\ asleep[1].by = m
    BY <1>1
<1> QED  BY <1>2 DEF Idle

-----------------------------------------------------------------------------
\* No container at the start.
LEMMA InitContained == ContainersInit => ContainersInv
<1> SUFFICES ASSUME ContainersInit PROVE ContainersInv
    OBVIOUS
<1>1. containers \in [Slots -> Container]
    BY DEF ContainersInit, Container
<1>2. /\ size \in 0 .. MaxContainers /\ lastId \in 0 .. LastId /\ inits \subseteq Ids
      /\ asleep = <<>>
    BY ContainersAssumption DEF ContainersInit
<1>3. \A s \in Slots : ~(s < size)
    BY DEF ContainersInit, Slots
<1>4. TableSound(containers, size, cgroups) /\ Contained(containers, size, cgroups, inits)
    BY <1>3 DEF ContainersInit, TableSound, Contained
<1> QED  BY <1>1, <1>2, <1>4 DEF ContainersInv

\* A new container, complete or not, is written behind the table.
LEMMA CreateKeeps ==
    ASSUME ContainersInv, asleep = <<>>, NEW complete \in BOOLEAN, NEW hasGroup \in BOOLEAN,
           complete => hasGroup, CreateContainer(complete, hasGroup)
    PROVE  ContainersInv'
<1> USE DEF ContainersInv, CreateContainer
<1>1. size \in Slots /\ lastId + 1 \in Ids
    BY ContainersAssumption DEF Slots, Ids
<1>2. /\ containers' \in [Slots -> Container]
      /\ containers'[size].id = lastId + 1
      /\ complete => containers'[size].state = "CREATED"
    <2>1. PICK st \in {"CREATED", "RUNNING", "STOPPED"} :
              /\ containers' = [containers EXCEPT ![size] = [@ EXCEPT !.id = lastId + 1, !.state = st]]
              /\ complete => st = "CREATED"
        <3>1. containers[size] \in Container
            BY <1>1
        <3>2. CASE complete
            BY <1>1, <3>1, <3>2 DEF Container
        <3>3. CASE ~complete
            BY <1>1, <3>1, <3>3 DEF Container
        <3> QED  BY <3>2, <3>3
    <2> DEFINE changed == [containers[size] EXCEPT !.id = lastId + 1, !.state = st]
    <2>2. /\ changed \in Container /\ changed.id = lastId + 1
          /\ complete => changed.state = "CREATED"
        <3>1. containers[size] \in Container
            BY <1>1
        <3> QED  BY <1>1, <2>1, <3>1 DEF Container
    <2>3. containers' = [containers EXCEPT ![size] = changed]
        BY <2>1
    <2> HIDE DEF changed
    <2> QED  BY <1>1, <2>2, <2>3
<1>3. \A s \in Slots : s # size => containers'[s] = containers[s]
    OBVIOUS
<1>4. /\ size' \in 0 .. MaxContainers /\ lastId' \in 0 .. LastId /\ lastId' = lastId + 1
      /\ size' = (IF complete THEN size + 1 ELSE size)
      /\ cgroups \subseteq cgroups' /\ (complete => lastId + 1 \in cgroups')
      /\ inits' = inits /\ asleep' = <<>>
    BY ContainersAssumption
<1>5. \A s \in Slots : s < size' => s < size \/ (s = size /\ complete)
    BY <1>4 DEF Slots
<1>6. \A s \in Slots : s < size => containers'[s] = containers[s] /\ containers[s].id \in 1 .. lastId
    BY <1>3 DEF Slots, TableSound
<1>7. TableSound(containers, size, cgroups)'
    <2>1. \A s \in Slots : s < size' => containers'[s].id \in 1 .. lastId'
        BY <1>2, <1>4, <1>5, <1>6
    <2>2. \A s, t \in Slots : s < size' /\ t < size' /\ s # t => containers'[s].id # containers'[t].id
        BY <1>2, <1>4, <1>5, <1>6 DEF TableSound
    <2>3. \A s \in Slots : s < size' /\ containers'[s].state = "RUNNING" =>
              containers'[s].init = containers'[s].id
        BY <1>2, <1>5, <1>6 DEF TableSound
    <2>4. \A s \in Slots : s < size' /\ containers'[s].state # "STOPPED" => containers'[s].id \in cgroups'
        BY <1>2, <1>4, <1>5, <1>6 DEF TableSound
    <2> QED  BY <2>1, <2>2, <2>3, <2>4 DEF TableSound
<1>8. Contained(containers, size, cgroups, inits)'
    <2>1. \A s \in Slots : s < size => s < size'
        BY <1>4 DEF Slots
    <2> QED  BY <1>4, <1>6, <2>1 DEF Contained
<1> QED  BY <1>2, <1>4, <1>7, <1>8

\* A container that is started has its group already.
LEMMA StartContainerKeeps ==
    ASSUME ContainersInv, asleep = <<>>, NEW id \in Ids, StartContainer(id)
    PROVE  ContainersInv'
<1> USE DEF ContainersInv
<1>1. PICK s \in Slots :
          /\ s < size /\ containers[s].id = id /\ containers[s].state = "CREATED"
          /\ containers' = [containers EXCEPT ![s].init = id, ![s].state = "RUNNING"]
          /\ inits' = inits \cup {id}
          /\ UNCHANGED <<size, lastId, cgroups, asleep, exited>>
    BY DEF StartContainer, At
<1> DEFINE started == [containers[s] EXCEPT !.init = id, !.state = "RUNNING"]
<1>2. /\ started \in Container
      /\ started.id = id /\ started.init = id /\ started.state = "RUNNING"
    <2>1. containers[s] \in Container
        OBVIOUS
    <2> QED  BY <1>1, <2>1 DEF Container
<1>3. containers' = [containers EXCEPT ![s] = started]
    BY <1>1
<1> HIDE DEF started
<1>4. /\ containers' \in [Slots -> Container] /\ containers'[s] = started
      /\ \A t \in Slots : t # s => containers'[t] = containers[t]
      /\ \A t \in Slots : containers'[t].id = containers[t].id
    BY <1>1, <1>2, <1>3
<1>5. id \in cgroups
    BY <1>1 DEF TableSound
<1>6. TableSound(containers, size, cgroups)'
    BY <1>1, <1>2, <1>4, <1>5 DEF TableSound
<1>7. Contained(containers, size, cgroups, inits)'
    <2> SUFFICES ASSUME NEW p \in inits \cup {id}
                 PROVE  \E t \in Slots : /\ t < size
                                        /\ containers'[t].id = p /\ containers'[t].init = p
                                        /\ containers'[t].state = "RUNNING"
                                        /\ p \in cgroups
        BY <1>1 DEF Contained
    <2>1. CASE p = id
        BY <1>1, <1>2, <1>4, <1>5, <2>1
    <2>2. CASE p \in inits
        <3>1. PICK t \in Slots : /\ t < size
                                 /\ containers[t].id = p /\ containers[t].init = p
                                 /\ containers[t].state = "RUNNING"
                                 /\ p \in cgroups
            BY <2>2 DEF Contained
        <3> QED  BY <1>1, <1>4, <3>1
    <2> QED  BY <2>1, <2>2
<1> QED  BY <1>1, <1>4, <1>6, <1>7

\* An init process that ends is missed by nobody.
LEMMA ExitKeeps ==
    ASSUME ContainersInv, NEW id \in inits, InitExits(id)
    PROVE  ContainersInv'
    BY DEF ContainersInv, InitExits, TableSound, Contained, Undisturbed

\* SIGTERM ends the init process of the container that the call is for.
LEMMA StopBeginsKeeps ==
    ASSUME ContainersInv, asleep = <<>>, NEW m \in Managers, NEW id \in Ids,
           NEW for \in {"stop", "remove"}, StopBegins(m, id, for)
    PROVE  ContainersInv'
<1> USE DEF ContainersInv
<1>1. PICK s \in Slots :
          /\ s < size /\ containers[s].id = id /\ containers[s].state = "RUNNING"
          /\ inits' = inits \ {containers[s].init}
          /\ asleep' = Append(asleep, [by |-> m, for |-> for, slot |-> s, id |-> id])
          /\ UNCHANGED <<containers, size, lastId, cgroups, exited>>
    BY DEF StopBegins, At
<1> DEFINE call == [by |-> m, for |-> for, slot |-> s, id |-> id]
<1>2. call \in Call /\ call.slot = s /\ call.id = id
    BY DEF Call
<1>3. asleep' = <<call>>
    BY <1>1
<1> HIDE DEF call
<1>4. containers[s].init = id
    BY <1>1 DEF TableSound
<1>5. Undisturbed(call)'
    BY <1>1, <1>2, <1>4 DEF Undisturbed
<1>6. (TableSound(containers, size, cgroups) /\ Contained(containers, size, cgroups, inits))'
    BY <1>1 DEF TableSound, Contained
<1> QED  BY <1>1, <1>2, <1>3, <1>5, <1>6

\* After its sleep the call finds the slot as it left it.
LEMMA StopEndsKeeps ==
    ASSUME ContainersInv, StopEnds
    PROVE  ContainersInv'
<1> USE DEF ContainersInv
<1>1. PICK call \in Call : asleep = <<call>> /\ Undisturbed(call)
    BY DEF StopEnds
<1> DEFINE c == call.slot
           halted == [containers[c] EXCEPT !.state = "STOPPED"]
           stopped == [containers EXCEPT ![c] = halted]
<1>2. /\ c \in Slots /\ c < size /\ containers[c] \in Container
      /\ containers[c].id = call.id /\ containers[c].init = call.id
      /\ call.id \notin inits
    <2>1. c \in Slots /\ c < size /\ containers[c].id = call.id /\ containers[c].state = "RUNNING"
          /\ call.id \notin inits
        BY <1>1 DEF Call, Undisturbed
    <2> QED  BY <2>1 DEF TableSound
<1>3. /\ halted \in Container
      /\ halted.id = call.id /\ halted.state = "STOPPED"
    BY <1>2 DEF Container
<1>4. /\ stopped \in [Slots -> Container] /\ stopped[c] = halted
      /\ \A s \in Slots : s # c => stopped[s] = containers[s]
      /\ \A s \in Slots : stopped[s].id = containers[s].id
    <2> HIDE DEF halted, c
    <2> QED  BY <1>2, <1>3
<1>5. /\ Head(asleep) = call /\ Tail(asleep) = <<>>
      /\ StoppedAt(containers, c) = stopped
    BY <1>1 DEF StoppedAt
<1>6. /\ inits' = inits \ {call.id} /\ cgroups' = cgroups \ {call.id}
      /\ asleep' = <<>> /\ lastId' = lastId
      /\ \/ \E s \in Slots : /\ s < size /\ stopped[s].id = call.id
                             /\ containers' = Compacted(stopped, s) /\ size' = size - 1
         \/ containers' = stopped /\ size' = size
    <2> HIDE DEF stopped
    <2> QED  BY <1>2, <1>5 DEF StopEnds
<1> HIDE DEF stopped, halted, c
<1>7. inits' = inits
    BY <1>2, <1>6
<1>8. TableSound(stopped, size, cgroups)
    BY <1>2, <1>3, <1>4 DEF TableSound
<1>9. \A s \in Slots : s < size /\ s # c => containers[s].id # call.id
    BY <1>2 DEF TableSound
<1>10. Contained(stopped, size, cgroups, inits)
    BY <1>2, <1>4 DEF Contained
<1>11. CASE containers' = stopped /\ size' = size
    <2>1. TableSound(stopped, size, cgroups \ {call.id})
        BY <1>3, <1>4, <1>8, <1>9 DEF TableSound
    <2>2. Contained(stopped, size, cgroups \ {call.id}, inits)
        BY <1>2, <1>10 DEF Contained
    <2>3. TableSound(containers, size, cgroups)' /\ Contained(containers, size, cgroups, inits)'
        BY <1>6, <1>7, <1>11, <2>1, <2>2 DEF TableSound, Contained
    <2> QED  BY <1>4, <1>6, <1>7, <1>11, <2>3
<1>12. ASSUME NEW s \in Slots, s < size, stopped[s].id = call.id,
              containers' = Compacted(stopped, s), size' = size - 1
       PROVE  ContainersInv'
    <2>1. {call.id} \in SUBSET {stopped[s].id} /\ stopped[s].id \notin inits
        BY <1>2, <1>12
    <2>2. /\ containers' \in [Slots -> Container]
          /\ TableSound(containers', size - 1, cgroups \ {call.id})
          /\ Contained(containers', size - 1, cgroups \ {call.id}, inits)
        BY <1>4, <1>8, <1>10, <1>12, <2>1, RemovalFromTableKeeps
    <2>3. TableSound(containers, size, cgroups)' /\ Contained(containers, size, cgroups, inits)'
        BY <1>6, <1>7, <1>12, <2>2 DEF TableSound, Contained
    <2>4. size' \in 0 .. MaxContainers
        BY <1>12, ContainersAssumption DEF Slots
    <2> QED  BY <1>6, <1>7, <2>2, <2>3, <2>4
<1> QED  BY <1>6, <1>11, <1>12

\* A container that does not run has no init process.
LEMMA RemoveKeeps ==
    ASSUME ContainersInv, asleep = <<>>, NEW m \in Managers, NEW id \in Ids,
           RemoveContainer(m, id)
    PROVE  ContainersInv'
<1> USE DEF ContainersInv
<1>1. CASE StopBegins(m, id, "remove")
    BY <1>1, StopBeginsKeeps
<1>2. ASSUME NEW s \in Slots, At(id, s), containers[s].state # "RUNNING",
             containers' = Compacted(containers, s), size' = size - 1,
             UNCHANGED <<lastId, cgroups, inits, asleep, exited>>
      PROVE  ContainersInv'
    <2>1. s < size
        BY <1>2 DEF At
    <2>2. containers[s].id \notin inits
        BY <1>2, <2>1 DEF TableSound, Contained
    <2>3. /\ containers' \in [Slots -> Container]
          /\ TableSound(containers', size - 1, cgroups \ {})
          /\ Contained(containers', size - 1, cgroups \ {}, inits)
        BY <1>2, <2>1, <2>2, RemovalFromTableKeeps
    <2>4. TableSound(containers, size, cgroups)' /\ Contained(containers, size, cgroups, inits)'
        BY <1>2, <2>3 DEF TableSound, Contained
    <2>5. size' \in 0 .. MaxContainers
        BY <1>2, <2>1, ContainersAssumption DEF Slots
    <2> QED  BY <1>2, <2>3, <2>4, <2>5
<1> QED  BY <1>1, <1>2 DEF RemoveContainer

-----------------------------------------------------------------------------
\* Every init process that runs belongs to a RUNNING container of the table with its
\* control group, as long as only one process calls the runtime.  (With two, one can
\* move the containers while the other sleeps in stop_container.)
THEOREM InitsContained ==
    ASSUME \A m, n \in Managers : m = n
    PROVE  ContainersSpec => []InitsAreContained
<1>1. ContainersInit => ContainersInv
    BY InitContained
<1>2. ContainersInv /\ [ContainersNext]_containerVars => ContainersInv'
    <2> SUFFICES ASSUME ContainersInv, [ContainersNext]_containerVars PROVE ContainersInv'
        OBVIOUS
    <2>1. ASSUME NEW m \in Managers, Idle(m), Create \/ CreateFails PROVE ContainersInv'
        BY <2>1, NobodySleeps, CreateKeeps DEF Create, CreateFails
    <2>2. ASSUME NEW m \in Managers, Idle(m), NEW id \in Ids, StartContainer(id)
          PROVE  ContainersInv'
        BY <2>2, NobodySleeps, StartContainerKeeps
    <2>3. ASSUME NEW m \in Managers, NEW id \in Ids, StartContainerForkFails(m, id)
          PROVE  ContainersInv'
        BY <2>3 DEF StartContainerForkFails, ContainersInv, TableSound, Contained, Undisturbed
    <2>4. ASSUME NEW m \in Managers, Idle(m), NEW id \in Ids, StopContainer(m, id)
          PROVE  ContainersInv'
        BY <2>4, NobodySleeps, StopBeginsKeeps DEF StopContainer
    <2>5. ASSUME NEW m \in Managers, Idle(m), NEW id \in Ids, RemoveContainer(m, id)
          PROVE  ContainersInv'
        BY <2>5, NobodySleeps, RemoveKeeps
    <2>6. ASSUME NEW id \in inits, InitExits(id) PROVE ContainersInv'
        BY <2>6, ExitKeeps
    <2>7. CASE StopEnds
        BY <2>7, StopEndsKeeps
    <2>8. CASE UNCHANGED containerVars
        BY <2>8 DEF containerVars, ContainersInv, TableSound, Contained, Undisturbed
    <2> QED  BY <2>1, <2>2, <2>3, <2>4, <2>5, <2>6, <2>7, <2>8 DEF ContainersNext
<1>3. ContainersInv => InitsAreContained
    BY DEF ContainersInv, Contained, InitsAreContained
<1> QED  BY <1>1, <1>2, <1>3, PTL DEF ContainersSpec

-----------------------------------------------------------------------------
\* The parts of the container runtime have their types, however many processes call it.
THEOREM ContainersTyped == ContainersSpec => []ContainersTypeOK
<1>1. ContainersInit => ContainersTypeOK
    BY EmptySeq, ContainersAssumption DEF ContainersInit, ContainersTypeOK, Container
<1>2. ContainersTypeOK /\ [ContainersNext]_containerVars => ContainersTypeOK'
    <2> SUFFICES ASSUME ContainersTypeOK, [ContainersNext]_containerVars PROVE ContainersTypeOK'
        OBVIOUS
    <2> USE DEF ContainersTypeOK
    <2>1. \A s \in Slots, id \in Ids \cup {0}, st \in {"CREATED", "RUNNING", "STOPPED"},
             init \in Ids \cup {NoProcess} :
              [containers EXCEPT ![s] = [id |-> id, state |-> st, init |-> init]]
                  \in [Slots -> Container]
        BY DEF Container
    <2>2. ASSUME NEW r \in Container
          PROVE  /\ r = [id |-> r.id, state |-> r.state, init |-> r.init]
                 /\ r.id \in Ids \cup {0} /\ r.state \in {"CREATED", "RUNNING", "STOPPED"}
                 /\ r.init \in Ids \cup {NoProcess}
        BY DEF Container
    <2>3. \A s \in Slots : containers[s] \in Container
        OBVIOUS
    <2>4. ASSUME NEW array \in [Slots -> Container], NEW i \in Slots
          PROVE  Compacted(array, i) \in [Slots -> Container]
        BY ContainersAssumption DEF Compacted, Slots
    <2>5. ASSUME NEW i \in Slots PROVE StoppedAt(containers, i) \in [Slots -> Container]
        <3>1. PICK r \in Container : r = containers[i]
            BY <2>3
        <3>2. [r EXCEPT !.state = "STOPPED"] = [id |-> r.id, state |-> "STOPPED", init |-> r.init]
            BY <2>2
        <3>3. StoppedAt(containers, i) =
                  [containers EXCEPT ![i] = [id |-> r.id, state |-> "STOPPED", init |-> r.init]]
            BY <3>1, <3>2 DEF StoppedAt
        <3>4. r.id \in Ids \cup {0} /\ r.init \in Ids \cup {NoProcess}
            BY <2>2
        <3>5. [containers EXCEPT ![i] = [id |-> r.id, state |-> "STOPPED", init |-> r.init]]
                  \in [Slots -> Container]
            BY <2>1, <3>4
        <3> QED  BY <3>3, <3>5
    <2>6. ASSUME NEW complete \in BOOLEAN, NEW hasGroup \in BOOLEAN,
                 CreateContainer(complete, hasGroup)
          PROVE  ContainersTypeOK'
        <3>1. size \in Slots /\ lastId + 1 \in Ids
            BY <2>6, ContainersAssumption DEF CreateContainer, Slots, Ids
        <3>2. PICK r \in Container : r = containers[size]
            BY <2>3, <3>1
        <3>3. PICK st, l : /\ st = (IF complete THEN "CREATED" ELSE r.state)
                           /\ l = lastId + 1
            OBVIOUS
        <3>4. PICK q : q = [r EXCEPT !.id = l]
            OBVIOUS
        <3>5. q = [id |-> l, state |-> r.state, init |-> r.init]
            BY <2>2, <3>4
        <3>6. [q EXCEPT !.state = st] = [id |-> l, state |-> st, init |-> r.init]
            BY <3>5
        <3>7. containers' = [containers EXCEPT ![size] = [q EXCEPT !.state = st]]
            BY <2>6, <3>1, <3>2, <3>3, <3>4, <3>5 DEF CreateContainer
        <3>8. containers' \in [Slots -> Container]
            BY <2>1, <2>2, <3>1, <3>3, <3>6, <3>7
        <3>9. size' \in 0 .. MaxContainers
            BY <2>6, ContainersAssumption DEF CreateContainer
        <3>10. lastId' \in Ids \cup {0} /\ cgroups' \subseteq Ids
            BY <2>6, <3>1 DEF CreateContainer
        <3> QED  BY <2>6, <3>8, <3>9, <3>10 DEF CreateContainer
    <2>7. ASSUME NEW m \in Managers, Create \/ CreateFails PROVE ContainersTypeOK'
        BY <2>6, <2>7 DEF Create, CreateFails
    <2>8. ASSUME NEW id \in Ids, StartContainer(id) PROVE ContainersTypeOK'
        <3>1. PICK s \in Slots : /\ inits' = inits \cup {id}
                  /\ containers' = [containers EXCEPT ![s].init = id, ![s].state = "RUNNING"]
                  /\ UNCHANGED <<size, lastId, cgroups, asleep, exited>>
            BY <2>8 DEF StartContainer
        <3>2. PICK r \in Container : r = containers[s]
            BY <2>3
        <3>3. PICK q : q = [r EXCEPT !.init = id]
            OBVIOUS
        <3>4. q = [id |-> r.id, state |-> r.state, init |-> id]
            BY <2>2, <3>3
        <3>5. [q EXCEPT !.state = "RUNNING"] = [id |-> r.id, state |-> "RUNNING", init |-> id]
            BY <3>4
        <3>6. containers' = [containers EXCEPT ![s] = [q EXCEPT !.state = "RUNNING"]]
            BY <3>1, <3>2, <3>3
        <3>7. r.id \in Ids \cup {0} /\ id \in Ids \cup {NoProcess}
            BY <2>2
        <3>8. [containers EXCEPT ![s] = [id |-> r.id, state |-> "RUNNING", init |-> id]]
                  \in [Slots -> Container]
            BY <2>1, <3>7
        <3>9. containers' \in [Slots -> Container]
            BY <3>5, <3>6, <3>8
        <3> QED  BY <3>1, <3>9
    <2>9. ASSUME NEW m \in Managers, NEW id \in Ids, StartContainerForkFails(m, id)
          PROVE  ContainersTypeOK'
        BY <2>9 DEF StartContainerForkFails
    <2>10. ASSUME NEW m \in Managers, NEW id \in Ids, NEW for \in {"stop", "remove"},
                  StopBegins(m, id, for)
           PROVE  ContainersTypeOK'
        <3>1. PICK s \in Slots : /\ inits' = inits \ {containers[s].init}
                  /\ asleep' = Append(asleep, [by |-> m, for |-> for, slot |-> s, id |-> id])
                  /\ UNCHANGED <<containers, size, lastId, cgroups, exited>>
            BY <2>10 DEF StopBegins
        <3>2. PICK call \in Call : call = [by |-> m, for |-> for, slot |-> s, id |-> id]
            BY DEF Call
        <3>3. asleep' \in Seq(Call)
            BY <3>1, <3>2, AppendProperties
        <3> QED  BY <3>1, <3>3
    <2>11. ASSUME NEW m \in Managers, NEW id \in Ids, RemoveContainer(m, id)
           PROVE  ContainersTypeOK'
        <3>1. CASE StopBegins(m, id, "remove")
            BY <2>10, <3>1
        <3>2. CASE \E s \in Slots : /\ At(id, s) /\ containers' = Compacted(containers, s)
                                    /\ size' = size - 1
                                    /\ UNCHANGED <<lastId, cgroups, inits, asleep, exited>>
            <4>1. PICK s \in Slots : /\ s < size /\ containers' = Compacted(containers, s)
                                     /\ size' = size - 1
                BY <3>2 DEF At
            <4>2. size' \in 0 .. MaxContainers
                BY <4>1, ContainersAssumption DEF Slots
            <4> QED  BY <2>4, <3>2, <4>1, <4>2
        <3> QED  BY <2>11, <3>1, <3>2 DEF RemoveContainer
    <2>12. CASE StopEnds
        <3>1. PICK call : call = Head(asleep)
            OBVIOUS
        <3>2. call \in Call /\ Tail(asleep) \in Seq(Call)
            BY <2>12, <3>1, HeadTailProperties DEF StopEnds
        <3>3. call.slot \in Slots
            BY <3>2 DEF Call
        <3>4. PICK stopped \in [Slots -> Container] : stopped = StoppedAt(containers, call.slot)
            BY <2>5, <3>3
        <3>5. /\ inits' \subseteq inits /\ cgroups' \subseteq cgroups
              /\ asleep' \in Seq(Call) /\ UNCHANGED <<lastId, exited>>
            BY <2>12, <3>2 DEF StopEnds
        <3>6. \/ containers' = stopped /\ size' = size
              \/ \E s \in Slots : s < size /\ containers' = Compacted(stopped, s) /\ size' = size - 1
            BY <2>12, <3>1, <3>4 DEF StopEnds
        <3>7. containers' \in [Slots -> Container] /\ size' \in 0 .. MaxContainers
            <4>1. CASE containers' = stopped /\ size' = size
                BY <4>1
            <4>2. ASSUME NEW s \in Slots, s < size, containers' = Compacted(stopped, s),
                         size' = size - 1
                  PROVE  containers' \in [Slots -> Container] /\ size' \in 0 .. MaxContainers
                <5>1. size' \in 0 .. MaxContainers
                    BY <4>2, ContainersAssumption DEF Slots
                <5> QED  BY <2>4, <4>2, <5>1
            <4> QED  BY <3>6, <4>1, <4>2
        <3> QED  BY <3>5, <3>7
    <2>13. ASSUME NEW id \in inits, InitExits(id) PROVE ContainersTypeOK'
        BY <2>13 DEF InitExits
    <2>14. CASE UNCHANGED containerVars
        BY <2>14 DEF containerVars
    <2>15. ASSUME NEW m \in Managers, NEW id \in Ids, StopContainer(m, id) PROVE ContainersTypeOK'
        BY <2>10, <2>15 DEF StopContainer
    <2> QED
        BY <2>7, <2>8, <2>9, <2>11, <2>12, <2>13, <2>14, <2>15 DEF ContainersNext
<1> QED  BY <1>1, <1>2, PTL DEF ContainersSpec

-----------------------------------------------------------------------------
(***************************************************************************)
(* The cursor of the terminal stays within its line and history lines fit  *)
(* their buffers, and no line is in the history twice in a row.            *)
(***************************************************************************)

EditorTyped ==
    /\ input \in Seq(Chars) /\ Len(input) <= MaxInputLength
    /\ inputPos \in 0 .. Len(input)
    /\ history \in Seq(InputLines \ {<<>>}) /\ Len(history) <= MaxHistory
    /\ historyPos \in 0 .. Len(history)

EditorInv == EditorTyped /\ HistoryHasNoRepeats

\* Putting a character into a line, and taking one out.
LEMMA Inserted ==
    ASSUME NEW s \in Seq(Chars), NEW p \in 0 .. Len(s), NEW ch \in Chars
    PROVE  InsertAt(s, p + 1, ch) \in Seq(Chars) /\ Len(InsertAt(s, p + 1, ch)) = Len(s) + 1
  <1>1. PICK n \in Nat : Len(s) = n
    BY LenProperties
  <1>2. p \in 0 .. n /\ p + 1 - 1 = p /\ 1 \in Int /\ p \in Int /\ p + 1 \in Int /\ n \in Int
    BY <1>1
  <1>3. \A k \in 1 .. n : s[k] \in Chars
    BY <1>1, ElementOfSeq
  <1>4. SubSeq(s, 1, p) \in Seq(Chars) /\ Len(SubSeq(s, 1, p)) = p
    <2>1. \A k \in 1 .. p : s[k] \in Chars
      BY <1>2, <1>3
    <2>2. Len(SubSeq(s, 1, p)) = IF 1 <= p THEN p - 1 + 1 ELSE 0
      BY <1>2, <2>1, SubSeqProperties
    <2>3. QED
      BY <1>2, <2>1, <2>2, SubSeqProperties
  <1>5. SubSeq(s, p + 1, n) \in Seq(Chars) /\ Len(SubSeq(s, p + 1, n)) = n - p
    <2>1. \A k \in p + 1 .. n : s[k] \in Chars
      BY <1>2, <1>3
    <2>2. Len(SubSeq(s, p + 1, n)) = IF p + 1 <= n THEN n - (p + 1) + 1 ELSE 0
      BY <1>2, <2>1, SubSeqProperties
    <2>3. QED
      BY <1>2, <2>1, <2>2, SubSeqProperties
  <1>6. <<ch>> \in Seq(Chars) /\ Len(<<ch>>) = 1
    OBVIOUS
  <1>7. PICK a, b : a = SubSeq(s, 1, p) /\ b = SubSeq(s, p + 1, n)
    OBVIOUS
  <1>8. a \o <<ch>> \in Seq(Chars) /\ Len(a \o <<ch>>) = p + 1
    BY <1>4, <1>6, <1>7, ConcatProperties
  <1>9. PICK r : r = (a \o <<ch>>) \o b
    OBVIOUS
  <1>10. r \in Seq(Chars) /\ Len(r) = p + 1 + (n - p)
    BY <1>5, <1>7, <1>8, <1>9, ConcatProperties
  <1>11. InsertAt(s, p + 1, ch) = r
    BY <1>1, <1>2, <1>7, <1>9 DEF InsertAt
  <1>12. p + 1 + (n - p) = n + 1
    BY <1>2
  <1>13. QED
    BY <1>1, <1>10, <1>11, <1>12

\* Deleting a character leaves a line that is one shorter.
LEMMA TakenAway ==
    ASSUME NEW s \in Seq(Chars), NEW p \in 1 .. Len(s)
    PROVE  RemoveAt(s, p) \in Seq(Chars) /\ Len(RemoveAt(s, p)) = Len(s) - 1
  <1>1. PICK n \in Nat : Len(s) = n
    BY LenProperties
  <1>2. p \in 1 .. n /\ 1 \in Int /\ p - 1 \in Int /\ p + 1 \in Int /\ n \in Int
    BY <1>1
  <1>3. \A k \in 1 .. n : s[k] \in Chars
    BY <1>1, ElementOfSeq
  <1>4. SubSeq(s, 1, p - 1) \in Seq(Chars) /\ Len(SubSeq(s, 1, p - 1)) = p - 1
    <2>1. \A k \in 1 .. (p - 1) : s[k] \in Chars
      BY <1>2, <1>3
    <2>2. Len(SubSeq(s, 1, p - 1)) = IF 1 <= p - 1 THEN p - 1 - 1 + 1 ELSE 0
      BY <1>2, <2>1, SubSeqProperties
    <2>3. QED
      BY <1>2, <2>1, <2>2, SubSeqProperties
  <1>5. SubSeq(s, p + 1, n) \in Seq(Chars) /\ Len(SubSeq(s, p + 1, n)) = n - p
    <2>1. \A k \in p + 1 .. n : s[k] \in Chars
      BY <1>2, <1>3
    <2>2. Len(SubSeq(s, p + 1, n)) = IF p + 1 <= n THEN n - (p + 1) + 1 ELSE 0
      BY <1>2, <2>1, SubSeqProperties
    <2>3. QED
      BY <1>2, <2>1, <2>2, SubSeqProperties
  <1>6. PICK a, b : a = SubSeq(s, 1, p - 1) /\ b = SubSeq(s, p + 1, n)
    OBVIOUS
  <1>7. a \o b \in Seq(Chars) /\ Len(a \o b) = p - 1 + (n - p)
    BY <1>4, <1>5, <1>6, ConcatProperties
  <1>8. RemoveAt(s, p) = a \o b
    BY <1>1, <1>6 DEF RemoveAt
  <1>9. QED
    BY <1>1, <1>2, <1>7, <1>8

\* add_to_history keeps the length, and no two neighbours become the same.
LEMMA HistoryKept ==
    ASSUME NEW S, NEW lines \in Seq(S), NEW line \in S, Len(lines) <= MaxHistory,
           \A i \in 1 .. Len(lines) - 1 : lines[i] # lines[i + 1]
    PROVE  LET new == Remembered(lines, line) IN
           /\ new \in Seq(S) /\ Len(new) <= MaxHistory
           /\ \A i \in 1 .. Len(new) - 1 : new[i] # new[i + 1]
  <1> USE TerminalAssumption
  <1>1. PICK n \in Nat : Len(lines) = n
    BY LenProperties
  <1>2. CASE Repeats(lines, line)
    BY <1>2 DEF Remembered
  <1>3. n # 0 /\ ~Repeats(lines, line) => lines[n] # line
    BY <1>1 DEF Repeats, Last
  <1>4. CASE ~Repeats(lines, line) /\ n < MaxHistory
    <2>1. PICK new : new = Append(lines, line)
      OBVIOUS
    <2>2. /\ new \in Seq(S) /\ Len(new) = n + 1 /\ new[n + 1] = line
          /\ \A i \in 1 .. n : new[i] = lines[i]
      BY <1>1, <2>1, AppendProperties
    <2>3. \A i \in 1 .. n : new[i] # new[i + 1]
      <3>1. ASSUME NEW i \in 1 .. n PROVE new[i] # new[i + 1]
        <4>1. CASE i = n
          BY <1>3, <1>4, <2>2, <4>1
        <4>2. CASE i # n
          <5>1. i \in 1 .. (n - 1) /\ i + 1 \in 1 .. n
            BY <4>2
          <5>2. QED
            BY <1>1, <2>2, <5>1
        <4>3. QED
          BY <4>1, <4>2
      <3>2. QED
        BY <3>1
    <2>4. Remembered(lines, line) = new
      BY <1>1, <1>4, <2>1 DEF Remembered
    <2>5. Len(new) <= MaxHistory /\ Len(new) - 1 = n
      BY <1>4, <2>2
    <2>6. QED
      BY <2>2, <2>3, <2>4, <2>5
  <1>5. CASE ~Repeats(lines, line) /\ ~(n < MaxHistory)
    <2>1. n = MaxHistory /\ n # 0
      BY <1>1, <1>5
    <2>2. lines # <<>>
      BY <1>1, <2>1
    <2>3. PICK rest : rest = Tail(lines)
      OBVIOUS
    <2>4. /\ rest \in Seq(S) /\ Len(rest) = n - 1
          /\ \A i \in 1 .. (n - 1) : rest[i] = lines[i + 1]
      BY <1>1, <2>2, <2>3, HeadTailProperties
    <2>5. PICK new : new = Append(rest, line)
      OBVIOUS
    <2>6. /\ new \in Seq(S) /\ Len(new) = n - 1 + 1 /\ new[n - 1 + 1] = line
          /\ \A i \in 1 .. (n - 1) : new[i] = rest[i]
      BY <2>4, <2>5, AppendProperties
    <2>7. Len(new) = n /\ new[n] = line /\ \A i \in 1 .. (n - 1) : new[i] = lines[i + 1]
      <3>1. n - 1 + 1 = n
        OBVIOUS
      <3>2. QED
        BY <2>4, <2>6, <3>1
    <2>8. \A i \in 1 .. (n - 1) : new[i] # new[i + 1]
      <3>1. ASSUME NEW i \in 1 .. (n - 1) PROVE new[i] # new[i + 1]
        <4>1. CASE i = n - 1
          <5>1. i + 1 = n
            BY <4>1
          <5>2. new[i] = lines[n] /\ new[i + 1] = line
            BY <2>7, <5>1
          <5>3. QED
            BY <1>3, <1>5, <2>1, <5>2
        <4>2. CASE i # n - 1
          <5>1. i + 1 \in 1 .. (n - 1)
            BY <4>2
          <5>2. QED
            BY <1>1, <2>7, <5>1
        <4>3. QED
          BY <4>1, <4>2
      <3>2. QED
        BY <3>1
    <2>9. Remembered(lines, line) = new
      BY <1>1, <1>5, <2>3, <2>5 DEF Remembered
    <2>10. QED
      BY <2>1, <2>6, <2>7, <2>8, <2>9
  <1>6. QED
    BY <1>2, <1>4, <1>5

\* Every key keeps cursor, line and history typed.
LEMMA EditorKept ==
    ASSUME EditorInv, [TerminalNext]_terminalVars
    PROVE  EditorInv'
  <1> USE TerminalAssumption
  <1>0. SUFFICES ASSUME TerminalNext PROVE EditorInv'
    BY DEF EditorInv, EditorTyped, HistoryHasNoRepeats, terminalVars
  <1>1. /\ input \in Seq(Chars) /\ Len(input) <= MaxInputLength - 1
        /\ inputPos \in 0 .. Len(input) /\ history \in Seq(InputLines \ {<<>>})
        /\ Len(history) <= MaxHistory /\ historyPos \in 0 .. Len(history)
        /\ HistoryHasNoRepeats
    <2>1. Len(input) < MaxInputLength /\ Len(input) \in Nat
      BY <1>0, LenProperties DEF TerminalNext, Terminated, EditorInv, EditorTyped
    <2>2. QED
      BY <2>1 DEF EditorInv, EditorTyped
  <1>2. PICK n \in Nat : n = Len(input)
    BY <1>1, LenProperties
  <1>3. PICK m \in Nat : m = Len(history)
    BY <1>1, LenProperties
  <1>4. \A i \in 1 .. m : history[i] \in InputLines
    BY <1>1, <1>3, ElementOfSeq
  <1>5. <<>> \in InputLines /\ Len(<<>>) = 0
    BY EmptySeq DEF InputLines
  <1>6. ASSUME NEW text \in Seq(Chars), Len(text) <= MaxInputLength, NEW pos \in 0 .. Len(text),
               Edited(text, pos), history' = history, historyPos' \in 0 .. m
        PROVE  EditorInv'
    BY <1>1, <1>3, <1>6 DEF EditorInv, EditorTyped, HistoryHasNoRepeats, Edited
  <1>7. ASSUME NEW ch \in Chars, HandleCharacterInput(ch) PROVE EditorInv'
    <2>1. PICK text : text = InsertAt(input, inputPos + 1, ch)
      OBVIOUS
    <2>2. text \in Seq(Chars) /\ Len(text) = n + 1
      BY <1>1, <1>2, <2>1, Inserted
    <2>3. n + 1 <= MaxInputLength /\ inputPos + 1 \in 0 .. (n + 1)
      BY <1>1, <1>2
    <2>4. history' = history /\ historyPos' = historyPos
      BY <1>7 DEF HandleCharacterInput
    <2>5. CASE Len(input) < MaxInputLength - 1
      <3>1. Edited(text, inputPos + 1)
        BY <1>7, <2>1, <2>5 DEF HandleCharacterInput
      <3>2. QED
        BY <1>1, <1>3, <1>6, <2>2, <2>3, <2>4, <3>1
    <2>6. CASE ~(Len(input) < MaxInputLength - 1)
      <3>1. InsertOverrunning(ch) /\ inputPos < MaxInputLength - 1
        BY <1>7, <2>6 DEF HandleCharacterInput
      <3>2. n = MaxInputLength - 1 /\ inputPos \in 0 .. (n - 1)
        BY <1>1, <1>2, <2>6, <3>1
      <3>3. PICK old : old = input[inputPos + 1]
        OBVIOUS
      <3>4. old \in Chars
        <4>1. inputPos + 1 \in 1 .. n
          BY <3>2
        <4>2. QED
          BY <1>1, <1>2, <3>3, <4>1, ElementOfSeq
      <3>5. PICK moved : moved = InsertAt(input, inputPos + 1, old)
        OBVIOUS
      <3>6. moved \in Seq(Chars) /\ Len(moved) = n + 1
        BY <1>1, <1>2, <3>4, <3>5, Inserted
      <3>7. PICK pos \in {inputPos, inputPos - (inputPos % ByteValues)} :
                Edited([moved EXCEPT ![pos + 1] = ch], pos + 1)
        BY <3>1, <3>3, <3>5 DEF InsertOverrunning
      <3>8. pos \in 0 .. (n - 1)
        <4>1. inputPos - (inputPos % ByteValues) \in 0 .. inputPos
          <5>1. inputPos \in Nat /\ ByteValues \in Nat \ {0}
            BY <3>2, ByteAssumption
          <5>2. inputPos % ByteValues \in 0 .. inputPos
            BY <5>1
          <5>3. QED
            BY <5>1, <5>2
        <4>2. QED
          BY <3>2, <3>7, <4>1
      <3>9. PICK new : new = [moved EXCEPT ![pos + 1] = ch]
        OBVIOUS
      <3>10. new \in Seq(Chars) /\ Len(new) = n + 1
        <4>1. pos + 1 \in 1 .. Len(moved)
          BY <3>6, <3>8
        <4>2. QED
          BY <3>6, <3>9, <4>1, ExceptSeq
      <3>11. Edited(new, pos + 1) /\ pos + 1 \in 0 .. Len(new) /\ Len(new) <= MaxInputLength
        BY <2>3, <3>7, <3>8, <3>9, <3>10
      <3>12. QED
        BY <1>1, <1>3, <1>6, <2>4, <3>10, <3>11
    <2>7. QED
      BY <2>5, <2>6
  <1>8. ASSUME HandleBackspace PROVE EditorInv'
    <2>1. PICK text : text = RemoveAt(input, inputPos)
      OBVIOUS
    <2>2. inputPos \in 1 .. n
      BY <1>1, <1>2, <1>8 DEF HandleBackspace
    <2>3. text \in Seq(Chars) /\ Len(text) = n - 1
      BY <1>1, <1>2, <2>1, <2>2, TakenAway
    <2>4. Len(text) <= MaxInputLength /\ inputPos - 1 \in 0 .. (n - 1)
      BY <1>1, <1>2, <2>2, <2>3
    <2>5. Edited(text, inputPos - 1) /\ history' = history /\ historyPos' = historyPos
      BY <1>8, <2>1 DEF HandleBackspace
    <2>6. QED
      BY <1>1, <1>3, <1>6, <2>3, <2>4, <2>5
  <1>9. ASSUME NEW pos \in 0 .. Len(input), HandleCursorKey(pos) PROVE EditorInv'
    BY <1>1, <1>9 DEF EditorInv, EditorTyped, HistoryHasNoRepeats, HandleCursorKey
  <1>10. ASSUME HandleUpArrow PROVE EditorInv'
    <2>1. PICK text : text = history[historyPos]
      OBVIOUS
    <2>2. historyPos \in 1 .. m /\ historyPos' = historyPos - 1 /\ historyPos - 1 \in 0 .. m
      BY <1>1, <1>3, <1>10 DEF HandleUpArrow
    <2>3. Edited(text, Len(text)) /\ history' = history
      BY <1>10, <2>1 DEF HandleUpArrow
    <2>4. text \in Seq(Chars) /\ Len(text) <= MaxInputLength /\ Len(text) \in 0 .. Len(text)
      BY <1>4, <2>1, <2>2, LenProperties DEF InputLines
    <2>5. QED
      BY <1>6, <2>2, <2>3, <2>4
  <1>11. ASSUME HandleDownArrow PROVE EditorInv'
    <2>1. PICK text : text = IF historyPos = Len(history) - 1 THEN <<>> ELSE history[historyPos + 2]
      OBVIOUS
    <2>2. historyPos < m /\ historyPos' = historyPos + 1 /\ historyPos + 1 \in 0 .. m
      BY <1>1, <1>3, <1>11 DEF HandleDownArrow
    <2>3. Edited(text, Len(text)) /\ history' = history
      BY <1>11, <2>1 DEF HandleDownArrow
    <2>4. historyPos # m - 1 => historyPos + 2 \in 1 .. m
      BY <1>1, <1>3, <2>2
    <2>5. text \in InputLines
      BY <1>3, <1>4, <1>5, <2>1, <2>4
    <2>6. text \in Seq(Chars) /\ Len(text) <= MaxInputLength /\ Len(text) \in 0 .. Len(text)
      BY <2>5, LenProperties DEF InputLines
    <2>7. QED
      BY <1>6, <2>2, <2>3, <2>6
  <1>12. ASSUME HandleTab PROVE EditorInv'
    <2>1. ASSUME NEW ch \in Chars, Len(input) < MaxInputLength - 1,
                 Edited(Append(input, ch), Len(input) + 1), UNCHANGED <<history, historyPos>>
          PROVE  EditorInv'
      <3>1. PICK text : text = Append(input, ch)
        OBVIOUS
      <3>2. text \in Seq(Chars) /\ Len(text) = n + 1
        BY <1>1, <1>2, <3>1, AppendProperties
      <3>3. Len(text) <= MaxInputLength /\ n + 1 \in 0 .. (n + 1)
        BY <1>2, <2>1, <3>2
      <3>4. QED
        BY <1>1, <1>2, <1>3, <1>6, <2>1, <3>1, <3>2, <3>3
    <2>2. ASSUME UNCHANGED <<input, inputPos, history, historyPos>> PROVE EditorInv'
      BY <1>1, <2>2 DEF EditorInv, EditorTyped, HistoryHasNoRepeats
    <2>3. QED
      BY <1>12, <2>1, <2>2 DEF HandleTab
  <1>13. ASSUME NEW length \in PromptLengths, HandleEnter(length) PROVE EditorInv'
    <2>1. input' = <<>> /\ inputPos' = 0
      BY <1>13 DEF HandleEnter
    <2>2. CASE input = <<>>
      <3>1. history' = history /\ historyPos' = historyPos
        BY <1>13, <2>2 DEF HandleEnter
      <3>2. QED
        BY <1>1, <1>5, <2>1, <3>1 DEF EditorInv, EditorTyped, HistoryHasNoRepeats
    <2>3. CASE input # <<>>
      <3>1. input \in InputLines \ {<<>>}
        BY <1>1, <2>3 DEF InputLines
      <3>2. history' = Remembered(history, input)
        BY <1>13, <2>3 DEF HandleEnter
      <3>3. /\ history' \in Seq(InputLines \ {<<>>}) /\ Len(history') <= MaxHistory
            /\ \A i \in 1 .. Len(history') - 1 : history'[i] # history'[i + 1]
        BY <1>1, <3>1, <3>2, HistoryKept DEF HistoryHasNoRepeats
      <3>4. historyPos' \in 0 .. Len(history')
        <4>1. CASE Repeats(history, input)
          <5>1. history' = history /\ historyPos' = historyPos
            BY <1>13, <3>2, <4>1 DEF HandleEnter, Remembered
          <5>2. QED
            BY <1>1, <5>1
        <4>2. CASE ~Repeats(history, input)
          <5>1. historyPos' = Len(history') /\ Len(history') \in Nat
            BY <1>13, <2>3, <3>3, <4>2, LenProperties DEF HandleEnter
          <5>2. QED
            BY <5>1
        <4>3. QED
          BY <4>1, <4>2
      <3>5. QED
        BY <1>5, <2>1, <3>3, <3>4 DEF EditorInv, EditorTyped, HistoryHasNoRepeats
    <2>4. QED
      BY <2>2, <2>3
  <1>14. QED
    BY <1>0, <1>7, <1>8, <1>9, <1>10, <1>11, <1>12, <1>13 DEF TerminalNext

\* The terminal starts with an empty line.
LEMMA EditorStarts == TerminalInit => EditorInv
  <1>1. /\ <<>> \in Seq(Chars) /\ <<>> \in Seq(InputLines \ {<<>>}) /\ Len(<<>>) = 0
    BY EmptySeq
  <1>2. QED
    BY <1>1, TerminalAssumption
       DEF TerminalInit, EditorInv, EditorTyped, InputLines, HistoryHasNoRepeats

\* However lines are typed, edited, recalled and entered, also after the oldest one was
\* given up: add_to_history never keeps a line twice in a row.
THEOREM HistoryNeverRepeats == TerminalSpec => []HistoryHasNoRepeats
  <1>1. EditorInv => HistoryHasNoRepeats
    BY DEF EditorInv
  <1>2. QED
    BY <1>1, EditorStarts, EditorKept, PTL DEF TerminalSpec

-----------------------------------------------------------------------------
(***************************************************************************)
(* The terminal's screen shows its input line, for every size of the       *)
(* screen, prompt and line.                                                *)
(***************************************************************************)

\* Induction over the natural numbers, for a set.
LEMMA FromZero ==
    ASSUME NEW S, S \subseteq Nat, 0 \in S, \A n \in S : n + 1 \in S
    PROVE  S = Nat
  <1> DEFINE T == {U \in SUBSET Nat : \E t \in Nat \ S : U = 0 .. t}
             R == StrictSubsetOrdering(Nat)
  <1> SUFFICES ASSUME Nat \ S # {} PROVE FALSE
    OBVIOUS
  <1>1. IsWellFoundedOn(R, FiniteSubsetsOf(Nat))
    BY FS_StrictSubsetOrderingWellFounded
  <1>2. T \subseteq FiniteSubsetsOf(Nat)
    BY FS_Interval DEF FiniteSubsetsOf
  <1>3. T # {}
    <2>1. PICK t \in Nat \ S : TRUE
      OBVIOUS
    <2>2. (0 .. t) \in T
      BY <2>1
    <2>3. QED
      BY <2>2
  <1> HIDE DEF T
  <1>4. PICK U \in T : \A V \in T : ~ (<<V, U>> \in R)
    <2> HIDE DEF R
    <2>1. QED
      BY <1>1, <1>2, <1>3, WFMin
  <1>5. PICK m \in Nat \ S : U = 0 .. m
    BY <1>4 DEF T
  <1>6. m # 0
    OBVIOUS
  <1>7. m - 1 \in Nat \ S
    <2>1. m - 1 \in Nat /\ (m - 1) + 1 = m
      BY <1>6
    <2>2. QED
      BY <2>1
  <1>8. (0 .. (m - 1)) \in T
    BY <1>7 DEF T
  <1>9. (0 .. (m - 1)) \subseteq U /\ (0 .. (m - 1)) # U
    BY <1>5
  <1>10. <<0 .. (m - 1), U>> \in R
    BY <1>8, <1>9, <1>5 DEF StrictSubsetOrdering
  <1>11. QED
    BY <1>4, <1>8, <1>10

\* A screen with nothing below the cursor's line.
ScreenOK(s) ==
    /\ s \in Screens
    /\ \A r \in 0 .. Rows - 1, k \in 0 .. Cols - 1 : r > s.y => s.cell[<<r, k>>] = Blank

\* The cursor is at the start of an empty line.
Fresh(s) == s.x = 0 /\ \A k \in 0 .. Cols - 1 : s.cell[<<s.y, k>>] = Blank

\* What a cell can show.
AnyChar == Chars \cup {Blank, Mark}

\* A screen is its three fields.
LEMMA ScreenFields ==
    ASSUME NEW cells \in [Cells -> AnyChar], NEW x \in Nat, NEW y \in 0 .. Rows - 1,
           NEW s, s = [cell |-> cells, x |-> x, y |-> y]
    PROVE  s \in Screens /\ s.cell = cells /\ s.x = x /\ s.y = y
  BY DEF Screens, AnyChar

\* newline, with or without scrolling, moves to the start of an empty line.
LEMMA NewLineFresh ==
    ASSUME NEW s, ScreenOK(s)
    PROVE  ScreenOK(NewLine(s)) /\ Fresh(NewLine(s))
  <1> USE TerminalAssumption
  <1>1. /\ s.cell \in [Cells -> AnyChar] /\ s.x \in Nat /\ s.y \in 0 .. Rows - 1
        /\ \A r \in 0 .. Rows - 1, k \in 0 .. Cols - 1 : r > s.y => s.cell[<<r, k>>] = Blank
        /\ s = [cell |-> s.cell, x |-> s.x, y |-> s.y]
    BY DEF ScreenOK, Screens, AnyChar
  <1>2. Blank \in AnyChar
    BY DEF AnyChar
  <1>3. CASE s.y + 1 >= Rows
    <2> DEFINE up == [e \in Cells |-> IF e[1] < Rows - 1 THEN s.cell[<<e[1] + 1, e[2]>>] ELSE Blank]
    <2>1. NewLine(s) = [cell |-> up, x |-> 0, y |-> Rows - 1]
      BY <1>1, <1>3 DEF NewLine, ScrollUp
    <2>2. up \in [Cells -> AnyChar]
      <3>1. ASSUME NEW e \in Cells, e[1] < Rows - 1 PROVE s.cell[<<e[1] + 1, e[2]>>] \in AnyChar
        <4>1. <<e[1] + 1, e[2]>> \in Cells
          BY <3>1 DEF Cells
        <4>2. QED
          BY <1>1, <4>1
      <3>2. QED
        BY <1>2, <3>1
    <2>3. \A k \in 0 .. Cols - 1 : up[<<Rows - 1, k>>] = Blank
      BY DEF Cells
    <2> HIDE DEF up
    <2>4. PICK t : t = NewLine(s)
      OBVIOUS
    <2>5. t \in Screens /\ t.cell = up /\ t.x = 0 /\ t.y = Rows - 1
      BY <2>1, <2>2, <2>4, ScreenFields
    <2>6. ScreenOK(t) /\ Fresh(t)
      BY <2>3, <2>5 DEF ScreenOK, Fresh
    <2>7. QED
      BY <2>4, <2>6
  <1>4. CASE ~(s.y + 1 >= Rows)
    <2>1. NewLine(s) = [cell |-> s.cell, x |-> 0, y |-> s.y + 1]
      BY <1>1, <1>4 DEF NewLine
    <2>2. PICK t : t = NewLine(s)
      OBVIOUS
    <2>3. s.y + 1 \in 0 .. Rows - 1
      BY <1>1, <1>4
    <2>4. t \in Screens /\ t.cell = s.cell /\ t.x = 0 /\ t.y = s.y + 1
      BY <1>1, <2>1, <2>2, <2>3, ScreenFields
    <2>5. ScreenOK(t) /\ Fresh(t)
      BY <1>1, <2>3, <2>4 DEF ScreenOK, Fresh
    <2>6. QED
      BY <2>2, <2>5
  <1>5. QED
    BY <1>3, <1>4

\* put_char within the line writes there and moves the cursor.
LEMMA PutWithin ==
    ASSUME NEW s, ScreenOK(s), NEW ch \in AnyChar, s.x < Cols, NEW t, t = PutChar(s, ch)
    PROVE  /\ ScreenOK(t) /\ t.y = s.y /\ t.x = s.x + 1
           /\ \A k \in 0 .. Cols - 1 :
                 t.cell[<<s.y, k>>] = IF k = s.x THEN ch ELSE s.cell[<<s.y, k>>]
  <1> USE TerminalAssumption
  <1>1. /\ s.cell \in [Cells -> AnyChar] /\ s.x \in Nat /\ s.y \in 0 .. Rows - 1
        /\ \A r \in 0 .. Rows - 1, k \in 0 .. Cols - 1 : r > s.y => s.cell[<<r, k>>] = Blank
        /\ s = [cell |-> s.cell, x |-> s.x, y |-> s.y]
    BY DEF ScreenOK, Screens, AnyChar
  <1>2. ~(s.x >= Cols)
    BY <1>1
  <1> DEFINE new == [s.cell EXCEPT ![<<s.y, s.x>>] = ch]
  <1>3. t = [cell |-> new, x |-> s.x + 1, y |-> s.y]
    <2>1. t = [s EXCEPT !.cell[<<s.y, s.x>>] = ch, !.x = @ + 1]
      BY <1>2 DEF PutChar
    <2>2. QED
      BY <1>1, <2>1
  <1>4. new \in [Cells -> AnyChar]
    BY <1>1
  <1>5. \A r \in 0 .. Rows - 1, k \in 0 .. Cols - 1 :
            new[<<r, k>>] = IF r = s.y /\ k = s.x THEN ch ELSE s.cell[<<r, k>>]
    BY <1>1 DEF Cells
  <1> HIDE DEF new
  <1>6. t \in Screens /\ t.cell = new /\ t.x = s.x + 1 /\ t.y = s.y
    <2>1. s.x + 1 \in Nat /\ s.y \in 0 .. Rows - 1
      BY <1>1
    <2>2. QED
      BY <1>3, <1>4, <2>1, ScreenFields
  <1>7. QED
    BY <1>1, <1>5, <1>6 DEF ScreenOK

\* put_char at the end of a line does so on the next one.
LEMMA PutKeeps ==
    ASSUME NEW s, ScreenOK(s), NEW ch \in AnyChar
    PROVE  ScreenOK(PutChar(s, ch))
  <1> USE TerminalAssumption
  <1>1. s.x \in Nat
    BY DEF ScreenOK, Screens
  <1>2. CASE s.x < Cols
    BY <1>2, PutWithin
  <1>3. CASE s.x >= Cols
    <2>1. PICK u : u = NewLine(s)
      OBVIOUS
    <2>2. ScreenOK(u) /\ u.x = 0 /\ u.x < Cols
      BY <2>1, NewLineFresh DEF Fresh
    <2>3. PutChar(s, ch) = PutChar(u, ch)
      <3>1. ~(u.x >= Cols)
        BY <2>2
      <3>2. QED
        BY <1>3, <2>1, <3>1 DEF PutChar
    <2>4. QED
      BY <2>2, <2>3, PutWithin
  <1>4. QED
    BY <1>1, <1>2, <1>3

-----------------------------------------------------------------------------
\* Printed(s, text, n, f): f holds the screens while the first n characters are printed.
Printed(s, text, n, f) ==
    f = [k \in 0 .. n |-> IF k = 0 THEN s ELSE PutChar(f[k - 1], text[k])]

\* One character more.
LEMMA PrintFurther ==
    ASSUME NEW s, NEW text, NEW n \in Nat, NEW f, Printed(s, text, n, f)
    PROVE  \E g : Printed(s, text, n + 1, g)
  <1> DEFINE g == [k \in 0 .. (n + 1) |-> IF k = n + 1 THEN PutChar(f[n], text[n + 1]) ELSE f[k]]
             F(k) == IF k = 0 THEN s ELSE PutChar(g[k - 1], text[k])
  <1>1. \A k \in 0 .. n : f[k] = IF k = 0 THEN s ELSE PutChar(f[k - 1], text[k])
    BY DEF Printed
  <1>2. ASSUME NEW k \in 0 .. (n + 1) PROVE g[k] = F(k)
    <2>1. CASE k = n + 1
      <3>1. k - 1 = n /\ n \in 0 .. (n + 1) /\ n # n + 1 /\ k # 0
        BY <2>1
      <3>2. g[k - 1] = f[n]
        BY <3>1
      <3>3. g[k] = PutChar(f[n], text[n + 1])
        BY <2>1
      <3>4. QED
        BY <2>1, <3>1, <3>2, <3>3
    <2>2. CASE k = 0
      BY <1>1, <2>2
    <2>3. CASE k # 0 /\ k # n + 1
      <3>1. k \in 0 .. n /\ k - 1 \in 0 .. (n + 1) /\ k - 1 # n + 1
        BY <2>3
      <3>2. g[k - 1] = f[k - 1] /\ g[k] = f[k]
        BY <2>3, <3>1
      <3>3. f[k] = PutChar(f[k - 1], text[k])
        BY <1>1, <2>3, <3>1
      <3>4. QED
        BY <2>3, <3>2, <3>3
    <2>4. QED
      BY <2>1, <2>2, <2>3
  <1>3. g = [k \in 0 .. (n + 1) |-> F(k)]
    <2> HIDE DEF F
    <2>1. QED
      BY <1>2
  <1>4. Printed(s, text, n + 1, g)
    <2> HIDE DEF g
    <2>1. QED
      BY <1>3 DEF Printed
  <1>5. QED
    BY <1>4

\* print_text ends with the last of these screens.
LEMMA PrintedText ==
    ASSUME NEW s, NEW text, NEW n \in Nat, Len(text) = n
    PROVE  \E f : /\ PrintText(s, text) = f[n] /\ f[0] = s
                  /\ \A k \in 0 .. (n - 1) : f[k + 1] = PutChar(f[k], text[k + 1])
  <1> DEFINE Good == {m \in Nat : \E f : Printed(s, text, m, f)}
  <1>1. 0 \in Good
    <2> DEFINE z == [k \in 0 .. 0 |-> s]
               F(k) == IF k = 0 THEN s ELSE PutChar(z[k - 1], text[k])
    <2>1. \A k \in 0 .. 0 : z[k] = F(k)
      OBVIOUS
    <2>2. z = [k \in 0 .. 0 |-> F(k)]
      <3> HIDE DEF F
      <3>1. QED
        BY <2>1
    <2>3. Printed(s, text, 0, z)
      <3> HIDE DEF z
      <3>1. QED
        BY <2>2 DEF Printed
    <2>4. QED
      BY <2>3
  <1>2. \A m \in Good : m + 1 \in Good
    BY PrintFurther
  <1>3. Good = Nat
    <2> HIDE DEF Good
    <2>1. Good \subseteq Nat
      BY DEF Good
    <2>2. QED
      BY <1>1, <1>2, <2>1, FromZero
  <1>4. \E f : Printed(s, text, n, f)
    BY <1>3
  <1>5. PICK f : f = CHOOSE g : Printed(s, text, n, g)
    OBVIOUS
  <1>6. Printed(s, text, n, f)
    BY <1>4, <1>5
  <1>7. PrintText(s, text) = f[n]
    BY <1>5 DEF PrintText, Printed
  <1>8. \A k \in 0 .. n : f[k] = IF k = 0 THEN s ELSE PutChar(f[k - 1], text[k])
    BY <1>6 DEF Printed
  <1>9. f[0] = s
    BY <1>8
  <1>10. ASSUME NEW k \in 0 .. (n - 1) PROVE f[k + 1] = PutChar(f[k], text[k + 1])
    <2>1. k + 1 \in 0 .. n /\ k + 1 # 0 /\ (k + 1) - 1 = k
      OBVIOUS
    <2>2. QED
      BY <1>8, <2>1
  <1>11. QED
    BY <1>7, <1>9, <1>10

\* AfterText(s, text, m, t): t is s with the first m characters of text printed from the
\* cursor on, all in its line.
AfterText(s, text, m, t) ==
    /\ t.y = s.y /\ t.x = s.x + m
    /\ \A k \in 0 .. Cols - 1 :
          t.cell[<<s.y, k>>] = IF s.x <= k /\ k < s.x + m THEN text[k - s.x + 1]
                              ELSE s.cell[<<s.y, k>>]

\* print_text keeps the screen in order; a text that fits stays in its line.
LEMMA TextPrinted ==
    ASSUME NEW s, ScreenOK(s), NEW text \in Seq(AnyChar), NEW n \in Nat, Len(text) = n
    PROVE  /\ ScreenOK(PrintText(s, text))
           /\ s.x + n <= Cols => AfterText(s, text, n, PrintText(s, text))
  <1> USE TerminalAssumption
  <1>1. PICK f : /\ PrintText(s, text) = f[n] /\ f[0] = s
                 /\ \A k \in 0 .. (n - 1) : f[k + 1] = PutChar(f[k], text[k + 1])
    BY PrintedText
  <1>2. \A k \in 1 .. n : text[k] \in AnyChar
    BY ElementOfSeq
  <1>3. s.x \in Nat
    BY DEF ScreenOK, Screens
  <1> DEFINE P(m) == /\ ScreenOK(f[m])
                     /\ s.x + n <= Cols => AfterText(s, text, m, f[m])
             Good == {m \in Nat : m <= n => P(m)}
  <1>4. 0 \in Good
    <2>1. AfterText(s, text, 0, s)
      BY <1>3 DEF AfterText
    <2>2. QED
      BY <1>1, <2>1
  <1>5. ASSUME NEW m \in Good PROVE m + 1 \in Good
    <2>0. m \in Nat
      OBVIOUS
    <2> SUFFICES ASSUME m + 1 <= n PROVE P(m + 1)
      BY <2>0
    <2>1. PICK u, v, ch : u = f[m] /\ v = f[m + 1] /\ ch = text[m + 1]
      OBVIOUS
    <2>2. ch \in AnyChar /\ v = PutChar(u, ch)
      <3>1. m \in 0 .. (n - 1) /\ m + 1 \in 1 .. n
        BY <2>0
      <3>2. QED
        BY <1>1, <1>2, <2>1, <3>1
    <2>3. ScreenOK(u) /\ (s.x + n <= Cols => AfterText(s, text, m, u))
      BY <2>0, <2>1
    <2>4. ScreenOK(v)
      BY <2>2, <2>3, PutKeeps
    <2>5. ASSUME s.x + n <= Cols PROVE AfterText(s, text, m + 1, v)
      <3>1. /\ u.y = s.y /\ u.x = s.x + m
            /\ \A k \in 0 .. Cols - 1 :
                  u.cell[<<s.y, k>>] = IF s.x <= k /\ k < s.x + m THEN text[k - s.x + 1]
                                      ELSE s.cell[<<s.y, k>>]
        BY <2>3, <2>5 DEF AfterText
      <3>2. u.x < Cols
        BY <1>3, <2>0, <2>5, <3>1
      <3>3. /\ v.y = u.y /\ v.x = u.x + 1
            /\ \A k \in 0 .. Cols - 1 :
                  v.cell[<<u.y, k>>] = IF k = u.x THEN ch ELSE u.cell[<<u.y, k>>]
        BY <2>2, <2>3, <3>2, PutWithin
      <3>4. ASSUME NEW k \in 0 .. Cols - 1
            PROVE  v.cell[<<s.y, k>>] = IF s.x <= k /\ k < s.x + (m + 1) THEN text[k - s.x + 1]
                                       ELSE s.cell[<<s.y, k>>]
        <4>1. CASE k = u.x
          <5>1. k - s.x + 1 = m + 1 /\ s.x <= k /\ k < s.x + (m + 1)
            BY <1>3, <2>0, <3>1, <4>1
          <5>2. QED
            BY <2>1, <3>1, <3>3, <4>1, <5>1
        <4>2. CASE k # u.x
          <5>1. k < s.x + (m + 1) <=> k < s.x + m
            BY <1>3, <2>0, <3>1, <4>2
          <5>2. v.cell[<<s.y, k>>] = u.cell[<<s.y, k>>]
            BY <3>1, <3>3, <4>2
          <5>3. QED
            BY <3>1, <5>1, <5>2
        <4>3. QED
          BY <4>1, <4>2
      <3>5. v.x = s.x + (m + 1)
        BY <1>3, <2>0, <3>1, <3>3
      <3>6. QED
        BY <3>1, <3>3, <3>4, <3>5 DEF AfterText
    <2>6. QED
      BY <2>1, <2>4, <2>5
  <1>6. Good = Nat
    <2> HIDE DEF Good
    <2>1. Good \subseteq Nat
      BY DEF Good
    <2>2. QED
      BY <1>4, <1>5, <2>1, FromZero
  <1>7. n \in Good
    BY <1>6
  <1>8. P(n)
    BY <1>7
  <1>9. QED
    BY <1>1, <1>8

\* A prompt, or n characters of a line that is printed.
LEMMA MarksAreText ==
    ASSUME NEW n \in Nat
    PROVE  Marks(n) \in Seq(AnyChar) /\ Len(Marks(n)) = n
  <1>1. Mark \in AnyChar
    BY DEF AnyChar
  <1>2. Marks(n) \in [1 .. n -> AnyChar]
    BY <1>1 DEF Marks
  <1>3. QED
    BY <1>2, SeqDef

\* LinesPrinted(s, lines, n, f), as Printed, for whole lines.
LinesPrinted(s, lines, n, f) ==
    f = [k \in 0 .. n |-> IF k = 0 THEN s ELSE PrintLine(f[k - 1], lines[k])]

\* One line more.
LEMMA LinesFurther ==
    ASSUME NEW s, NEW lines, NEW n \in Nat, NEW f, LinesPrinted(s, lines, n, f)
    PROVE  \E g : LinesPrinted(s, lines, n + 1, g)
  <1> DEFINE g == [k \in 0 .. (n + 1) |-> IF k = n + 1 THEN PrintLine(f[n], lines[n + 1]) ELSE f[k]]
             F(k) == IF k = 0 THEN s ELSE PrintLine(g[k - 1], lines[k])
  <1>1. \A k \in 0 .. n : f[k] = IF k = 0 THEN s ELSE PrintLine(f[k - 1], lines[k])
    BY DEF LinesPrinted
  <1>2. ASSUME NEW k \in 0 .. (n + 1) PROVE g[k] = F(k)
    <2>1. CASE k = n + 1
      <3>1. k - 1 = n /\ n \in 0 .. (n + 1) /\ n # n + 1 /\ k # 0
        BY <2>1
      <3>2. g[k - 1] = f[n]
        BY <3>1
      <3>3. g[k] = PrintLine(f[n], lines[n + 1])
        BY <2>1
      <3>4. QED
        BY <2>1, <3>1, <3>2, <3>3
    <2>2. CASE k = 0
      BY <1>1, <2>2
    <2>3. CASE k # 0 /\ k # n + 1
      <3>1. k \in 0 .. n /\ k - 1 \in 0 .. (n + 1) /\ k - 1 # n + 1
        BY <2>3
      <3>2. g[k - 1] = f[k - 1] /\ g[k] = f[k]
        BY <2>3, <3>1
      <3>3. f[k] = PrintLine(f[k - 1], lines[k])
        BY <1>1, <2>3, <3>1
      <3>4. QED
        BY <2>3, <3>2, <3>3
    <2>4. QED
      BY <2>1, <2>2, <2>3
  <1>3. g = [k \in 0 .. (n + 1) |-> F(k)]
    <2> HIDE DEF F
    <2>1. QED
      BY <1>2
  <1>4. LinesPrinted(s, lines, n + 1, g)
    <2> HIDE DEF g
    <2>1. QED
      BY <1>3 DEF LinesPrinted
  <1>5. QED
    BY <1>4

\* Lines printed from the start of an empty line end at the start of another.
LEMMA LinesKeep ==
    ASSUME NEW s, ScreenOK(s), Fresh(s), NEW lines, NEW n \in Nat, Len(lines) = n,
           \A k \in 1 .. n : lines[k] \in Nat
    PROVE  ScreenOK(PrintLines(s, lines)) /\ Fresh(PrintLines(s, lines))
  <1> DEFINE Good == {m \in Nat : \E f : LinesPrinted(s, lines, m, f)}
  <1>1. 0 \in Good
    <2> DEFINE z == [k \in 0 .. 0 |-> s]
               F(k) == IF k = 0 THEN s ELSE PrintLine(z[k - 1], lines[k])
    <2>1. \A k \in 0 .. 0 : z[k] = F(k)
      OBVIOUS
    <2>2. z = [k \in 0 .. 0 |-> F(k)]
      <3> HIDE DEF F
      <3>1. QED
        BY <2>1
    <2>3. LinesPrinted(s, lines, 0, z)
      <3> HIDE DEF z
      <3>1. QED
        BY <2>2 DEF LinesPrinted
    <2>4. QED
      BY <2>3
  <1>2. \A m \in Good : m + 1 \in Good
    BY LinesFurther
  <1>3. Good = Nat
    <2> HIDE DEF Good
    <2>1. Good \subseteq Nat
      BY DEF Good
    <2>2. QED
      BY <1>1, <1>2, <2>1, FromZero
  <1>4. \E f : LinesPrinted(s, lines, n, f)
    BY <1>3
  <1>5. PICK f : f = CHOOSE g : LinesPrinted(s, lines, n, g)
    OBVIOUS
  <1>6. LinesPrinted(s, lines, n, f)
    BY <1>4, <1>5
  <1>7. PrintLines(s, lines) = f[n]
    BY <1>5 DEF PrintLines, LinesPrinted
  <1>8. \A k \in 0 .. n : f[k] = IF k = 0 THEN s ELSE PrintLine(f[k - 1], lines[k])
    BY <1>6 DEF LinesPrinted
  <1> DEFINE Fine == {m \in Nat : m <= n => ScreenOK(f[m]) /\ Fresh(f[m])}
  <1>9. 0 \in Fine
    BY <1>8
  <1>10. ASSUME NEW m \in Fine PROVE m + 1 \in Fine
    <2> SUFFICES ASSUME m + 1 <= n PROVE ScreenOK(f[m + 1]) /\ Fresh(f[m + 1])
      OBVIOUS
    <2>1. m \in Nat /\ m + 1 \in 1 .. n /\ m + 1 # 0 /\ (m + 1) - 1 = m
      OBVIOUS
    <2>2. f[m + 1] = PrintLine(f[m], lines[m + 1]) /\ lines[m + 1] \in Nat
      BY <1>8, <2>1
    <2>3. ScreenOK(f[m])
      BY <2>1
    <2>4. PICK u : u = PrintText(f[m], Marks(lines[m + 1]))
      OBVIOUS
    <2>5. ScreenOK(u)
      BY <2>2, <2>3, <2>4, MarksAreText, TextPrinted
    <2>6. f[m + 1] = NewLine(u)
      BY <2>2, <2>4 DEF PrintLine
    <2>7. QED
      BY <2>5, <2>6, NewLineFresh
  <1>11. Fine = Nat
    <2> HIDE DEF Fine
    <2>1. Fine \subseteq Nat
      BY DEF Fine
    <2>2. QED
      BY <1>9, <1>10, <2>1, FromZero
  <1>12. n \in Fine
    BY <1>11
  <1>13. QED
    BY <1>7, <1>12

\* InputShown, of any screen, prompt and line.
Shown(s, length, text, pos) ==
    length + Len(text) <= Cols =>
        /\ s.x = length + pos
        /\ \A k \in length .. Cols - 1 :
              s.cell[<<s.y, k>>] = IF k < length + Len(text) THEN text[k - length + 1] ELSE Blank

\* redraw_input_line shows the line, whatever was in the cursor's line before.
LEMMA RedrawnShows ==
    ASSUME NEW s, ScreenOK(s), NEW length \in Nat, NEW text \in Seq(Chars), NEW pos \in Nat
    PROVE  /\ ScreenOK(RedrawInputLine(s, length, text, pos))
           /\ Shown(RedrawInputLine(s, length, text, pos), length, text, pos)
  <1> USE TerminalAssumption
  <1>1. /\ s.cell \in [Cells -> AnyChar] /\ s.x \in Nat /\ s.y \in 0 .. Rows - 1
        /\ \A r \in 0 .. Rows - 1, k \in 0 .. Cols - 1 : r > s.y => s.cell[<<r, k>>] = Blank
        /\ s = [cell |-> s.cell, x |-> s.x, y |-> s.y]
    BY DEF ScreenOK, Screens, AnyChar
  <1>2. PICK n \in Nat : n = Len(text)
    BY LenProperties
  <1>3. text \in Seq(AnyChar)
    <2>1. Chars \subseteq AnyChar
      BY DEF AnyChar
    <2>2. QED
      BY <2>1, SeqMonotonic
  <1> DEFINE empty == [e \in Cells |-> IF e[1] = s.y /\ e[2] >= length THEN Blank ELSE s.cell[e]]
  <1>4. PICK u : u = [ClearedLine(s, length) EXCEPT !.x = length]
    OBVIOUS
  <1>5. u = [cell |-> empty, x |-> length, y |-> s.y]
    BY <1>1, <1>4 DEF ClearedLine
  <1>6. empty \in [Cells -> AnyChar]
    BY <1>1 DEF AnyChar
  <1>7. \A r \in 0 .. Rows - 1, k \in 0 .. Cols - 1 :
            empty[<<r, k>>] = IF r = s.y /\ k >= length THEN Blank ELSE s.cell[<<r, k>>]
    BY DEF Cells
  <1> HIDE DEF empty
  <1>8. u \in Screens /\ u.cell = empty /\ u.x = length /\ u.y = s.y
    BY <1>1, <1>5, <1>6, ScreenFields
  <1>9. ScreenOK(u)
    BY <1>1, <1>7, <1>8 DEF ScreenOK
  <1>10. PICK v : v = PrintText(u, text)
    OBVIOUS
  <1>11. ScreenOK(v) /\ (length + n <= Cols => AfterText(u, text, n, v))
    BY <1>2, <1>3, <1>8, <1>9, <1>10, TextPrinted
  <1>12. PICK t : t = RedrawInputLine(s, length, text, pos)
    OBVIOUS
  <1>13. t = [v EXCEPT !.x = length + pos]
    BY <1>4, <1>10, <1>12 DEF RedrawInputLine
  <1>14. /\ v.cell \in [Cells -> AnyChar] /\ v.y \in 0 .. Rows - 1
         /\ v = [cell |-> v.cell, x |-> v.x, y |-> v.y]
    BY <1>11 DEF ScreenOK, Screens, AnyChar
  <1>15. t = [cell |-> v.cell, x |-> length + pos, y |-> v.y]
    BY <1>13, <1>14
  <1>16. length + pos \in Nat
    OBVIOUS
  <1>17. t \in Screens /\ t.cell = v.cell /\ t.x = length + pos /\ t.y = v.y
    BY <1>14, <1>15, <1>16, ScreenFields
  <1>18. ScreenOK(t)
    BY <1>11, <1>17 DEF ScreenOK
  <1>19. ASSUME length + n <= Cols, NEW k \in length .. Cols - 1
         PROVE  t.cell[<<t.y, k>>] = IF k < length + n THEN text[k - length + 1] ELSE Blank
    <2>1. k \in 0 .. Cols - 1 /\ length <= k
      OBVIOUS
    <2>2. v.y = s.y /\ v.cell[<<s.y, k>>] = IF k < length + n THEN text[k - length + 1]
                                            ELSE u.cell[<<s.y, k>>]
      BY <1>8, <1>11, <1>19, <2>1 DEF AfterText
    <2>3. u.cell[<<s.y, k>>] = Blank
      BY <1>1, <1>7, <1>8, <2>1
    <2>4. QED
      BY <1>17, <2>2, <2>3
  <1>20. Shown(t, length, text, pos)
    BY <1>2, <1>17, <1>19 DEF Shown
  <1>21. QED
    BY <1>12, <1>18, <1>20

\* display_prompt at the start of an empty line shows an empty input line.
LEMMA PromptShows ==
    ASSUME NEW s, ScreenOK(s), Fresh(s), NEW length \in Nat
    PROVE  ScreenOK(DisplayPrompt(s, length)) /\ Shown(DisplayPrompt(s, length), length, <<>>, 0)
  <1> USE TerminalAssumption
  <1>1. PICK t : t = DisplayPrompt(s, length)
    OBVIOUS
  <1>2. t = PrintText(s, Marks(length))
    BY <1>1 DEF DisplayPrompt
  <1>3. ScreenOK(t) /\ (s.x + length <= Cols => AfterText(s, Marks(length), length, t))
    BY <1>2, MarksAreText, TextPrinted
  <1>4. s.x = 0 /\ \A k \in 0 .. Cols - 1 : s.cell[<<s.y, k>>] = Blank
    BY DEF Fresh
  <1>5. Len(<<>>) = 0
    OBVIOUS
  <1>6. ASSUME length <= Cols PROVE t.x = length /\ \A k \in length .. Cols - 1 : t.cell[<<t.y, k>>] = Blank
    <2>1. AfterText(s, Marks(length), length, t)
      BY <1>3, <1>4, <1>6
    <2>2. ASSUME NEW k \in length .. Cols - 1 PROVE t.cell[<<t.y, k>>] = Blank
      <3>1. k \in 0 .. Cols - 1 /\ ~(k < 0 + length)
        OBVIOUS
      <3>2. t.y = s.y /\ t.cell[<<s.y, k>>] = s.cell[<<s.y, k>>]
        BY <1>4, <2>1, <3>1 DEF AfterText
      <3>3. QED
        BY <1>4, <3>1, <3>2
    <2>3. t.x = length
      BY <1>4, <2>1 DEF AfterText
    <2>4. QED
      BY <2>2, <2>3
  <1>7. Shown(t, length, <<>>, 0)
    BY <1>5, <1>6 DEF Shown
  <1>8. QED
    BY <1>1, <1>3, <1>7

\* A cleared screen has its cursor at the start of an empty line.
LEMMA BlankFresh == ScreenOK(BlankScreen) /\ Fresh(BlankScreen)
  <1> USE TerminalAssumption
  <1> DEFINE blank == [e \in Cells |-> Blank]
  <1>1. blank \in [Cells -> AnyChar] /\ 0 \in 0 .. Rows - 1
    BY DEF AnyChar
  <1>2. \A r \in 0 .. Rows - 1, k \in 0 .. Cols - 1 : blank[<<r, k>>] = Blank
    BY DEF Cells
  <1>3. PICK b : b = BlankScreen
    OBVIOUS
  <1>4. b = [cell |-> blank, x |-> 0, y |-> 0]
    BY <1>3 DEF BlankScreen
  <1> HIDE DEF blank
  <1>5. b \in Screens /\ b.cell = blank /\ b.x = 0 /\ b.y = 0
    BY <1>1, <1>4, ScreenFields
  <1>6. ScreenOK(b) /\ Fresh(b)
    BY <1>1, <1>2, <1>5 DEF ScreenOK, Fresh
  <1>7. QED
    BY <1>3, <1>6

\* What a command prints: nothing, a cleared screen, or the lines of help.
LEMMA ExecutedFresh ==
    ASSUME NEW s, ScreenOK(s), Fresh(s), NEW line
    PROVE  ScreenOK(Executed(s, line)) /\ Fresh(Executed(s, line))
  <1> USE TerminalAssumption
  <1>1. PICK lines : lines = [i \in 1 .. HelpLines |-> 1]
    OBVIOUS
  <1>2. lines \in Seq(Nat) /\ Len(lines) = HelpLines /\ \A k \in 1 .. HelpLines : lines[k] \in Nat
    <2>1. lines \in [1 .. HelpLines -> Nat]
      BY <1>1
    <2>2. QED
      BY <2>1, SeqDef
  <1>3. ScreenOK(PrintLines(s, lines)) /\ Fresh(PrintLines(s, lines))
    BY <1>2, LinesKeep
  <1>4. Executed(s, line) = BlankScreen \/ Executed(s, line) = PrintLines(s, lines)
           \/ Executed(s, line) = s
    BY <1>1 DEF Executed
  <1>5. QED
    BY BlankFresh, <1>3, <1>4

-----------------------------------------------------------------------------
\* What every step of the terminal keeps of its screen.
ScreenInv ==
    /\ ScreenOK(screen)
    /\ promptLength \in PromptLengths
    /\ Shown(screen, promptLength, input, inputPos)

\* A step that redraws the line shows the new one.
LEMMA EditShows ==
    ASSUME ScreenInv, NEW text \in Seq(Chars), NEW pos \in Nat, Edited(text, pos)
    PROVE  ScreenInv'
  <1>1. promptLength \in Nat /\ ScreenOK(screen)
    BY TerminalAssumption DEF ScreenInv
  <1>2. PICK r : r = RedrawInputLine(screen, promptLength, text, pos)
    OBVIOUS
  <1>3. ScreenOK(r) /\ Shown(r, promptLength, text, pos)
    BY <1>1, <1>2, RedrawnShows
  <1>4. screen' = r /\ promptLength' = promptLength /\ input' = text /\ inputPos' = pos
    BY <1>2 DEF Edited
  <1>5. ScreenOK(screen') /\ Shown(screen', promptLength', input', inputPos')
    BY <1>3, <1>4
  <1>6. QED
    BY <1>4, <1>5 DEF ScreenInv

\* The arrows, Home and End move the cursor along the line that is shown.
LEMMA CursorShows ==
    ASSUME EditorInv, ScreenInv, NEW pos \in 0 .. Len(input), HandleCursorKey(pos)
    PROVE  ScreenInv'
  <1>1. PICK n \in Nat : n = Len(input)
    BY LenProperties DEF EditorInv, EditorTyped
  <1>2. promptLength \in Nat /\ ScreenOK(screen) /\ promptLength + pos \in Nat
    BY <1>1, TerminalAssumption DEF ScreenInv
  <1>3. PICK t : t = [screen EXCEPT !.x = promptLength + pos]
    OBVIOUS
  <1>4. /\ screen.cell \in [Cells -> AnyChar] /\ screen.y \in 0 .. Rows - 1
        /\ screen = [cell |-> screen.cell, x |-> screen.x, y |-> screen.y]
    BY <1>2 DEF ScreenOK, Screens, AnyChar
  <1>5. t = [cell |-> screen.cell, x |-> promptLength + pos, y |-> screen.y]
    BY <1>3, <1>4
  <1>6. t \in Screens /\ t.cell = screen.cell /\ t.x = promptLength + pos /\ t.y = screen.y
    BY <1>2, <1>4, <1>5, ScreenFields
  <1>7. ScreenOK(t)
    BY <1>2, <1>6 DEF ScreenOK
  <1>8. Shown(screen, promptLength, input, inputPos)
    BY DEF ScreenInv
  <1>9. Shown(t, promptLength, input, pos)
    BY <1>6, <1>8 DEF Shown
  <1>10. screen' = t /\ promptLength' = promptLength /\ input' = input /\ inputPos' = pos
    BY <1>3 DEF HandleCursorKey
  <1>11. ScreenOK(screen') /\ Shown(screen', promptLength', input', inputPos')
    BY <1>7, <1>9, <1>10
  <1>12. QED
    BY <1>10, <1>11 DEF ScreenInv

\* Tab completes the line, or lists names and shows the line under them.
LEMMA TabShows ==
    ASSUME EditorInv, EditorInv', ScreenInv, HandleTab
    PROVE  ScreenInv'
  <1>1. /\ input \in Seq(Chars) /\ inputPos \in Nat
        /\ input' \in Seq(Chars) /\ inputPos' \in Nat
    BY LenProperties DEF EditorInv, EditorTyped
  <1>2. ASSUME NEW ch \in Chars, Edited(Append(input, ch), Len(input) + 1) PROVE ScreenInv'
    <2>1. Edited(input', inputPos')
      BY <1>2 DEF Edited
    <2>2. PICK text, pos : text = input' /\ pos = inputPos'
      OBVIOUS
    <2>3. QED
      BY <1>1, <2>1, <2>2, EditShows
  <1>3. ASSUME NEW length \in PromptLengths,
               screen' = RedrawInputLine(DisplayPrompt(PrintLines(NewLine(screen), <<1, 1>>), length),
                                         length, input, inputPos),
               promptLength' = length, UNCHANGED <<input, inputPos>>
        PROVE  ScreenInv'
    <2>1. PICK a : a = NewLine(screen)
      OBVIOUS
    <2>2. ScreenOK(a) /\ Fresh(a)
      BY <2>1, NewLineFresh DEF ScreenInv
    <2>3. PICK two : two = <<1, 1>>
      OBVIOUS
    <2>4. Len(two) = 2 /\ 2 \in Nat /\ \A k \in 1 .. 2 : two[k] \in Nat
      BY <2>3
    <2>5. PICK b : b = PrintLines(a, two)
      OBVIOUS
    <2>6. ScreenOK(b) /\ Fresh(b)
      BY <2>2, <2>4, <2>5, LinesKeep
    <2>7. length \in Nat
      BY TerminalAssumption
    <2>8. PICK listed : listed = DisplayPrompt(b, length)
      OBVIOUS
    <2>9. ScreenOK(listed)
      BY <2>6, <2>7, <2>8, PromptShows
    <2>10. PICK r : r = RedrawInputLine(listed, length, input, inputPos)
      OBVIOUS
    <2>11. ScreenOK(r) /\ Shown(r, length, input, inputPos)
      BY <1>1, <2>7, <2>9, <2>10, RedrawnShows
    <2>12. screen' = r /\ input' = input /\ inputPos' = inputPos
      BY <1>3, <2>1, <2>3, <2>5, <2>8, <2>10
    <2>13. ScreenOK(screen') /\ Shown(screen', promptLength', input', inputPos')
      BY <1>3, <2>11, <2>12
    <2>14. QED
      BY <1>3, <2>13 DEF ScreenInv
  <1>4. QED
    BY <1>2, <1>3 DEF HandleTab

\* Enter leaves a prompt on an empty line, whatever the command printed.
LEMMA EnterShows ==
    ASSUME ScreenInv, NEW length \in PromptLengths, HandleEnter(length)
    PROVE  ScreenInv'
  <1>1. PICK a : a = NewLine(screen)
    OBVIOUS
  <1>2. ScreenOK(a) /\ Fresh(a)
    BY <1>1, NewLineFresh DEF ScreenInv
  <1>3. PICK b : b = Executed(a, input)
    OBVIOUS
  <1>4. ScreenOK(b) /\ Fresh(b)
    BY <1>2, <1>3, ExecutedFresh
  <1>5. length \in Nat
    BY TerminalAssumption
  <1>6. PICK t : t = DisplayPrompt(b, length)
    OBVIOUS
  <1>7. ScreenOK(t) /\ Shown(t, length, <<>>, 0)
    BY <1>4, <1>5, <1>6, PromptShows
  <1>8. screen' = t /\ promptLength' = length /\ input' = <<>> /\ inputPos' = 0
    BY <1>1, <1>3, <1>6 DEF HandleEnter
  <1>9. ScreenOK(screen') /\ Shown(screen', promptLength', input', inputPos')
    BY <1>7, <1>8
  <1>10. QED
    BY <1>8, <1>9 DEF ScreenInv

\* main prints a banner and shows the first prompt.
LEMMA ScreenStarts == TerminalInit => ScreenInv
  <1> SUFFICES ASSUME TerminalInit PROVE ScreenInv
    OBVIOUS
  <1>1. PICK lines : lines = <<1, 1, 0>>
    OBVIOUS
  <1>2. Len(lines) = 3 /\ 3 \in Nat /\ \A k \in 1 .. 3 : lines[k] \in Nat
    BY <1>1
  <1>3. ScreenOK(BlankScreen) /\ Fresh(BlankScreen)
    BY BlankFresh
  <1>4. PICK b : b = PrintLines(BlankScreen, lines)
    OBVIOUS
  <1>5. ScreenOK(b) /\ Fresh(b)
    BY <1>2, <1>3, <1>4, LinesKeep
  <1>6. promptLength \in Nat /\ promptLength \in PromptLengths
    BY TerminalAssumption DEF TerminalInit
  <1>7. screen = DisplayPrompt(b, promptLength) /\ input = <<>> /\ inputPos = 0
    BY <1>1, <1>4 DEF TerminalInit
  <1>8. ScreenOK(screen) /\ Shown(screen, promptLength, <<>>, 0)
    BY <1>5, <1>6, <1>7, PromptShows
  <1>9. QED
    BY <1>6, <1>7, <1>8 DEF ScreenInv

\* Every key keeps the line shown.
LEMMA ScreenKept ==
    ASSUME EditorInv, EditorInv', ScreenInv, [TerminalNext]_terminalVars
    PROVE  ScreenInv'
  <1>1. input' \in Seq(Chars) /\ inputPos' \in Nat
    BY LenProperties DEF EditorInv, EditorTyped
  <1>2. ASSUME NEW text, NEW pos, Edited(text, pos) PROVE ScreenInv'
    <2>1. text \in Seq(Chars) /\ pos \in Nat
      BY <1>1, <1>2 DEF Edited
    <2>2. QED
      BY <1>2, <2>1, EditShows
  <1>3. ASSUME NEW ch \in Chars, HandleCharacterInput(ch) PROVE ScreenInv'
    BY <1>2, <1>3 DEF HandleCharacterInput, InsertOverrunning
  <1>4. ASSUME HandleBackspace PROVE ScreenInv'
    BY <1>2, <1>4 DEF HandleBackspace
  <1>5. ASSUME NEW pos \in 0 .. Len(input), HandleCursorKey(pos) PROVE ScreenInv'
    BY <1>5, CursorShows
  <1>6. ASSUME HandleUpArrow PROVE ScreenInv'
    BY <1>2, <1>6 DEF HandleUpArrow
  <1>7. ASSUME HandleDownArrow PROVE ScreenInv'
    BY <1>2, <1>7 DEF HandleDownArrow
  <1>8. ASSUME HandleTab PROVE ScreenInv'
    BY <1>8, TabShows
  <1>9. ASSUME NEW length \in PromptLengths, HandleEnter(length) PROVE ScreenInv'
    BY <1>9, EnterShows
  <1>10. CASE UNCHANGED terminalVars
    BY <1>10 DEF terminalVars, ScreenInv
  <1>11. QED
    BY <1>3, <1>4, <1>5, <1>6, <1>7, <1>8, <1>9, <1>10 DEF TerminalNext

\* However it is edited, recalled, completed or scrolled: as long as prompt and line fit
\* one row and the line its buffer, the cursor's row shows the line behind the columns of
\* the prompt, nothing right of it, and the cursor stands where the next character will go.
THEOREM InputAlwaysShown == TerminalSpec => []InputShown
  <1>1. ScreenInv => InputShown
    BY DEF ScreenInv, Shown, InputShown
  <1>2. QED
    BY <1>1, EditorStarts, EditorKept, ScreenStarts, ScreenKept, PTL DEF TerminalSpec

\* The screen, the history and its position stay within their buffers, and the cursor within
\* its line.  The line outgrows its buffer by no more than its terminating zero, with which
\* a behaviour ends.
THEOREM TerminalTyped == TerminalSpec => []TerminalTypeOK
  <1>1. EditorInv /\ ScreenInv => TerminalTypeOK
    BY DEF EditorInv, EditorTyped, ScreenInv, ScreenOK, TerminalTypeOK
  <1>2. QED
    BY <1>1, EditorStarts, EditorKept, ScreenStarts, ScreenKept, PTL DEF TerminalSpec

-----------------------------------------------------------------------------
(***************************************************************************)
(* The exit code the shell shows is that of the last command in the        *)
(* foreground unless a signal ended the wait, for any number of jobs.      *)
(***************************************************************************)

Job == [state : {"running", "zombie", "collected"}, code : ExitCodes \cup {0}]

\* In process_wait the shell waits for a job; when it is woken by the end of that job, the
\* job's code is in wait_status.  Nothing was in the foreground before the first one.
ShellInv ==
    /\ jobs \in Seq(Job)
    /\ awaited \in 0 .. Len(jobs)
    /\ shell \in {"calling", "waiting", "woken"} => awaited # 0
    /\ shell = "woken" /\ ~cut =>
         jobs[awaited].state # "running" /\ waitStatus = jobs[awaited].code
    /\ ExitCodeOfForeground

\* Every step of the shell and of its jobs keeps the exit code that of the foreground.
LEMMA ShellKept ==
    ASSUME ShellInv, [ShellNext]_shellVars
    PROVE  ShellInv'
  <1> SUFFICES ASSUME ShellNext PROVE ShellInv'
    BY DEF ShellInv, ExitCodeOfForeground, shellVars, waitVars
  <1>1. PICK n \in Nat : n = Len(jobs)
    BY LenProperties DEF ShellInv
  <1>2. /\ jobs \in Seq(Job) /\ awaited \in 0 .. n
        /\ shell \in {"calling", "waiting", "woken"} => awaited # 0
        /\ shell = "woken" /\ ~cut =>
             jobs[awaited].state # "running" /\ waitStatus = jobs[awaited].code
        /\ awaited = 0 => lastExit = 0
        /\ awaited # 0 /\ shell = "prompt" /\ ~cut =>
             jobs[awaited].state # "running" /\ lastExit = jobs[awaited].code
    BY <1>1 DEF ShellInv, ExitCodeOfForeground
  <1>3. DOMAIN jobs = 1 .. n /\ \A pid \in 1 .. n : jobs[pid] \in Job
    BY <1>1, <1>2, LenProperties, ElementOfSeq
  <1>4. ASSUME Unstarted PROVE ShellInv'
    BY <1>1, <1>2, <1>4 DEF Unstarted, waitVars, ShellInv, ExitCodeOfForeground
  <1>5. ASSUME NEW cmd, StartProgram(cmd), shell = "prompt" PROVE ShellInv'
    <2>1. PICK job \in Job : job = [state |-> "running", code |-> 0]
      BY DEF Job
    <2>2. jobs' = Append(jobs, job) /\ lastExit' = lastExit
      BY <1>5, <2>1 DEF StartProgram
    <2>3. /\ jobs' \in Seq(Job) /\ Len(jobs') = n + 1
          /\ \A pid \in 1 .. n : jobs'[pid] = jobs[pid]
      BY <1>1, <1>2, <2>2, AppendProperties
    <2>4. CASE cmd.background
      <3>1. shell' = shell /\ awaited' = awaited /\ cut' = cut
        BY <1>5, <2>4 DEF StartProgram
      <3>2. awaited \in 0 .. (n + 1) /\ (awaited # 0 => awaited \in 1 .. n)
        BY <1>2
      <3>3. QED
        BY <1>2, <1>5, <2>2, <2>3, <3>1, <3>2 DEF ShellInv, ExitCodeOfForeground
    <2>5. CASE ~cmd.background
      <3>1. shell' = "calling" /\ awaited' = n + 1
        BY <1>1, <1>5, <2>5 DEF StartProgram
      <3>2. n + 1 \in 0 .. (n + 1) /\ n + 1 # 0
        OBVIOUS
      <3>3. QED
        BY <2>3, <3>1, <3>2 DEF ShellInv, ExitCodeOfForeground
    <2>6. QED
      BY <2>4, <2>5
  <1>6. ASSUME ForkFails PROVE ShellInv'
    BY <1>1, <1>2, <1>6 DEF ForkFails, waitVars, ShellInv, ExitCodeOfForeground
  <1>7. ASSUME NEW line \in Lines, ExecuteCommandLine(line) PROVE ShellInv'
    <2>1. PICK cmd : /\ shell = "prompt"
                     /\ OtherCommand(cmd) \/ CmdCd(cmd) \/ ExternalCommand(cmd)
      BY <1>7 DEF ExecuteCommandLine
    <2>2. CASE OtherCommand(cmd) \/ CmdCd(cmd)
      BY <1>4, <2>2 DEF OtherCommand, CmdCd
    <2>3. CASE ExternalCommand(cmd)
      BY <1>5, <1>6, <2>1, <2>3 DEF ExternalCommand
    <2>4. QED
      BY <2>1, <2>2, <2>3
  <1>8. ASSUME NEW pid \in DOMAIN jobs, NEW job \in Job, jobs' = [jobs EXCEPT ![pid] = job]
        PROVE  /\ jobs' \in Seq(Job) /\ Len(jobs') = n /\ jobs'[pid] = job
               /\ \A q \in 1 .. n : q # pid => jobs'[q] = jobs[q]
    BY <1>1, <1>2, <1>3, <1>8, ExceptSeq
  <1>9. ASSUME NEW pid \in DOMAIN jobs, ProgramExits(pid) PROVE ShellInv'
    <2>1. PICK code \in ExitCodes :
            /\ jobs' = [jobs EXCEPT ![pid] = [state |-> "zombie", code |-> code]]
            /\ IF shell = "waiting" /\ awaited = pid
               THEN shell' = "woken" /\ waitStatus' = code
               ELSE UNCHANGED <<shell, waitStatus>>
      BY <1>9 DEF ProgramExits
    <2>2. jobs[pid].state = "running" /\ UNCHANGED <<lastExit, awaited, cut>>
      BY <1>9 DEF ProgramExits
    <2>3. PICK job \in Job : job = [state |-> "zombie", code |-> code]
      BY DEF Job
    <2>4. /\ jobs' \in Seq(Job) /\ Len(jobs') = n /\ jobs'[pid] = job
          /\ \A q \in 1 .. n : q # pid => jobs'[q] = jobs[q]
      BY <1>8, <2>1, <2>3
    <2>5. job.state = "zombie" /\ job.code = code
      BY <2>3
    <2>6. CASE shell = "waiting" /\ awaited = pid
      <3>1. shell' = "woken" /\ waitStatus' = code
        BY <2>1, <2>6
      <3>2. awaited # 0
        BY <1>2, <2>6
      <3>3. QED
        BY <1>2, <2>2, <2>4, <2>5, <2>6, <3>1, <3>2 DEF ShellInv, ExitCodeOfForeground
    <2>7. CASE ~(shell = "waiting" /\ awaited = pid)
      <3>1. UNCHANGED <<shell, waitStatus>>
        BY <2>1, <2>7
      <3>2. shell \in {"prompt", "woken"} /\ ~cut /\ awaited # 0 =>
              awaited # pid /\ awaited \in 1 .. n
        BY <1>2, <2>2
      <3>3. QED
        BY <1>2, <2>2, <2>4, <3>1, <3>2 DEF ShellInv, ExitCodeOfForeground
    <2>8. QED
      BY <2>6, <2>7
  <1>10. ASSUME ProcessWait PROVE ShellInv'
    <2>1. awaited \in 1 .. n /\ awaited' = awaited /\ cut' = cut /\ waitStatus' = waitStatus
      BY <1>2, <1>10 DEF ProcessWait, waitVars
    <2>2. CASE jobs[awaited].state = "zombie"
      <3>1. /\ lastExit' = jobs[awaited].code /\ shell' = "prompt"
            /\ jobs' = [jobs EXCEPT ![awaited].state = "collected"]
        BY <1>10, <2>2 DEF ProcessWait
      <3>2. PICK old \in Job : old = jobs[awaited]
        BY <1>3, <2>1
      <3>3. PICK job \in Job : job.state = "collected" /\ job.code = old.code
                               /\ job = [old EXCEPT !.state = "collected"]
        BY DEF Job
      <3>4. jobs' = [jobs EXCEPT ![awaited] = job]
        BY <3>1, <3>2, <3>3
      <3>5. jobs' \in Seq(Job) /\ Len(jobs') = n /\ jobs'[awaited] = job
        BY <1>3, <1>8, <2>1, <3>4
      <3>6. QED
        BY <2>1, <3>1, <3>2, <3>3, <3>5 DEF ShellInv, ExitCodeOfForeground
    <2>3. CASE jobs[awaited].state # "zombie"
      <3>1. shell' = "waiting" /\ UNCHANGED <<lastExit, jobs>>
        BY <1>10, <2>3 DEF ProcessWait
      <3>2. QED
        BY <1>1, <1>2, <2>1, <3>1 DEF ShellInv, ExitCodeOfForeground
    <2>4. QED
      BY <2>2, <2>3
  <1>11. ASSUME ShellContinued PROVE ShellInv'
    BY <1>1, <1>2, <1>11 DEF ShellContinued, ShellInv, ExitCodeOfForeground
  <1>12. ASSUME WaitReturns PROVE ShellInv'
    BY <1>1, <1>2, <1>12 DEF WaitReturns, waitVars, ShellInv, ExitCodeOfForeground
  <1>13. QED
    BY <1>7, <1>9, <1>10, <1>11, <1>12 DEF ShellNext

\* Whichever commands run and end in the background, last_exit_code is what the last
\* command in the foreground returned, unless SIGCONT ended the wait for it (process_exit,
\* process_kill, process_wait, execute_external_command).
THEOREM ExitCodeIsOfForeground == ShellSpec => []ExitCodeOfForeground
  <1>1. ShellInit => ShellInv
    BY EmptySeq DEF ShellInit, ShellInv, ExitCodeOfForeground
  <1>2. ShellInv => ExitCodeOfForeground
    BY DEF ShellInv
  <1>3. QED
    BY <1>1, <1>2, ShellKept, PTL DEF ShellSpec

-----------------------------------------------------------------------------
(***************************************************************************)
(* The profiler's call graph counts every frame of every sample, for every *)
(* number of samples and every depth of the stack: a graph Holds counts s  *)
(* (the frames with an address) and t (the same, and again those that are  *)
(* followed), and each frame moves it to the next counts.                  *)
(***************************************************************************)
\* The nodes of a call graph.
Node == [address : Callees, self : Nat, total : Nat]

\* A call graph whose nodes hold the counts s and t: one node for every address that
\* was counted, none for another.
Holds(graph, s, t) ==
    /\ graph \in Seq(Node)
    /\ \A m, n \in DOMAIN graph : graph[m].address = graph[n].address => m = n
    /\ \A n \in DOMAIN graph : /\ graph[n].self = s[graph[n].address]
                               /\ graph[n].total = t[graph[n].address]
    /\ \A a \in Callees : ~(\E n \in DOMAIN graph : graph[n].address = a) => s[a] = 0 /\ t[a] = 0

Counts == [Callees -> Nat]

\* A scan finds the only node of an address.
LEMMA FoundNode ==
    ASSUME NEW s \in Counts, NEW t \in Counts, NEW graph, Holds(graph, s, t),
           NEW n \in DOMAIN graph, NEW a, graph[n].address = a
    PROVE  NodeOf(graph, a) = n
  <1>1. graph \in Seq(Node) /\ DOMAIN graph = 1 .. Len(graph) /\ Len(graph) \in Nat
    BY LenProperties DEF Holds
  <1> DEFINE I == {i \in 1 .. Len(graph) : graph[i].address = a}
  <1>2. I = {n}
    BY <1>1 DEF Holds
  <1>3. Min(I) = n
    BY <1>1, <1>2 DEF Min
  <1>4. NodeOf(graph, a) = IF I # {} THEN Min(I) ELSE 0
    BY DEF NodeOf, SelectInSeq
  <1>5. QED
    BY <1>2, <1>3, <1>4

HasNode(graph, a) == \E n \in DOMAIN graph : graph[n].address = a

\* new has nodes for a and for addresses that graph has.
NoOther(new, graph, a) ==
    \A n \in DOMAIN new :
        new[n].address = a \/ \E m \in DOMAIN graph : new[n].address = graph[m].address

\* find_or_create_node adds a node for the address if there is none, and changes no count.
LEMMA FindOrCreateHolds ==
    ASSUME NEW s \in Counts, NEW t \in Counts, NEW graph, Holds(graph, s, t),
           NEW a \in Callees
    PROVE  /\ Holds(FindOrCreateNode(graph, a), s, t)
           /\ HasNode(FindOrCreateNode(graph, a), a)
           /\ NoOther(FindOrCreateNode(graph, a), graph, a)
  <1>0. PICK new : new = FindOrCreateNode(graph, a)
    OBVIOUS
  <1> SUFFICES /\ Holds(new, s, t)
               /\ \E n \in DOMAIN new : new[n].address = a
               /\ \A n \in DOMAIN new :
                     new[n].address = a \/ \E m \in DOMAIN graph : new[n].address = graph[m].address
    BY <1>0 DEF HasNode, NoOther
  <1>1. CASE \E n \in DOMAIN graph : graph[n].address = a
    BY <1>0, <1>1 DEF FindOrCreateNode
  <1>2. CASE ~ \E n \in DOMAIN graph : graph[n].address = a
    <2>1. PICK node : node = [address |-> a, self |-> 0, total |-> 0]
      OBVIOUS
    <2>2. node \in Node /\ node.address = a /\ node.self = 0 /\ node.total = 0
      BY <2>1 DEF Node
    <2>3. new = Append(graph, node)
      BY <1>0, <1>2, <2>1 DEF FindOrCreateNode
    <2>4. PICK k \in Nat : k = Len(graph)
      BY LenProperties DEF Holds
    <2>5. graph \in Seq(Node) /\ DOMAIN graph = 1 .. k
      BY <2>4, LenProperties DEF Holds
    <2>6. /\ new \in Seq(Node) /\ Len(new) = k + 1 /\ new[k + 1] = node
          /\ \A i \in 1 .. k : new[i] = graph[i]
      BY <2>2, <2>3, <2>4, <2>5, AppendProperties
    <2>7. DOMAIN new = 1 .. (k + 1)
      BY <2>6, LenProperties
    <2>8. s[a] = 0 /\ t[a] = 0
      BY <1>2 DEF Holds
    <2>9. \A i \in 1 .. k : graph[i].address # a
      BY <1>2, <2>5
    <2>10. \A m, n \in DOMAIN new : new[m].address = new[n].address => m = n
      <3>1. \A m, n \in 1 .. k : graph[m].address = graph[n].address => m = n
        BY <2>5 DEF Holds
      <3>2. ASSUME NEW m \in 1 .. (k + 1), NEW n \in 1 .. (k + 1), new[m].address = new[n].address
            PROVE  m = n
        <4>1. (m \in 1 .. k \/ m = k + 1) /\ (n \in 1 .. k \/ n = k + 1)
          OBVIOUS
        <4>2. QED
          BY <2>2, <2>6, <2>9, <3>1, <3>2, <4>1
      <3>3. QED
        BY <2>7, <3>2
    <2>11. ASSUME NEW n \in DOMAIN new
           PROVE  new[n].self = s[new[n].address] /\ new[n].total = t[new[n].address]
      <3>1. n \in 1 .. k \/ n = k + 1
        BY <2>7
      <3>2. CASE n \in 1 .. k
        BY <2>5, <2>6, <3>2 DEF Holds
      <3>3. CASE n = k + 1
        BY <2>2, <2>6, <2>8, <3>3
      <3>4. QED
        BY <3>1, <3>2, <3>3
    <2>12. ASSUME NEW b \in Callees, ~(\E n \in DOMAIN new : new[n].address = b)
           PROVE  s[b] = 0 /\ t[b] = 0
      <3>1. \A n \in DOMAIN graph : graph[n].address # b
        <4>1. ASSUME NEW n \in 1 .. k PROVE graph[n].address # b
          BY <2>6, <2>7, <2>12
        <4>2. QED
          BY <2>5, <4>1
      <3>2. QED
        BY <3>1 DEF Holds
    <2>13. k + 1 \in DOMAIN new /\ new[k + 1].address = a
      BY <2>2, <2>6, <2>7
    <2>14. Holds(new, s, t)
      BY <2>6, <2>10, <2>11, <2>12 DEF Holds
    <2>15. ASSUME NEW n \in DOMAIN new
           PROVE  new[n].address = a \/ \E m \in DOMAIN graph : new[n].address = graph[m].address
      BY <2>2, <2>5, <2>6, <2>7
    <2>16. QED
      BY <2>13, <2>14, <2>15
  <1>3. QED
    BY <1>1, <1>2

\* u is s with n more for a.
Adds(s, a, n, u) == u \in Counts /\ \A b \in Callees : u[b] = IF b = a THEN s[a] + n ELSE s[b]

NodeFor(a, u, v) == [address |-> a, self |-> u[a], total |-> v[a]]

\* graph with the counts u and v in node n, that of address a
Recounted(graph, n, a, u, v) == [graph EXCEPT ![n] = NodeFor(a, u, v)]

SameNodes(new, graph) ==
    DOMAIN new = DOMAIN graph /\ \A i \in DOMAIN new : new[i].address = graph[i].address

\* Counting in one node.
LEMMA CountHolds ==
    ASSUME NEW s \in Counts, NEW t \in Counts, NEW graph, Holds(graph, s, t),
           NEW n \in DOMAIN graph, NEW a, graph[n].address = a,
           NEW dx \in Nat, NEW u \in Counts, Adds(s, a, dx, u),
           NEW dy \in Nat, NEW v \in Counts, Adds(t, a, dy, v)
    PROVE  /\ Holds(Recounted(graph, n, a, u, v), u, v)
           /\ SameNodes(Recounted(graph, n, a, u, v), graph)
  <1>0. PICK new : new = Recounted(graph, n, a, u, v)
    OBVIOUS
  <1>1. PICK k \in Nat : k = Len(graph)
    BY LenProperties DEF Holds
  <1>2. graph \in Seq(Node) /\ DOMAIN graph = 1 .. k /\ n \in 1 .. k
    BY <1>1, LenProperties DEF Holds
  <1>3. \A i \in 1 .. k : graph[i] \in Node
    BY <1>1, <1>2, ElementOfSeq
  <1>4. a \in Callees
    BY <1>2, <1>3 DEF Node
  <1>5. /\ u \in Counts /\ \A b \in Callees : u[b] = IF b = a THEN s[a] + dx ELSE s[b]
        /\ v \in Counts /\ \A b \in Callees : v[b] = IF b = a THEN t[a] + dy ELSE t[b]
    BY DEF Adds
  <1>6. PICK node : node = NodeFor(a, u, v)
    OBVIOUS
  <1>7. node \in Node /\ node.address = a /\ node.self = u[a] /\ node.total = v[a]
    BY <1>4, <1>5, <1>6 DEF Node, NodeFor, Counts
  <1>9. /\ new \in Seq(Node) /\ Len(new) = k
        /\ \A i \in 1 .. k : new[i] = IF i = n THEN node ELSE graph[i]
    BY <1>1, <1>2, <1>6, <1>7, <1>0, ExceptSeq DEF Recounted
  <1>10. DOMAIN new = 1 .. k
    BY <1>9, LenProperties
  <1>11. \A i \in 1 .. k : new[i].address = graph[i].address /\ graph[i].address \in Callees
    BY <1>3, <1>7, <1>9 DEF Node
  <1>12. /\ \A i, j \in 1 .. k : graph[i].address = graph[j].address => i = j
         /\ \A i \in 1 .. k : /\ graph[i].self = s[graph[i].address]
                              /\ graph[i].total = t[graph[i].address]
         /\ \A b \in Callees : ~(\E i \in 1 .. k : graph[i].address = b) => s[b] = 0 /\ t[b] = 0
    BY <1>2 DEF Holds
  <1>13. \A i, j \in 1 .. k : new[i].address = new[j].address => i = j
    BY <1>11, <1>12
  <1>14. ASSUME NEW i \in 1 .. k
         PROVE  new[i].self = u[new[i].address] /\ new[i].total = v[new[i].address]
    <2>1. CASE i = n
      BY <1>7, <1>9, <2>1
    <2>2. CASE i # n
      <3>1. graph[i].address # a
        BY <1>2, <1>12, <2>2
      <3>2. QED
        BY <1>5, <1>9, <1>11, <1>12, <2>2, <3>1
    <2>3. QED
      BY <2>1, <2>2
  <1>15. ASSUME NEW b \in Callees, ~(\E i \in 1 .. k : new[i].address = b)
         PROVE  u[b] = 0 /\ v[b] = 0
    <2>1. ~(\E i \in 1 .. k : graph[i].address = b)
      BY <1>11, <1>15
    <2>2. b # a
      BY <1>2, <2>1
    <2>3. QED
      BY <1>5, <1>12, <2>1, <2>2
  <1>16. Holds(new, u, v)
    BY <1>9, <1>10, <1>13, <1>14, <1>15 DEF Holds
  <1>17. QED
    BY <1>0, <1>2, <1>10, <1>11, <1>16 DEF SameNodes

\* Every node has been counted.
Used(graph, s) == \A n \in DOMAIN graph : s[graph[n].address] # 0

OneSample(r) == [r EXCEPT !.self = @ + 1, !.total = @ + 1]
OneFrame(r)  == [r EXCEPT !.total = @ + 1]

\* A node with one more sample, and with one more frame that follows it.
LEMMA NodeCounted ==
    ASSUME NEW r \in Node, NEW a, r.address = a, NEW u, NEW v, v[a] = r.total + 1
    PROVE  /\ u[a] = r.self + 1 => OneSample(r) = NodeFor(a, u, v)
           /\ u[a] = r.self => OneFrame(r) = NodeFor(a, u, v)
  <1>1. r = [address |-> r.address, self |-> r.self, total |-> r.total]
    BY DEF Node
  <1>2. [r EXCEPT !.total = @ + 1]
            = [address |-> r.address, self |-> r.self, total |-> r.total + 1]
    BY <1>1
  <1>3. PICK q : q = [r EXCEPT !.self = @ + 1]
    OBVIOUS
  <1>4. q = [address |-> r.address, self |-> r.self + 1, total |-> r.total]
    BY <1>1, <1>3
  <1>5. PICK x, y, z : x = r.address /\ y = r.self + 1 /\ z = r.total
    OBVIOUS
  <1>6. [q EXCEPT !.total = @ + 1] = [address |-> x, self |-> y, total |-> z + 1]
    <2>1. q = [address |-> x, self |-> y, total |-> z]
      BY <1>4, <1>5
    <2>2. QED
      BY <2>1
  <1>7. [r EXCEPT !.self = @ + 1, !.total = @ + 1] = [q EXCEPT !.total = @ + 1]
    BY <1>3
  <1>8. PICK q2, q3 : /\ q2 = [r EXCEPT !.self = @ + 1, !.total = @ + 1]
                      /\ q3 = [r EXCEPT !.total = @ + 1]
    OBVIOUS
  <1>9. /\ q2 = [address |-> r.address, self |-> r.self + 1, total |-> r.total + 1]
        /\ q3 = [address |-> r.address, self |-> r.self, total |-> r.total + 1]
    <2>1. q2 = [address |-> x, self |-> y, total |-> z + 1]
      BY <1>6, <1>7, <1>8
    <2>2. q3 = [address |-> r.address, self |-> r.self, total |-> r.total + 1]
      BY <1>2, <1>8
    <2>3. QED
      BY <1>5, <2>1, <2>2
  <1>10. QED
    BY <1>8, <1>9 DEF NodeFor, OneSample, OneFrame

\* A node holds the counts of its address.
LEMMA NodeAt ==
    ASSUME NEW s, NEW t, NEW graph, Holds(graph, s, t), NEW n \in DOMAIN graph
    PROVE  /\ graph[n] \in Node /\ graph[n].address \in Callees
           /\ graph[n].self = s[graph[n].address] /\ graph[n].total = t[graph[n].address]
  <1>1. graph[n] \in Node
    BY ElementOfSeq, LenProperties DEF Holds
  <1>2. QED
    BY <1>1 DEF Holds, Node

\* Lines 112-123 count the frame itself, and once more the frame before it.
LEMMA FrameHolds ==
    ASSUME NEW s \in Counts, NEW t \in Counts, NEW graph, Holds(graph, s, t), Used(graph, s),
           NEW trace \in Seq(Callees), NEW j \in 1 .. Len(trace),
           j # 1 => s[trace[j - 1]] # 0,
           NEW u, Adds(s, trace[j], 1, u), NEW w, Adds(t, trace[j], 1, w),
           NEW v, IF j = 1 THEN v = w ELSE Adds(w, trace[j - 1], 1, v),
           NEW new, new = CountFrame(graph, trace, j)
    PROVE  Holds(new, u, v) /\ Used(new, u) /\ u \in Counts /\ v \in Counts
  <1>1. PICK a : a = trace[j]
    OBVIOUS
  <1>2. a \in Callees
    BY <1>1, ElementOfSeq
  <1>3. PICK own : own = FindOrCreateNode(graph, a)
    OBVIOUS
  <1>4. Holds(own, s, t) /\ HasNode(own, a) /\ NoOther(own, graph, a)
    BY <1>2, <1>3, FindOrCreateHolds
  <1>5. PICK me \in DOMAIN own : own[me].address = a
    BY <1>4 DEF HasNode
  <1>6. NodeOf(own, a) = me
    BY <1>4, <1>5, FoundNode
  <1>7. PICK mine : mine = [own EXCEPT ![me].self = @ + 1, ![me].total = @ + 1]
    OBVIOUS
  <1>9. PICK r : r = own[me]
    OBVIOUS
  <1>10. Adds(s, a, 1, u) /\ Adds(t, a, 1, w)
    BY <1>1
  <1>11. /\ u \in Counts /\ \A b \in Callees : u[b] = IF b = a THEN s[a] + 1 ELSE s[b]
         /\ w \in Counts /\ \A b \in Callees : w[b] = IF b = a THEN t[a] + 1 ELSE t[b]
    BY <1>10 DEF Adds
  <1>12. Holds(mine, u, w) /\ SameNodes(mine, own)
    <2>1. r \in Node /\ r.address = a /\ r.self = s[a] /\ r.total = t[a]
      BY <1>4, <1>5, <1>9, NodeAt
    <2>2. OneSample(r) = NodeFor(a, u, w)
      <3>1. u[a] = r.self + 1 /\ w[a] = r.total + 1
        BY <1>2, <1>11, <2>1
      <3>2. QED
        BY <2>1, <3>1, NodeCounted
    <2>3. mine = [own EXCEPT ![me] = OneSample(r)]
      BY <1>7, <1>9 DEF OneSample
    <2>4. mine = Recounted(own, me, a, u, w)
      BY <2>2, <2>3 DEF Recounted
    <2>5. Holds(own, s, t) /\ 1 \in Nat /\ u \in Counts /\ w \in Counts
      BY <1>4, <1>11
    <2>6. QED
      BY <1>5, <1>10, <2>4, <2>5, CountHolds
  <1>14. \A b \in Callees : s[b] \in Nat
    BY DEF Counts
  <1>15. Used(mine, u)
    <2> SUFFICES ASSUME NEW n \in DOMAIN mine PROVE u[mine[n].address] # 0
      BY DEF Used
    <2>1. mine[n].address \in Callees
      BY <1>12, NodeAt
    <2>2. mine[n].address = a \/ s[mine[n].address] # 0
      BY <1>4, <1>12 DEF Used, NoOther, SameNodes
    <2>3. QED
      BY <1>2, <1>11, <1>14, <2>1, <2>2
  <1>16. CASE j = 1
    <2>1. new = mine
      BY <1>1, <1>3, <1>6, <1>7, <1>16 DEF CountFrame
    <2>2. QED
      BY <1>11, <1>12, <1>15, <1>16, <2>1
  <1>17. CASE j # 1
    <2>1. PICK b : b = trace[j - 1]
      OBVIOUS
    <2>2. j - 1 \in 1 .. Len(trace)
      BY <1>17, LenProperties
    <2>3. b \in Callees
      BY <2>1, <2>2, ElementOfSeq
    <2>4. PICK both : both = FindOrCreateNode(mine, b)
      OBVIOUS
    <2>5. Holds(both, u, w) /\ HasNode(both, b) /\ NoOther(both, mine, b)
      BY <1>11, <1>12, <2>3, <2>4, FindOrCreateHolds
    <2>6. PICK before \in DOMAIN both : both[before].address = b
      BY <2>5 DEF HasNode
    <2>7. NodeOf(both, b) = before
      BY <1>11, <2>5, <2>6, FoundNode
    <2>8. new = [both EXCEPT ![before].total = @ + 1]
      BY <1>1, <1>3, <1>6, <1>7, <1>17, <2>1, <2>4, <2>7 DEF CountFrame
    <2>9. PICK r2 : r2 = both[before]
      OBVIOUS
    <2>10. Holds(both, u, w)
      BY <2>5
    <2>11. Adds(u, b, 0, u)
      BY <1>11, <2>3 DEF Counts, Adds
    <2>12. Adds(w, b, 1, v)
      BY <1>17, <2>1
    <2>13. new = Recounted(both, before, b, u, v)
      <3>1. r2 \in Node /\ r2.address = b /\ r2.self = u[b] /\ r2.total = w[b]
        BY <2>6, <2>9, <2>10, NodeAt
      <3>2. v[b] = w[b] + 1
        BY <2>3, <2>12 DEF Adds
      <3>3. OneFrame(r2) = NodeFor(b, u, v)
        BY <3>1, <3>2, NodeCounted
      <3>4. new = [both EXCEPT ![before] = OneFrame(r2)]
        BY <2>8, <2>9 DEF OneFrame
      <3>5. QED
        BY <3>3, <3>4 DEF Recounted
    <2>14. Holds(new, u, v) /\ v \in Counts /\ SameNodes(new, both)
      <3>1. 0 \in Nat /\ 1 \in Nat /\ u \in Counts /\ w \in Counts
        BY <1>11
      <3>2. v \in Counts
        BY <2>12 DEF Adds
      <3>3. QED
        BY <2>6, <2>10, <2>11, <2>12, <2>13, <3>1, <3>2, CountHolds
    <2>15. s[b] # 0
      BY <1>17, <2>1
    <2>16. u[b] # 0
      BY <1>2, <1>11, <1>14, <2>3, <2>15
    <2>17. Used(new, u)
      BY <1>15, <2>5, <2>14, <2>16 DEF Used, NoOther, SameNodes
    <2>18. QED
      BY <1>11, <2>14, <2>17
  <1>18. QED
    BY <1>16, <1>17

-----------------------------------------------------------------------------
Traces == {trace \in Seq(Callees) : Len(trace) <= MaxStackDepth}

\* The frames of the samples.
AllFrames ==
    {p \in (1 .. Len(samples)) \X (1 .. MaxStackDepth) : p[2] \in DOMAIN samples[p[1]]}

\* Those with an address among all frames of the traces before the i-th and the first
\* j of the i-th; and those of them that are followed by another of these frames.
CountedAt(a, i, j) ==
    {p \in AllFrames : /\ samples[p[1]][p[2]] = a
                       /\ p[1] < i \/ (p[1] = i /\ p[2] <= j)}
FollowedAt(a, i, j) ==
    {p \in AllFrames : /\ samples[p[1]][p[2]] = a
                       /\ p[2] < Len(samples[p[1]])
                       /\ p[1] < i \/ (p[1] = i /\ p[2] < j)}

Selves(i, j) == [a \in Callees |-> Cardinality(CountedAt(a, i, j))]
Totals(i, j) ==
    [a \in Callees |-> Cardinality(CountedAt(a, i, j)) + Cardinality(FollowedAt(a, i, j))]
\* between the two: the frame j is counted, that before it not yet again
HalfTotals(i, j) ==
    [a \in Callees |-> Cardinality(CountedAt(a, i, j)) + Cardinality(FollowedAt(a, i, j - 1))]

\* These sets are finite.
LEMMA FramesFinite ==
    ASSUME samples \in Seq(Traces), NEW a, NEW i, NEW j
    PROVE  /\ IsFiniteSet(CountedAt(a, i, j)) /\ Cardinality(CountedAt(a, i, j)) \in Nat
           /\ IsFiniteSet(FollowedAt(a, i, j)) /\ Cardinality(FollowedAt(a, i, j)) \in Nat
  <1>1. PICK n \in Nat : n = Len(samples)
    BY LenProperties
  <1>2. IsFiniteSet(1 .. n) /\ IsFiniteSet(1 .. MaxStackDepth)
    BY ProfilerAssumption, FS_Interval
  <1>3. IsFiniteSet((1 .. n) \X (1 .. MaxStackDepth))
    BY <1>2, FS_Product
  <1>4. /\ CountedAt(a, i, j) \subseteq (1 .. n) \X (1 .. MaxStackDepth)
        /\ FollowedAt(a, i, j) \subseteq (1 .. n) \X (1 .. MaxStackDepth)
    BY <1>1 DEF CountedAt, FollowedAt, AllFrames
  <1>5. QED
    BY <1>3, <1>4, FS_Subset, FS_CardinalityType

\* One frame more, with the address x after a frame with the address y.
OneMore(i, j, a, x, y) ==
    /\ <<i, j>> \notin CountedAt(a, i, j - 1)
    /\ a = x => CountedAt(a, i, j) = CountedAt(a, i, j - 1) \cup {<<i, j>>}
    /\ a # x => CountedAt(a, i, j) = CountedAt(a, i, j - 1)
    /\ <<i, j - 1>> \notin FollowedAt(a, i, j - 1)
    /\ j # 1 /\ a = y => FollowedAt(a, i, j) = FollowedAt(a, i, j - 1) \cup {<<i, j - 1>>}
    /\ ~(j # 1 /\ a = y) => FollowedAt(a, i, j) = FollowedAt(a, i, j - 1)

\* The frame j comes after the frame j - 1.
LEMMA OneFrameMore ==
    ASSUME samples \in Seq(Traces), NEW i \in 1 .. Len(samples), NEW j \in 1 .. Len(samples[i]), NEW a
    PROVE  OneMore(i, j, a, samples[i][j], samples[i][j - 1])
  <1>1. /\ samples[i] \in Seq(Callees) /\ Len(samples[i]) <= MaxStackDepth
        /\ MaxStackDepth \in Nat
    BY ElementOfSeq, ProfilerAssumption DEF Traces
  <1>2. PICK m \in Nat : m = Len(samples[i])
    BY <1>1, LenProperties
  <1>3. DOMAIN samples[i] = 1 .. m /\ j \in 1 .. m /\ i \in Nat
    BY <1>1, <1>2, LenProperties
  <1>4. PICK n \in Nat : n = Len(samples)
    BY LenProperties
  <1>5. /\ <<i, j>> \in AllFrames
        /\ j # 1 => <<i, j - 1>> \in AllFrames
    BY <1>1, <1>2, <1>3, <1>4 DEF AllFrames
  <1>6. \A p \in AllFrames : p = <<p[1], p[2]>> /\ p[1] \in Nat /\ p[2] \in Nat \ {0}
    BY <1>1, <1>4 DEF AllFrames
  <1>7. \A p \in AllFrames : (p[1] < i \/ (p[1] = i /\ p[2] <= j))
                                <=> (p[1] < i \/ (p[1] = i /\ p[2] <= j - 1)) \/ p = <<i, j>>
    BY <1>3, <1>6
  <1>8. \A p \in AllFrames : (p[1] < i \/ (p[1] = i /\ p[2] < j))
                                <=> (p[1] < i \/ (p[1] = i /\ p[2] < j - 1)) \/ p = <<i, j - 1>>
    BY <1>3, <1>6
  <1>9. /\ a = samples[i][j] =>
              CountedAt(a, i, j) = CountedAt(a, i, j - 1) \cup {<<i, j>>}
        /\ a # samples[i][j] => CountedAt(a, i, j) = CountedAt(a, i, j - 1)
    <2>1. CASE a = samples[i][j]
      <3>1. <<i, j>> \in CountedAt(a, i, j)
        BY <1>3, <1>5, <2>1 DEF CountedAt
      <3>2. \A p : p \in CountedAt(a, i, j) <=> p \in CountedAt(a, i, j - 1) \/ p = <<i, j>>
        BY <1>7, <3>1 DEF CountedAt
      <3>3. QED
        BY <2>1, <3>2
    <2>2. CASE a # samples[i][j]
      <3>1. \A p \in AllFrames : p = <<i, j>> => samples[p[1]][p[2]] = samples[i][j]
        OBVIOUS
      <3>2. \A p : p \in CountedAt(a, i, j) <=> p \in CountedAt(a, i, j - 1)
        BY <1>7, <2>2, <3>1 DEF CountedAt
      <3>3. QED
        BY <2>2, <3>2
    <2>3. QED
      BY <2>1, <2>2
  <1>10. /\ j # 1 /\ a = samples[i][j - 1] =>
               FollowedAt(a, i, j) = FollowedAt(a, i, j - 1) \cup {<<i, j - 1>>}
         /\ ~(j # 1 /\ a = samples[i][j - 1]) =>
               FollowedAt(a, i, j) = FollowedAt(a, i, j - 1)
    <2>1. j # 1 => j - 1 < Len(samples[i])
      BY <1>2, <1>3
    <2>2. j = 1 => <<i, j - 1>> \notin AllFrames
      BY <1>6
    <2>3. QED
      BY <1>5, <1>8, <2>1, <2>2 DEF FollowedAt
  <1>11. <<i, j>> \notin CountedAt(a, i, j - 1) /\ <<i, j - 1>> \notin FollowedAt(a, i, j - 1)
    BY <1>3 DEF CountedAt, FollowedAt
  <1>12. QED
    BY <1>9, <1>10, <1>11 DEF OneMore

\* ... is counted in its node, and again in that of the frame before it.
LEMMA FrameAdds ==
    ASSUME samples \in Seq(Traces), NEW i \in 1 .. Len(samples), NEW j \in 1 .. Len(samples[i])
    PROVE  /\ Selves(i, j - 1) \in Counts /\ Totals(i, j - 1) \in Counts
           /\ Adds(Selves(i, j - 1), samples[i][j], 1, Selves(i, j))
           /\ Adds(Totals(i, j - 1), samples[i][j], 1, HalfTotals(i, j))
           /\ IF j = 1 THEN Totals(i, j) = HalfTotals(i, j)
              ELSE Adds(HalfTotals(i, j), samples[i][j - 1], 1, Totals(i, j))
  <1>1. PICK k, x, y : k = j - 1 /\ x = samples[i][j] /\ y = samples[i][j - 1]
    OBVIOUS
  <1>2. \A a : /\ Cardinality(CountedAt(a, i, j)) \in Nat /\ Cardinality(CountedAt(a, i, k)) \in Nat
               /\ Cardinality(FollowedAt(a, i, j)) \in Nat /\ Cardinality(FollowedAt(a, i, k)) \in Nat
    BY FramesFinite
  <1>3. ASSUME NEW a
        PROVE  Cardinality(CountedAt(a, i, j)) =
                   Cardinality(CountedAt(a, i, k)) + (IF a = x THEN 1 ELSE 0)
    <2>1. PICK C, D, p : C = CountedAt(a, i, k) /\ D = CountedAt(a, i, j) /\ p = <<i, j>>
      OBVIOUS
    <2>2. IsFiniteSet(C)
      BY <2>1, FramesFinite
    <2>3. /\ p \notin C /\ (a = samples[i][j] => D = C \cup {p})
          /\ (a # samples[i][j] => D = C)
      <3>1. OneMore(i, j, a, samples[i][j], samples[i][j - 1])
        BY OneFrameMore
      <3>2. CountedAt(a, i, j - 1) = C
        BY <1>1, <2>1
      <3>3. QED
        BY <2>1, <3>1, <3>2, Zenon DEF OneMore
    <2>4. CASE a = x
      <3>1. D = C \cup {p} /\ p \notin C
        BY <1>1, <2>3, <2>4
      <3>2. Cardinality(D) = Cardinality(C) + 1
        BY <2>2, <3>1, FS_AddElement
      <3>3. QED
        BY <2>1, <2>4, <3>2
    <2>5. CASE a # x
      <3>1. D = C
        BY <1>1, <2>3, <2>5
      <3>2. QED
        BY <1>2, <2>1, <2>5, <3>1
    <2>6. QED
      BY <2>4, <2>5
  <1>4. ASSUME NEW a
        PROVE  Cardinality(FollowedAt(a, i, j)) =
                   Cardinality(FollowedAt(a, i, k)) + (IF j # 1 /\ a = y THEN 1 ELSE 0)
    <2>1. PICK C, D, p : /\ C = FollowedAt(a, i, k) /\ D = FollowedAt(a, i, j)
                         /\ p = <<i, j - 1>>
      OBVIOUS
    <2>2. IsFiniteSet(C)
      BY <2>1, FramesFinite
    <2>3. /\ p \notin C /\ (j # 1 /\ a = samples[i][j - 1] => D = C \cup {p})
          /\ (~(j # 1 /\ a = samples[i][j - 1]) => D = C)
      <3>1. OneMore(i, j, a, samples[i][j], samples[i][j - 1])
        BY OneFrameMore
      <3>2. FollowedAt(a, i, j - 1) = C
        BY <1>1, <2>1
      <3>3. QED
        BY <2>1, <3>1, <3>2, Zenon DEF OneMore
    <2>4. CASE j # 1 /\ a = y
      <3>1. D = C \cup {p} /\ p \notin C
        BY <1>1, <2>3, <2>4
      <3>2. Cardinality(D) = Cardinality(C) + 1
        BY <2>2, <3>1, FS_AddElement
      <3>3. QED
        BY <2>1, <2>4, <3>2
    <2>5. CASE ~(j # 1 /\ a = y)
      <3>1. D = C
        BY <1>1, <2>3, <2>5
      <3>2. QED
        BY <1>2, <2>1, <2>5, <3>1
    <2>6. QED
      BY <2>4, <2>5
  <1>5. PICK s0, s1, t0, w, t1 :
            /\ s0 = Selves(i, k) /\ s1 = Selves(i, j) /\ t0 = Totals(i, k)
            /\ w = HalfTotals(i, j) /\ t1 = Totals(i, j)
    OBVIOUS
  <1>6. s0 \in Counts /\ \A a \in Callees : s0[a] = Cardinality(CountedAt(a, i, k))
    BY <1>2, <1>5 DEF Selves, Counts
  <1>7. s1 \in Counts /\ \A a \in Callees : s1[a] = Cardinality(CountedAt(a, i, j))
    BY <1>2, <1>5 DEF Selves, Counts
  <1>8. t0 \in Counts /\ \A a \in Callees :
            t0[a] = Cardinality(CountedAt(a, i, k)) + Cardinality(FollowedAt(a, i, k))
    BY <1>2, <1>5 DEF Totals, Counts
  <1>9. w \in Counts /\ \A a \in Callees :
            w[a] = Cardinality(CountedAt(a, i, j)) + Cardinality(FollowedAt(a, i, k))
    BY <1>1, <1>2, <1>5 DEF HalfTotals, Counts
  <1>10. t1 \in Counts /\ \A a \in Callees :
            t1[a] = Cardinality(CountedAt(a, i, j)) + Cardinality(FollowedAt(a, i, j))
    BY <1>2, <1>5 DEF Totals, Counts
  <1>11. Adds(s0, x, 1, s1)
    <2>1. ASSUME NEW a \in Callees PROVE s1[a] = IF a = x THEN s0[x] + 1 ELSE s0[a]
      BY <1>2, <1>3, <1>6, <1>7
    <2>2. QED
      BY <1>7, <2>1 DEF Adds
  <1>12. Adds(t0, x, 1, w)
    <2>1. ASSUME NEW a \in Callees PROVE w[a] = IF a = x THEN t0[x] + 1 ELSE t0[a]
      BY <1>2, <1>3, <1>8, <1>9
    <2>2. QED
      BY <1>9, <2>1 DEF Adds
  <1>13. j # 1 => Adds(w, y, 1, t1)
    <2>1. ASSUME j # 1, NEW a \in Callees PROVE t1[a] = IF a = y THEN w[y] + 1 ELSE w[a]
      BY <1>2, <1>4, <1>9, <1>10, <2>1
    <2>2. QED
      BY <1>10, <2>1 DEF Adds
  <1>14. j = 1 => t1 = w
    <2>1. ASSUME j = 1, NEW a \in Callees PROVE t1[a] = w[a]
      BY <1>2, <1>4, <1>9, <1>10, <2>1
    <2>2. QED
      BY <1>9, <1>10, <2>1 DEF Counts
  <1>15. QED
    BY <1>1, <1>5, <1>6, <1>8, <1>11, <1>12, <1>13, <1>14
\* After the last frame of a trace comes the next trace; before the first nothing is counted.
LEMMA TraceEnds ==
    ASSUME samples \in Seq(Traces)
    PROVE  /\ \A i \in 1 .. Len(samples) :
                 /\ Selves(i, Len(samples[i])) = Selves(i + 1, 0)
                 /\ Totals(i, Len(samples[i])) = Totals(i + 1, 0)
           /\ \A a \in Callees : Selves(1, 0)[a] = 0 /\ Totals(1, 0)[a] = 0
           /\ \A i, j : Selves(i, j) \in Counts /\ Totals(i, j) \in Counts
  <1>1. PICK n \in Nat : n = Len(samples)
    BY LenProperties
  <1>2. \A p \in AllFrames : /\ p[1] \in 1 .. n /\ p[2] \in Nat \ {0}
                             /\ p[2] <= Len(samples[p[1]])
    <2> SUFFICES ASSUME NEW p \in AllFrames
                 PROVE  /\ p[1] \in 1 .. n /\ p[2] \in Nat \ {0}
                        /\ p[2] <= Len(samples[p[1]])
      OBVIOUS
    <2>1. p[1] \in 1 .. n /\ p[2] \in 1 .. MaxStackDepth /\ p[2] \in DOMAIN samples[p[1]]
      BY <1>1 DEF AllFrames
    <2>2. samples[p[1]] \in Seq(Callees)
      BY <1>1, <2>1, ElementOfSeq DEF Traces
    <2>3. DOMAIN samples[p[1]] = 1 .. Len(samples[p[1]]) /\ Len(samples[p[1]]) \in Nat
      BY <2>2, LenProperties
    <2>4. QED
      BY <2>1, <2>3, ProfilerAssumption
  <1>3. ASSUME NEW i \in 1 .. Len(samples), NEW a
        PROVE  /\ CountedAt(a, i, Len(samples[i])) = CountedAt(a, i + 1, 0)
               /\ FollowedAt(a, i, Len(samples[i])) = FollowedAt(a, i + 1, 0)
    <2>0. i \in 1 .. n
      BY <1>1
    <2>1. ASSUME NEW p \in AllFrames
          PROVE  /\ (p[1] < i \/ (p[1] = i /\ p[2] <= Len(samples[i])))
                       <=> (p[1] < i + 1 \/ (p[1] = i + 1 /\ p[2] <= 0))
                 /\ p[2] < Len(samples[p[1]]) =>
                       ((p[1] < i \/ (p[1] = i /\ p[2] < Len(samples[i])))
                          <=> (p[1] < i + 1 \/ (p[1] = i + 1 /\ p[2] < 0)))
      <3>1. p[1] \in 1 .. n /\ p[2] \in Nat \ {0} /\ p[2] <= Len(samples[p[1]])
        BY <1>2
      <3>2. p[1] = i => samples[p[1]] = samples[i]
        OBVIOUS
      <3>3. PICK l : l = Len(samples[p[1]])
        OBVIOUS
      <3>4. p[1] = i => l = Len(samples[i])
        BY <3>2, <3>3
      <3>5. CASE p[1] = i
        BY <2>0, <3>1, <3>3, <3>4, <3>5
      <3>6. CASE p[1] # i
        BY <2>0, <3>1, <3>6
      <3>7. QED
        BY <3>5, <3>6
    <2>2. QED
      BY <2>1 DEF CountedAt, FollowedAt
  <1>4. ASSUME NEW a PROVE CountedAt(a, 1, 0) = {} /\ FollowedAt(a, 1, 0) = {}
    <2>1. \A p \in AllFrames : ~(p[1] < 1) /\ ~(p[2] <= 0) /\ ~(p[2] < 0)
      BY <1>2
    <2>2. QED
      BY <2>1 DEF CountedAt, FollowedAt
  <1>5. ASSUME NEW i \in 1 .. Len(samples)
        PROVE  /\ Selves(i, Len(samples[i])) = Selves(i + 1, 0)
               /\ Totals(i, Len(samples[i])) = Totals(i + 1, 0)
    BY <1>3 DEF Selves, Totals
  <1>6. ASSUME NEW a \in Callees PROVE Selves(1, 0)[a] = 0 /\ Totals(1, 0)[a] = 0
    <2>1. Cardinality(CountedAt(a, 1, 0)) = 0 /\ Cardinality(FollowedAt(a, 1, 0)) = 0
      BY <1>4, FS_EmptySet
    <2>2. /\ Selves(1, 0)[a] = Cardinality(CountedAt(a, 1, 0))
          /\ Totals(1, 0)[a] = Cardinality(CountedAt(a, 1, 0)) + Cardinality(FollowedAt(a, 1, 0))
      BY DEF Selves, Totals
    <2>3. QED
      BY <2>1, <2>2
  <1>7. ASSUME NEW i, NEW j PROVE Selves(i, j) \in Counts /\ Totals(i, j) \in Counts
    <2>1. \A a : Cardinality(CountedAt(a, i, j)) \in Nat /\ Cardinality(FollowedAt(a, i, j)) \in Nat
      BY FramesFinite
    <2>2. \A a : Cardinality(CountedAt(a, i, j)) + Cardinality(FollowedAt(a, i, j)) \in Nat
      BY <2>1
    <2>3. QED
      BY <2>1, <2>2 DEF Selves, Totals, Counts
  <1>8. QED
    BY <1>5, <1>6, <1>7

\* The frame before has been counted.
LEMMA CountedNow ==
    ASSUME samples \in Seq(Traces), NEW i \in 1 .. Len(samples), NEW j \in 1 .. Len(samples[i])
    PROVE  Selves(i, j)[samples[i][j]] # 0
  <1>1. samples[i] \in Seq(Callees) /\ Len(samples[i]) <= MaxStackDepth /\ MaxStackDepth \in Nat
    BY ElementOfSeq, ProfilerAssumption DEF Traces
  <1>2. PICK m \in Nat : m = Len(samples[i])
    BY <1>1, LenProperties
  <1>3. PICK a : a = samples[i][j]
    OBVIOUS
  <1>4. a \in Callees /\ DOMAIN samples[i] = 1 .. m /\ j \in 1 .. m
    BY <1>1, <1>2, <1>3, ElementOfSeq, LenProperties
  <1>5. <<i, j>> \in CountedAt(a, i, j)
    BY <1>1, <1>2, <1>3, <1>4 DEF CountedAt, AllFrames
  <1>6. PICK C : C = CountedAt(a, i, j)
    OBVIOUS
  <1>7. IsFiniteSet(C) /\ C # {}
    BY <1>5, <1>6, FramesFinite
  <1>8. Cardinality(C) # 0
    BY <1>7, FS_EmptySet
  <1>9. Selves(i, j)[a] = Cardinality(C)
    BY <1>4, <1>6 DEF Selves
  <1>10. QED
    BY <1>3, <1>8, <1>9

-----------------------------------------------------------------------------
\* Counting(graph, trace, n, f): f holds the graphs while the first n frames are counted.
Counting(graph, trace, n, f) ==
    f = [k \in 0 .. n |-> IF k = 0 THEN graph ELSE CountFrame(f[k - 1], trace, k)]

\* One frame more.
LEMMA CountFurther ==
    ASSUME NEW graph, NEW trace, NEW n \in Nat, NEW f, Counting(graph, trace, n, f)
    PROVE  \E g : Counting(graph, trace, n + 1, g)
  <1> DEFINE g == [k \in 0 .. (n + 1) |-> IF k = n + 1 THEN CountFrame(f[n], trace, n + 1)
                                          ELSE f[k]]
             F(k) == IF k = 0 THEN graph ELSE CountFrame(g[k - 1], trace, k)
  <1>1. \A k \in 0 .. n : f[k] = IF k = 0 THEN graph ELSE CountFrame(f[k - 1], trace, k)
    BY DEF Counting
  <1>2. ASSUME NEW k \in 0 .. (n + 1) PROVE g[k] = F(k)
    <2>1. CASE k = n + 1
      <3>1. k - 1 = n /\ n \in 0 .. (n + 1) /\ n # n + 1 /\ k # 0
        BY <2>1
      <3>2. g[k - 1] = f[n]
        BY <3>1
      <3>3. g[k] = CountFrame(f[n], trace, n + 1)
        BY <2>1
      <3>4. QED
        BY <2>1, <3>1, <3>2, <3>3
    <2>2. CASE k = 0
      BY <1>1, <2>2
    <2>3. CASE k # 0 /\ k # n + 1
      <3>1. k \in 0 .. n /\ k - 1 \in 0 .. (n + 1) /\ k - 1 # n + 1
        BY <2>3
      <3>2. g[k - 1] = f[k - 1] /\ g[k] = f[k]
        BY <2>3, <3>1
      <3>3. f[k] = CountFrame(f[k - 1], trace, k)
        BY <1>1, <2>3, <3>1
      <3>4. QED
        BY <2>3, <3>2, <3>3
    <2>4. QED
      BY <2>1, <2>2, <2>3
  <1>3. g = [k \in 0 .. (n + 1) |-> F(k)]
    <2> HIDE DEF F
    <2>1. QED
      BY <1>2
  <1>4. Counting(graph, trace, n + 1, g)
    <2> HIDE DEF g
    <2>1. QED
      BY <1>3 DEF Counting
  <1>5. QED
    BY <1>4

\* f holds the graphs that n frames of trace lead to, and CountTrace gives the last.
TraceRun(graph, trace, n, f) ==
    /\ CountTrace(graph, trace) = f[n] /\ f[0] = graph
    /\ \A k \in 0 .. (n - 1) : f[k + 1] = CountFrame(f[k], trace, k + 1)

\* Counting a trace ends with the last of these graphs.
LEMMA CountedTrace ==
    ASSUME NEW graph, NEW trace, NEW n \in Nat, Len(trace) = n
    PROVE  \E f : TraceRun(graph, trace, n, f)
  <1> DEFINE Good == {m \in Nat : \E f : Counting(graph, trace, m, f)}
  <1>1. 0 \in Good
    <2> DEFINE z == [k \in 0 .. 0 |-> graph]
               F(k) == IF k = 0 THEN graph ELSE CountFrame(z[k - 1], trace, k)
    <2>1. \A k \in 0 .. 0 : z[k] = F(k)
      OBVIOUS
    <2>2. z = [k \in 0 .. 0 |-> F(k)]
      <3> HIDE DEF F
      <3>1. QED
        BY <2>1
    <2>3. Counting(graph, trace, 0, z)
      <3> HIDE DEF z
      <3>1. QED
        BY <2>2 DEF Counting
    <2>4. QED
      BY <2>3
  <1>2. \A m \in Good : m + 1 \in Good
    BY CountFurther
  <1>3. Good = Nat
    <2> HIDE DEF Good
    <2>1. Good \subseteq Nat
      BY DEF Good
    <2>2. QED
      BY <1>1, <1>2, <2>1, FromZero
  <1>4. \E f : Counting(graph, trace, n, f)
    BY <1>3
  <1>5. PICK f : f = CHOOSE g : Counting(graph, trace, n, g)
    OBVIOUS
  <1>6. Counting(graph, trace, n, f)
    BY <1>4, <1>5
  <1>7. CountTrace(graph, trace) = f[n]
    BY <1>5 DEF CountTrace, Counting
  <1>8. \A k \in 0 .. n : f[k] = IF k = 0 THEN graph ELSE CountFrame(f[k - 1], trace, k)
    BY <1>6 DEF Counting
  <1>9. f[0] = graph
    BY <1>8
  <1>10. ASSUME NEW k \in 0 .. (n - 1) PROVE f[k + 1] = CountFrame(f[k], trace, k + 1)
    <2>1. k + 1 \in 0 .. n /\ k + 1 # 0 /\ (k + 1) - 1 = k
      OBVIOUS
    <2>2. QED
      BY <1>8, <2>1
  <1>11. QED
    BY <1>7, <1>9, <1>10 DEF TraceRun

\* graph holds the counts of the traces before the i-th and of the first j frames of it.
Counted(graph, i, j) ==
    Holds(graph, Selves(i, j), Totals(i, j)) /\ Used(graph, Selves(i, j))

\* Counting a trace counts each of its frames.
LEMMA TraceCounted ==
    ASSUME samples \in Seq(Traces), NEW i \in 1 .. Len(samples), NEW graph, Counted(graph, i, 0)
    PROVE  Counted(CountTrace(graph, samples[i]), i + 1, 0)
  <1>1. PICK trace : trace = samples[i]
    OBVIOUS
  <1>2. trace \in Seq(Callees)
    BY <1>1, ElementOfSeq DEF Traces
  <1>3. PICK n \in Nat : n = Len(trace)
    BY <1>2, LenProperties
  <1>0. PICK f : TraceRun(graph, trace, n, f)
    BY <1>3, CountedTrace
  <1>4. /\ CountTrace(graph, trace) = f[n] /\ f[0] = graph
        /\ \A k \in 0 .. (n - 1) : f[k + 1] = CountFrame(f[k], trace, k + 1)
    BY <1>0 DEF TraceRun
  <1> DEFINE Good == {m \in Nat : m <= n => Counted(f[m], i, m)}
  <1>5. 0 \in Good
    BY <1>4
  <1>6. ASSUME NEW m \in Good PROVE m + 1 \in Good
    <2>0. m \in Nat
      OBVIOUS
    <2> SUFFICES ASSUME m + 1 <= n PROVE Counted(f[m + 1], i, m + 1)
      BY <2>0
    <2>1. PICK k : k = m + 1
      OBVIOUS
    <2>2. /\ k \in 1 .. Len(samples[i]) /\ k \in 1 .. Len(trace) /\ k - 1 = m
          /\ m \in 0 .. (n - 1)
      BY <1>1, <1>3, <2>0, <2>1
    <2>3. PICK u, v : u = f[m] /\ v = f[k]
      OBVIOUS
    <2>4. v = CountFrame(u, trace, k)
      BY <1>4, <2>1, <2>2, <2>3
    <2>5. PICK s0, s1, t0, w, t1 :
              /\ s0 = Selves(i, m) /\ s1 = Selves(i, k) /\ t0 = Totals(i, m)
              /\ w = HalfTotals(i, k) /\ t1 = Totals(i, k)
      OBVIOUS
    <2>6. Holds(u, s0, t0) /\ Used(u, s0)
      BY <2>0, <2>3, <2>5 DEF Counted
    <2>7. s0 \in Counts /\ t0 \in Counts
      BY <2>5, TraceEnds
    <2>8. /\ Adds(s0, trace[k], 1, s1) /\ Adds(t0, trace[k], 1, w)
          /\ k = 1 => t1 = w
          /\ k # 1 => Adds(w, trace[k - 1], 1, t1)
      BY <1>1, <2>2, <2>5, FrameAdds
    <2>9. k # 1 => s0[trace[k - 1]] # 0
      <3> SUFFICES ASSUME k # 1 PROVE s0[trace[m]] # 0
        BY <2>2
      <3>1. m \in 1 .. Len(samples[i])
        BY <1>1, <1>3, <2>1, <2>2
      <3>2. QED
        BY <1>1, <2>5, <3>1, CountedNow
    <2>10. Holds(v, s1, t1) /\ Used(v, s1)
      BY <1>2, <2>2, <2>4, <2>6, <2>7, <2>8, <2>9, FrameHolds
    <2>11. QED
      BY <2>1, <2>3, <2>5, <2>10 DEF Counted
  <1>7. Good = Nat
    <2> HIDE DEF Good
    <2>1. Good \subseteq Nat
      BY DEF Good
    <2>2. QED
      BY <1>5, <1>6, <2>1, FromZero
  <1>8. Counted(f[n], i, n)
    <2>1. n \in Good
      BY <1>7
    <2>2. QED
      BY <2>1
  <1>9. Counted(f[n], i + 1, 0)
    BY <1>1, <1>3, <1>8, TraceEnds DEF Counted
  <1>10. QED
    BY <1>1, <1>4, <1>9

\* Building(n, f): f holds the graphs while the first n samples are counted.
Building(n, f) ==
    f = [k \in 0 .. n |-> IF k = 0 THEN <<>> ELSE CountTrace(f[k - 1], samples[k])]

\* One sample more.
LEMMA BuildFurther ==
    ASSUME NEW n \in Nat, NEW f, Building(n, f)
    PROVE  \E g : Building(n + 1, g)
  <1> DEFINE g == [k \in 0 .. (n + 1) |-> IF k = n + 1 THEN CountTrace(f[n], samples[n + 1])
                                          ELSE f[k]]
             F(k) == IF k = 0 THEN <<>> ELSE CountTrace(g[k - 1], samples[k])
  <1>1. \A k \in 0 .. n : f[k] = IF k = 0 THEN <<>> ELSE CountTrace(f[k - 1], samples[k])
    BY DEF Building
  <1>2. ASSUME NEW k \in 0 .. (n + 1) PROVE g[k] = F(k)
    <2>1. CASE k = n + 1
      <3>1. k - 1 = n /\ n \in 0 .. (n + 1) /\ n # n + 1 /\ k # 0
        BY <2>1
      <3>2. g[k - 1] = f[n]
        BY <3>1
      <3>3. g[k] = CountTrace(f[n], samples[n + 1])
        BY <2>1
      <3>4. QED
        BY <2>1, <3>1, <3>2, <3>3
    <2>2. CASE k = 0
      BY <1>1, <2>2
    <2>3. CASE k # 0 /\ k # n + 1
      <3>1. k \in 0 .. n /\ k - 1 \in 0 .. (n + 1) /\ k - 1 # n + 1
        BY <2>3
      <3>2. g[k - 1] = f[k - 1] /\ g[k] = f[k]
        BY <2>3, <3>1
      <3>3. f[k] = CountTrace(f[k - 1], samples[k])
        BY <1>1, <2>3, <3>1
      <3>4. QED
        BY <2>3, <3>2, <3>3
    <2>4. QED
      BY <2>1, <2>2, <2>3
  <1>3. g = [k \in 0 .. (n + 1) |-> F(k)]
    <2> HIDE DEF F
    <2>1. QED
      BY <1>2
  <1>4. Building(n + 1, g)
    <2> HIDE DEF g
    <2>1. QED
      BY <1>3 DEF Building
  <1>5. QED
    BY <1>4

\* build_call_graph ends with the last of these graphs.
LEMMA BuiltGraph ==
    ASSUME NEW n \in Nat, Len(samples) = n
    PROVE  \E f : /\ BuildCallGraph = f[n] /\ f[0] = <<>>
                  /\ \A k \in 0 .. (n - 1) : f[k + 1] = CountTrace(f[k], samples[k + 1])
  <1> DEFINE Good == {m \in Nat : \E f : Building(m, f)}
  <1>1. 0 \in Good
    <2> DEFINE z == [k \in 0 .. 0 |-> <<>>]
               F(k) == IF k = 0 THEN <<>> ELSE CountTrace(z[k - 1], samples[k])
    <2>1. \A k \in 0 .. 0 : z[k] = F(k)
      OBVIOUS
    <2>2. z = [k \in 0 .. 0 |-> F(k)]
      <3> HIDE DEF F
      <3>1. QED
        BY <2>1
    <2>3. Building(0, z)
      <3> HIDE DEF z
      <3>1. QED
        BY <2>2 DEF Building
    <2>4. QED
      BY <2>3
  <1>2. \A m \in Good : m + 1 \in Good
    BY BuildFurther
  <1>3. Good = Nat
    <2> HIDE DEF Good
    <2>1. Good \subseteq Nat
      BY DEF Good
    <2>2. QED
      BY <1>1, <1>2, <2>1, FromZero
  <1>4. \E f : Building(n, f)
    BY <1>3
  <1>5. PICK f : f = CHOOSE g : Building(n, g)
    OBVIOUS
  <1>6. Building(n, f)
    BY <1>4, <1>5
  <1>7. BuildCallGraph = f[n]
    BY <1>5 DEF BuildCallGraph, Building
  <1>8. \A k \in 0 .. n : f[k] = IF k = 0 THEN <<>> ELSE CountTrace(f[k - 1], samples[k])
    BY <1>6 DEF Building
  <1>9. f[0] = <<>>
    BY <1>8
  <1>10. ASSUME NEW k \in 0 .. (n - 1) PROVE f[k + 1] = CountTrace(f[k], samples[k + 1])
    <2>1. k + 1 \in 0 .. n /\ k + 1 # 0 /\ (k + 1) - 1 = k
      OBVIOUS
    <2>2. QED
      BY <1>8, <2>1
  <1>11. QED
    BY <1>7, <1>9, <1>10


\* build_call_graph counts every frame of the samples.
LEMMA GraphBuilt ==
    ASSUME samples \in Seq(Traces)
    PROVE  Counted(BuildCallGraph, Len(samples) + 1, 0)
  <1>1. PICK n \in Nat : n = Len(samples)
    BY LenProperties
  <1>2. PICK f : /\ BuildCallGraph = f[n] /\ f[0] = <<>>
                 /\ \A k \in 0 .. (n - 1) : f[k + 1] = CountTrace(f[k], samples[k + 1])
    BY <1>1, BuiltGraph
  <1> DEFINE Good == {m \in Nat : m <= n => Counted(f[m], m + 1, 0)}
  <1>3. 0 \in Good
    <2>1. PICK z, s, t : z = <<>> /\ s = Selves(1, 0) /\ t = Totals(1, 0)
      OBVIOUS
    <2>2. \A a \in Callees : s[a] = 0 /\ t[a] = 0
      BY <2>1, TraceEnds
    <2>3. z \in Seq(Node) /\ DOMAIN z = {}
      BY <2>1
    <2>4. Holds(z, s, t) /\ Used(z, s)
      BY <2>2, <2>3 DEF Holds, Used
    <2>5. QED
      BY <1>2, <2>1, <2>4 DEF Counted
  <1>4. ASSUME NEW m \in Good PROVE m + 1 \in Good
    <2>0. m \in Nat
      OBVIOUS
    <2> SUFFICES ASSUME m + 1 <= n PROVE Counted(f[m + 1], (m + 1) + 1, 0)
      BY <2>0
    <2>1. PICK k : k = m + 1
      OBVIOUS
    <2>2. k \in 1 .. Len(samples) /\ m \in 0 .. (n - 1)
      BY <1>1, <2>0, <2>1
    <2>3. f[k] = CountTrace(f[m], samples[k])
      BY <1>2, <2>1, <2>2
    <2>4. Counted(f[m], k, 0)
      BY <2>0, <2>1
    <2>5. Counted(f[k], k + 1, 0)
      BY <2>2, <2>3, <2>4, TraceCounted
    <2>6. QED
      BY <2>1, <2>5
  <1>5. Good = Nat
    <2> HIDE DEF Good
    <2>1. Good \subseteq Nat
      BY DEF Good
    <2>2. QED
      BY <1>3, <1>4, <2>1, FromZero
  <1>6. n \in Good
    BY <1>5
  <1>7. QED
    BY <1>1, <1>2, <1>6

\* The samples are traces, and a finished call graph is built from them.
ProfilerInv ==
    /\ samples \in Seq(Traces)
    /\ profilerState = "COMPLETE" => callGraph = BuildCallGraph

\* What is captured is a trace.
LEMMA CapturedTraces ==
    ASSUME NEW chain \in Chains
    PROVE  Captured(chain) \subseteq Traces
  <1>1. chain \in Seq(Callees) /\ MaxStackDepth \in Nat
    BY ProfilerAssumption
  <1>2. PICK m \in Nat : m = Len(chain)
    BY <1>1, LenProperties
  <1>3. ASSUME NEW n \in 0 .. (IF m < MaxStackDepth THEN m ELSE MaxStackDepth)
        PROVE  SubSeq(chain, 1, n) \in Traces
    <2>1. n \in Nat /\ n <= m /\ n <= MaxStackDepth
      BY <1>1, <1>3
    <2>2. SubSeq(chain, 1, n) \in Seq(Callees) /\ Len(SubSeq(chain, 1, n)) = n
      BY <1>1, <1>2, <2>1, SubSeqProperties
    <2>3. QED
      BY <2>1, <2>2 DEF Traces
  <1>4. QED
    BY <1>2, <1>3 DEF Captured

\* A graph that counts all frames does what GraphCountsFrames asks.
LEMMA CountedIsRight ==
    ASSUME samples \in Seq(Traces), Counted(callGraph, Len(samples) + 1, 0)
    PROVE  GraphCountsFrames
  <1>1. PICK n \in Nat : n = Len(samples)
    BY LenProperties
  <1>2. PICK s, t : s = Selves(n + 1, 0) /\ t = Totals(n + 1, 0)
    OBVIOUS
  <1>3. Holds(callGraph, s, t) /\ Used(callGraph, s)
    BY <1>1, <1>2 DEF Counted
  <1> SUFFICES ASSUME NEW a \in Callees
               PROVE  LET nodes == {k \in DOMAIN callGraph : callGraph[k].address = a}
                          here  == Cardinality(FramesAt(a, TRUE))
                      IN  /\ Cardinality(nodes) = IF here = 0 THEN 0 ELSE 1
                          /\ \A k \in nodes :
                                /\ callGraph[k].self = here
                                /\ callGraph[k].total = here + Cardinality(FramesAt(a, FALSE))
    BY DEF GraphCountsFrames
  <1>4. \A p \in AllFrames : p[1] < n + 1
    BY <1>1 DEF AllFrames
  <1>5. FramesAt(a, TRUE) = CountedAt(a, n + 1, 0)
    BY <1>4 DEF FramesAt, CountedAt, AllFrames
  <1>6. FramesAt(a, FALSE) = FollowedAt(a, n + 1, 0)
    BY <1>4 DEF FramesAt, FollowedAt, AllFrames
  <1>7. PICK here, again, nodes :
            /\ here = Cardinality(FramesAt(a, TRUE)) /\ again = Cardinality(FramesAt(a, FALSE))
            /\ nodes = {k \in DOMAIN callGraph : callGraph[k].address = a}
    OBVIOUS
  <1>8. s[a] = here /\ t[a] = here + again
    BY <1>2, <1>5, <1>6, <1>7 DEF Selves, Totals
  <1>9. \A k \in nodes : callGraph[k].self = here /\ callGraph[k].total = here + again
    BY <1>3, <1>7, <1>8 DEF Holds
  <1>10. Cardinality(nodes) = IF here = 0 THEN 0 ELSE 1
    <2>1. CASE nodes = {}
      <3>1. here = 0
        BY <1>3, <1>7, <1>8, <2>1 DEF Holds
      <3>2. QED
        BY <2>1, <3>1, FS_EmptySet
    <2>2. CASE nodes # {}
      <3>1. PICK k \in nodes : TRUE
        BY <2>2
      <3>2. nodes = {k}
        BY <1>3, <1>7, <3>1 DEF Holds
      <3>3. here # 0
        BY <1>3, <1>7, <1>8, <3>1 DEF Used
      <3>4. QED
        BY <3>2, <3>3, FS_Singleton
    <2>3. QED
      BY <2>1, <2>2
  <1>11. QED
    BY <1>7, <1>9, <1>10

\* The finished call graph has one node for every address that was sampled, with the
\* number of its frames and of those that are followed, for every number of samples and
\* every depth of the stack (build_call_graph, find_or_create_node).
THEOREM GraphCounts == ProfilerSpec => []GraphCountsFrames
  <1>1. ProfilerInit => ProfilerInv
    BY DEF ProfilerInit, ProfilerInv
  <1>2. ProfilerInv /\ [ProfilerNext]_profilerVars => ProfilerInv'
    <2> SUFFICES ASSUME ProfilerInv, [ProfilerNext]_profilerVars PROVE ProfilerInv'
      OBVIOUS
    <2>1. samples' = samples => BuildCallGraph' = BuildCallGraph
      BY DEF BuildCallGraph
    <2>2. samples' = samples => samples' \in Seq(Traces)
      BY DEF ProfilerInv
    <2>3. CASE StartProfiling
      BY <2>2, <2>3 DEF StartProfiling, ProfilerInv
    <2>4. CASE SampleStackTrace
      <3>1. PICK chain \in Chains : \E trace \in Captured(chain) : samples' = Append(samples, trace)
        BY <2>4 DEF SampleStackTrace
      <3>2. PICK trace \in Traces : samples' = Append(samples, trace)
        BY <3>1, CapturedTraces
      <3>3. samples' \in Seq(Traces)
        BY <3>2, AppendProperties DEF ProfilerInv
      <3>4. profilerState' # "COMPLETE"
        BY <2>4 DEF SampleStackTrace
      <3>5. QED
        BY <3>3, <3>4 DEF ProfilerInv
    <2>5. CASE StopProfiling
      BY <2>1, <2>2, <2>5 DEF StopProfiling, ProfilerInv
    <2>6. CASE UNCHANGED profilerVars
      BY <2>1, <2>2, <2>6 DEF profilerVars, ProfilerInv
    <2>7. QED
      BY <2>3, <2>4, <2>5, <2>6 DEF ProfilerNext
  <1>3. ProfilerInv => GraphCountsFrames
    <2> SUFFICES ASSUME ProfilerInv, profilerState = "COMPLETE" PROVE GraphCountsFrames
      BY DEF GraphCountsFrames
    <2>1. QED
      BY GraphBuilt, CountedIsRight DEF ProfilerInv
  <1>4. QED
    BY <1>1, <1>2, <1>3, PTL DEF ProfilerSpec

-----------------------------------------------------------------------------
(***************************************************************************)
(* Command lines mean what they say, for every line.  What is parsed after *)
(* n tokens (ParsedTo) lists the words and the pipes up to n in their      *)
(* order, and has the files of the latest redirections; a token moves it   *)
(* to n + 1.                                                               *)
(***************************************************************************)
\* The token k is a sign of a redirection.
Sign(t, k) == t[k] \in Redirections

\* The tokens k - n .. k - 1 are the redirection signs directly before k.
Run(t, k, n) ==
    /\ n \in 0 .. (k - 1)
    /\ \A i \in (k - n) .. (k - 1) : Sign(t, i)
    /\ k - n - 1 > 0 => ~Sign(t, k - n - 1)

\* There are some.
LEMMA RunExists ==
    ASSUME NEW t, NEW k \in Nat, k # 0
    PROVE  \E n : Run(t, k, n)
  <1> DEFINE Good == {m \in Nat : \E n : Run(t, m + 1, n)}
  <1>1. 0 \in Good
    <2>1. Run(t, 1, 0)
      BY DEF Run
    <2>2. QED
      BY <2>1
  <1>2. ASSUME NEW m \in Good PROVE m + 1 \in Good
    <2>1. m \in Nat
      OBVIOUS
    <2>2. PICK n : Run(t, m + 1, n)
      OBVIOUS
    <2>3. CASE Sign(t, m + 1)
      <3>1. Run(t, (m + 1) + 1, n + 1)
        BY <2>1, <2>2, <2>3 DEF Run
      <3>2. QED
        BY <2>1, <3>1
    <2>4. CASE ~Sign(t, m + 1)
      <3>1. Run(t, (m + 1) + 1, 0)
        BY <2>1, <2>4 DEF Run
      <3>2. QED
        BY <2>1, <3>1
    <2>5. QED
      BY <2>3, <2>4
  <1>3. Good = Nat
    <2> HIDE DEF Good
    <2>1. Good \subseteq Nat
      BY DEF Good
    <2>2. QED
      BY <1>1, <1>2, <2>1, FromZero
  <1>4. k - 1 \in Good
    BY <1>3
  <1>5. QED
    BY <1>4

\* There are no two such numbers.
LEMMA RunUnique ==
    ASSUME NEW t, NEW k \in Nat, NEW m, Run(t, k, m), NEW n, Run(t, k, n)
    PROVE  m = n
  <1>1. m \in 0 .. (k - 1) /\ n \in 0 .. (k - 1)
    BY DEF Run
  <1>2. ~(m < n)
    <2> SUFFICES ASSUME m < n PROVE FALSE
      OBVIOUS
    <2>1. k - m - 1 \in (k - n) .. (k - 1) /\ k - m - 1 > 0
      BY <1>1
    <2>2. QED
      BY <2>1 DEF Run
  <1>3. ~(n < m)
    <2> SUFFICES ASSUME n < m PROVE FALSE
      OBVIOUS
    <2>1. k - n - 1 \in (k - m) .. (k - 1) /\ k - n - 1 > 0
      BY <1>1
    <2>2. QED
      BY <2>1 DEF Run
  <1>4. QED
    BY <1>1, <1>2, <1>3

\* A token is a redirection when it is a sign and the one before is no redirection.
LEMMA RedirectionAfter ==
    ASSUME NEW t, NEW k \in Nat, k # 0
    PROVE  IsRedirection(t, k) <=> Sign(t, k) /\ (k > 1 => ~IsRedirection(t, k - 1))
  <1>1. IsRedirection(t, k) <=> Sign(t, k) /\ \E n : Run(t, k, n) /\ n % 2 = 0
    BY DEF IsRedirection, Run, Sign
  <1>2. CASE k = 1
    <2>1. Run(t, 1, 0) /\ 0 % 2 = 0
      BY DEF Run
    <2>2. QED
      BY <1>1, <1>2, <2>1
  <1>3. CASE k > 1 /\ ~Sign(t, k - 1)
    <2>1. Run(t, k, 0) /\ 0 % 2 = 0
      BY <1>3 DEF Run
    <2>2. ~IsRedirection(t, k - 1)
      BY <1>3 DEF IsRedirection, Sign
    <2>3. QED
      BY <1>1, <2>1, <2>2
  <1>4. CASE k > 1 /\ Sign(t, k - 1)
    <2>1. IsRedirection(t, k - 1) <=> \E n : Run(t, k - 1, n) /\ n % 2 = 0
      BY <1>4 DEF IsRedirection, Run, Sign
    <2>2. PICK n : Run(t, k - 1, n)
      BY <1>4, RunExists
    <2>3. n \in Nat
      BY <2>2, <1>4 DEF Run
    <2>4. Run(t, k, n + 1)
      BY <1>4, <2>2 DEF Run
    <2>5. IsRedirection(t, k - 1) <=> n % 2 = 0
      BY <1>4, <2>1, <2>2, RunUnique
    <2>6. IsRedirection(t, k) <=> Sign(t, k) /\ (n + 1) % 2 = 0
      BY <1>1, <2>4, RunUnique
    <2>7. (n + 1) % 2 = 0 <=> ~(n % 2 = 0)
      BY <2>3
    <2>8. QED
      BY <1>4, <2>5, <2>6, <2>7
  <1>5. QED
    BY <1>2, <1>3, <1>4

-----------------------------------------------------------------------------
Upto(S, n) == S \cap (0 .. n)

\* seq lists the values of the members of S up to n in their order.
Lists(seq, S, n, val) ==
    /\ Len(seq) = Cardinality(Upto(S, n))
    /\ \A k \in Upto(S, n) : seq[Cardinality(Upto(S, k))] = val[k]

\* There are finitely many.
LEMMA UptoFinite ==
    ASSUME NEW S, NEW n \in Nat
    PROVE  IsFiniteSet(Upto(S, n)) /\ Cardinality(Upto(S, n)) \in Nat
  <1>1. Upto(S, n) \subseteq 0 .. n
    BY DEF Upto
  <1>2. IsFiniteSet(0 .. n)
    BY FS_Interval
  <1>3. QED
    BY <1>1, <1>2, FS_Subset, FS_CardinalityType

\* One position more.
LEMMA ListsMore ==
    ASSUME NEW S, NEW n \in Nat, NEW V, NEW seq \in Seq(V), NEW val,
           Lists(seq, S, n, val)
    PROVE  /\ n + 1 \notin S => Lists(seq, S, n + 1, val)
           /\ n + 1 \in S /\ val[n + 1] \in V =>
                 Lists(Append(seq, val[n + 1]), S, n + 1, val)
  <1>1. CASE n + 1 \notin S
    <2>1. Upto(S, n + 1) = Upto(S, n)
      BY <1>1 DEF Upto
    <2>2. QED
      BY <1>1, <2>1 DEF Lists
  <1>2. ASSUME n + 1 \in S, val[n + 1] \in V
        PROVE  Lists(Append(seq, val[n + 1]), S, n + 1, val)
    <2>1. PICK U, W, m : U = Upto(S, n) /\ W = Upto(S, n + 1) /\ m = Cardinality(U)
      OBVIOUS
    <2>2. IsFiniteSet(U) /\ m \in Nat /\ n + 1 \notin U /\ W = U \cup {n + 1}
      <3>1. IsFiniteSet(U) /\ m \in Nat
        BY <2>1, UptoFinite
      <3>2. 0 .. (n + 1) = (0 .. n) \cup {n + 1} /\ n + 1 \notin 0 .. n
        OBVIOUS
      <3>3. QED
        BY <1>2, <2>1, <3>1, <3>2 DEF Upto
    <2>3. Cardinality(W) = m + 1
      BY <2>1, <2>2, FS_AddElement
    <2>4. PICK new, v : new = Append(seq, v) /\ v = val[n + 1]
      OBVIOUS
    <2>5. Len(seq) = m /\ \A k \in U : seq[Cardinality(Upto(S, k))] = val[k]
      BY <2>1 DEF Lists
    <2>6. Len(new) = m + 1 /\ new[m + 1] = v /\ \A i \in 1 .. m : new[i] = seq[i]
      BY <1>2, <2>4, <2>5, AppendProperties
    <2>7. ASSUME NEW k \in W PROVE new[Cardinality(Upto(S, k))] = val[k]
      <3>1. CASE k = n + 1
        BY <2>1, <2>3, <2>4, <2>6, <3>1
      <3>2. CASE k \in U
        <4>1. PICK K, c : K = Upto(S, k) /\ c = Cardinality(K)
          OBVIOUS
        <4>2. k \in Nat /\ k \in S /\ k <= n
          BY <2>1, <3>2 DEF Upto
        <4>3. K \subseteq U /\ k \in K
          BY <2>1, <4>1, <4>2 DEF Upto
        <4>4. IsFiniteSet(K) /\ c \in Nat
          BY <4>1, <4>2, UptoFinite
        <4>5. c <= m
          BY <2>1, <2>2, <4>1, <4>3, FS_Subset
        <4>6. c # 0
          BY <4>1, <4>3, <4>4, FS_EmptySet
        <4>7. new[c] = seq[c]
          BY <2>2, <2>6, <4>4, <4>5, <4>6
        <4>8. QED
          BY <2>5, <3>2, <4>1, <4>7
      <3>3. QED
        BY <2>2, <3>1, <3>2
    <2>8. QED
      BY <2>1, <2>3, <2>4, <2>6, <2>7 DEF Lists
  <1>3. QED
    BY <1>1, <1>2

-----------------------------------------------------------------------------
\* The word that the redirections of a kind before the token n leave.
FilesTo(t, n, kinds) == {k \in 1 .. (n - 1) : IsRedirection(t, k) /\ t[k] \in kinds}
LatestOf(at) == CHOOSE k \in at : \A i \in at : i <= k
Latest(t, n, kinds) ==
    IF FilesTo(t, n, kinds) = {} THEN <<None, None>>
    ELSE <<t[LatestOf(FilesTo(t, n, kinds))], t[LatestOf(FilesTo(t, n, kinds)) + 1]>>

\* After the whole line it is the one the line means.
LEMMA LatestIsLastFile ==
    ASSUME NEW t, NEW kinds
    PROVE  LastFile(t, kinds) = Latest(t, Len(t), kinds)
  BY DEF LastFile, Latest, FilesTo, LatestOf

\* One token more.
LEMMA LatestMore ==
    ASSUME NEW t, NEW n \in Nat, NEW kinds
    PROVE  /\ ~(n # 0 /\ IsRedirection(t, n) /\ t[n] \in kinds) =>
                 Latest(t, n + 1, kinds) = Latest(t, n, kinds)
           /\ n # 0 /\ IsRedirection(t, n) /\ t[n] \in kinds =>
                 Latest(t, n + 1, kinds) = <<t[n], t[n + 1]>>
  <1>1. PICK old, new : old = FilesTo(t, n, kinds) /\ new = FilesTo(t, n + 1, kinds)
    OBVIOUS
  <1>2. CASE ~(n # 0 /\ IsRedirection(t, n) /\ t[n] \in kinds)
    <2>1. new = old
      BY <1>1, <1>2 DEF FilesTo
    <2>2. QED
      BY <1>1, <1>2, <2>1 DEF Latest
  <1>3. CASE n # 0 /\ IsRedirection(t, n) /\ t[n] \in kinds
    <2>1. n \in new /\ \A k \in new : k \in Nat /\ k <= n
      BY <1>1, <1>3 DEF FilesTo
    <2>2. LatestOf(new) \in new /\ \A i \in new : i <= LatestOf(new)
      BY <2>1 DEF LatestOf
    <2>3. LatestOf(new) = n
      <3>1. PICK k : k = LatestOf(new)
        OBVIOUS
      <3>2. k \in Nat /\ k <= n /\ n <= k
        BY <2>1, <2>2, <3>1
      <3>3. QED
        BY <3>1, <3>2
    <2>4. QED
      BY <1>1, <1>3, <2>1, <2>3 DEF Latest
  <1>4. QED
    BY <1>2, <1>3

-----------------------------------------------------------------------------
\* how many words are before each token
WordsBefore(t) == [k \in DOMAIN t |-> Cardinality(Upto(Words(t), k - 1))]

Outputs == {">", ">>"}
Inputs  == {"<"}
PendingAt(t, n) == IF n # 0 /\ IsRedirection(t, n) THEN t[n] ELSE None

\* What the fields of a command are after n tokens.
CommandAt(argv, pipes, from, to, append, t, n) ==
    /\ argv \in Seq(Tokens) /\ Lists(argv, Words(t), n, t)
    /\ pipes \in Seq(Nat) /\ Lists(pipes, Bars(t), n, WordsBefore(t))
    /\ from = Latest(t, n, Inputs)[2]
    /\ to = Latest(t, n, Outputs)[2]
    /\ append = (Latest(t, n, Outputs)[1] = ">>")

Cmd(argv, pipes, from, to, append) ==
    [argv |-> argv, pipes |-> pipes, input |-> from, output |-> to,
     append |-> append, background |-> FALSE]
Parse(cmd, pending) == [cmd |-> cmd, pending |-> pending]

ParsedTo(p, t, n) ==
    \E argv, pipes, from, to, append :
        /\ p = Parse(Cmd(argv, pipes, from, to, append), PendingAt(t, n))
        /\ CommandAt(argv, pipes, from, to, append, t, n)

\* A token in its place
LEMMA FreeIs ==
    ASSUME NEW t \in Seq(Tokens), NEW n \in Nat, n < Len(t)
    PROVE  /\ PendingAt(t, n) # None => n + 1 \notin Words(t) /\ n + 1 \notin Bars(t)
           /\ t[n + 1] \in Redirections => n + 1 \notin Words(t) /\ n + 1 \notin Bars(t)
           /\ PendingAt(t, n) = None /\ t[n + 1] \notin Redirections =>
                 IF t[n + 1] = "|" THEN n + 1 \in Bars(t) /\ n + 1 \notin Words(t)
                 ELSE n + 1 \in Words(t) /\ n + 1 \notin Bars(t)
           /\ PendingAt(t, n) # None =>
                 n # 0 /\ IsRedirection(t, n) /\ t[n] \in Redirections /\ PendingAt(t, n) = t[n]
           /\ PendingAt(t, n) = None => ~(n # 0 /\ IsRedirection(t, n))
           /\ PendingAt(t, n + 1) =
                 IF PendingAt(t, n) = None /\ t[n + 1] \in Redirections THEN t[n + 1] ELSE None
  <1>1. /\ n + 1 \in DOMAIN t /\ t[n + 1] \in Tokens /\ n + 1 \in Nat /\ n + 1 # 0
        /\ n # 0 => t[n] \in Tokens
    BY LenProperties, ElementOfSeq
  <1>2. \A k \in Nat \ {0} : IsRedirection(t, k) => t[k] \in Redirections
    BY DEF IsRedirection
  <1>3. IsRedirection(t, n + 1) <=>
            t[n + 1] \in Redirections /\ (n # 0 => ~IsRedirection(t, n))
    <2>1. (n + 1 > 1 <=> n # 0) /\ (n + 1) - 1 = n
      OBVIOUS
    <2>2. IsRedirection(t, n + 1) <=>
              Sign(t, n + 1) /\ (n + 1 > 1 => ~IsRedirection(t, (n + 1) - 1))
      BY <1>1, RedirectionAfter
    <2>3. QED
      BY <2>1, <2>2 DEF Sign
  <1>4. n # 0 /\ IsRedirection(t, n) <=> PendingAt(t, n) # None
    BY <1>1, LineAssumption DEF PendingAt
  <1>5. n + 1 \in Free(t) <=> ~IsRedirection(t, n + 1) /\ (n # 0 => ~IsRedirection(t, n))
    <2>1. (n + 1 > 1 <=> n # 0) /\ (n + 1) - 1 = n
      OBVIOUS
    <2>2. QED
      BY <1>1, <2>1 DEF Free
  <1>6. /\ n + 1 \in Words(t) <=> n + 1 \in Free(t) /\ t[n + 1] # "|"
        /\ n + 1 \in Bars(t) <=> n + 1 \in Free(t) /\ t[n + 1] = "|"
    BY DEF Words, Bars
  <1>7. PendingAt(t, n + 1) = IF IsRedirection(t, n + 1) THEN t[n + 1] ELSE None
    BY DEF PendingAt
  <1>8. PendingAt(t, n) # None => PendingAt(t, n) = t[n] /\ t[n] \in Redirections
    BY <1>2, <1>4 DEF PendingAt
  <1>9. QED
    BY <1>3, <1>4, <1>5, <1>6, <1>7, <1>8

\* What the token x does to a command with the fields argv ..., after pending.
Effect(new, argv, pipes, from, to, append, pending, x) ==
    /\ pending = "<" /\ pending # None =>
          new = Parse(Cmd(argv, pipes, x, to, append), None)
    /\ pending \in Outputs /\ pending # None =>
          new = Parse(Cmd(argv, pipes, from, x, pending = ">>"), None)
    /\ pending = None /\ x \in Redirections =>
          new = Parse(Cmd(argv, pipes, from, to, append), x)
    /\ pending = None /\ x \notin Redirections /\ x = "|" /\ Len(pipes) < MaxPipes =>
          new = Parse(Cmd(argv, Append(pipes, Len(argv)), from, to, append), None)
    /\ pending = None /\ x \notin Redirections /\ x # "|" =>
          new = Parse(Cmd(Append(argv, x), pipes, from, to, append), None)

\* One token, with room for arguments; a pipe with room for it.
LEMMA TokenParsed ==
    ASSUME NEW argv, NEW pipes, NEW from, NEW to, NEW append, NEW pending, NEW token,
           Len(argv) \in Nat, Len(argv) < MaxArgs - 1, Len(pipes) \in Nat,
           NEW p, p = Parse(Cmd(argv, pipes, from, to, append), pending)
    PROVE  Effect(ParseToken(p, token), argv, pipes, from, to, append, pending, token)
  <1>1. PICK cmd : cmd = Cmd(argv, pipes, from, to, append)
    OBVIOUS
  <1>2. p = [cmd |-> cmd, pending |-> pending] /\ p.cmd = cmd /\ p.pending = pending
    BY <1>1 DEF Parse
  <1>3. cmd = [argv |-> argv, pipes |-> pipes, input |-> from, output |-> to,
               append |-> append, background |-> FALSE]
    BY <1>1 DEF Cmd
  <1>4. cmd.argv = argv /\ ~(Len(cmd.argv) >= MaxArgs - 1)
    BY <1>3, LineAssumption
  <1>5. ASSUME pending # None
        PROVE  ParseToken(p, token) = Parse(Redirect(cmd, pending, token), None)
    BY <1>2, <1>5 DEF ParseToken, Parse
  <1>6. ASSUME pending = "<"
        PROVE  Redirect(cmd, pending, token) = Cmd(argv, pipes, token, to, append)
    BY <1>3, <1>6 DEF Redirect, Cmd
  <1>7. ASSUME pending \in Outputs
        PROVE  Redirect(cmd, pending, token) = Cmd(argv, pipes, from, token, pending = ">>")
    <2>1. PICK more : more = (pending = ">>")
      OBVIOUS
    <2>2. pending # "<"
      BY <1>7 DEF Outputs
    <2>3. Redirect(cmd, pending, token) = [cmd EXCEPT !.output = token, !.append = more]
      BY <2>1, <2>2 DEF Redirect
    <2>4. QED
      BY <1>3, <2>1, <2>3 DEF Cmd
  <1>8. ASSUME pending = None, token \in Redirections
        PROVE  ParseToken(p, token) = Parse(cmd, token)
    <2>1. ParseToken(p, token) = [p EXCEPT !.pending = token]
      BY <1>2, <1>4, <1>8 DEF ParseToken
    <2>2. QED
      BY <1>2, <2>1 DEF Parse
  <1>9. ASSUME pending = None, token \notin Redirections, token = "|", Len(pipes) < MaxPipes
        PROVE  ParseToken(p, token) = Parse(Cmd(argv, Append(pipes, Len(argv)), from, to, append), None)
    <2>1. PICK more : more = Append(pipes, Len(argv))
      OBVIOUS
    <2>2. PICK new : new = [cmd EXCEPT !.pipes = more]
      OBVIOUS
    <2>3. WithPipe(cmd) = new
      <3>1. cmd.pipes = pipes /\ cmd.argv = argv
        BY <1>3
      <3>2. PICK over : over = Len(pipes) - MaxPipes
        OBVIOUS
      <3>3. over \notin {1, 2} /\ over \notin {3, 4} /\ over # 5
        BY <1>9, <3>2, PipesAssumption
      <3>4. new = [cmd EXCEPT !.pipes = Append(@, Len(cmd.argv))]
        BY <2>1, <2>2, <3>1
      <3>5. QED
        BY <3>1, <3>2, <3>3, <3>4 DEF WithPipe
    <2>4. ParseToken(p, token) = [p EXCEPT !.cmd = WithPipe(cmd)]
      BY <1>2, <1>4, <1>9 DEF ParseToken
    <2>5. ParseToken(p, token) = [cmd |-> new, pending |-> pending]
      BY <1>2, <2>3, <2>4
    <2>6. new = Cmd(argv, more, from, to, append)
      BY <1>3, <2>2 DEF Cmd
    <2>7. QED
      BY <1>9, <2>1, <2>5, <2>6 DEF Parse
  <1>10. ASSUME pending = None, token \notin Redirections, token # "|"
         PROVE  ParseToken(p, token) = Parse(Cmd(Append(argv, token), pipes, from, to, append), None)
    <2>1. PICK more : more = Append(argv, token)
      OBVIOUS
    <2>2. ParseToken(p, token) = [p EXCEPT !.cmd.argv = Append(@, token)]
      BY <1>2, <1>4, <1>10 DEF ParseToken
    <2>3. ParseToken(p, token) = [p EXCEPT !.cmd.argv = more]
      BY <1>2, <1>3, <1>4, <2>1, <2>2
    <2>4. PICK new : new = [cmd EXCEPT !.argv = more]
      OBVIOUS
    <2>5. ParseToken(p, token) = [cmd |-> new, pending |-> pending]
      BY <1>2, <2>3, <2>4
    <2>6. new = Cmd(more, pipes, from, to, append)
      BY <1>3, <2>4 DEF Cmd
    <2>7. QED
      BY <1>10, <2>1, <2>5, <2>6 DEF Parse
  <1>11. QED
    BY <1>1, <1>5, <1>6, <1>7, <1>8, <1>9, <1>10 DEF Effect

\* One token more, in a line whose words and pipes fit.
LEMMA ParsedMore ==
    ASSUME NEW t \in Seq(Tokens), NEW n \in Nat, n < Len(t),
           Cardinality(Words(t)) < MaxArgs - 1, Cardinality(Bars(t)) <= MaxPipes,
           NEW p, ParsedTo(p, t, n)
    PROVE  ParsedTo(ParseToken(p, t[n + 1]), t, n + 1)
  <1>1. PICK argv, pipes, from, to, append :
            /\ p = Parse(Cmd(argv, pipes, from, to, append), PendingAt(t, n))
            /\ CommandAt(argv, pipes, from, to, append, t, n)
    BY DEF ParsedTo
  <1>2. PICK x, q, new : x = t[n + 1] /\ q = PendingAt(t, n) /\ new = ParseToken(p, x)
    OBVIOUS
  <1>3. /\ argv \in Seq(Tokens) /\ Lists(argv, Words(t), n, t)
        /\ pipes \in Seq(Nat) /\ Lists(pipes, Bars(t), n, WordsBefore(t))
        /\ from = Latest(t, n, Inputs)[2]
        /\ to = Latest(t, n, Outputs)[2]
        /\ append = (Latest(t, n, Outputs)[1] = ">>")
    BY <1>1 DEF CommandAt
  <1>4. PICK l \in Nat : l = Len(argv)
    BY <1>3, LenProperties
  <1>5. l = Cardinality(Upto(Words(t), n)) /\ l < MaxArgs - 1
    <2>1. l = Cardinality(Upto(Words(t), n))
      BY <1>3, <1>4 DEF Lists
    <2>2. PICK W, U : W = Words(t) /\ U = Upto(Words(t), n)
      OBVIOUS
    <2>3. U \subseteq W
      BY <2>2 DEF Upto
    <2>4. IsFiniteSet(W)
      <3>1. PICK N \in Nat : N = Len(t)
        BY LenProperties
      <3>2. W \subseteq 1 .. N
        BY <2>2, <3>1, LenProperties DEF Words, Free
      <3>3. IsFiniteSet(1 .. N)
        BY FS_Interval
      <3>4. QED
        BY <3>2, <3>3, FS_Subset
    <2>5. Cardinality(U) <= Cardinality(W) /\ Cardinality(W) \in Nat
      BY <2>3, <2>4, FS_Subset, FS_CardinalityType
    <2>6. QED
      BY <2>1, <2>2, <2>5, LineAssumption
  <1>6. x \in Tokens /\ n + 1 \in DOMAIN t
    BY <1>2, ElementOfSeq, LenProperties
  <1>7. /\ q # None => n + 1 \notin Words(t) /\ n + 1 \notin Bars(t)
        /\ x \in Redirections => n + 1 \notin Words(t) /\ n + 1 \notin Bars(t)
        /\ q = None /\ x \notin Redirections =>
              IF x = "|" THEN n + 1 \in Bars(t) /\ n + 1 \notin Words(t)
              ELSE n + 1 \in Words(t) /\ n + 1 \notin Bars(t)
        /\ q # None => n # 0 /\ IsRedirection(t, n) /\ t[n] \in Redirections /\ q = t[n]
        /\ q = None => ~(n # 0 /\ IsRedirection(t, n))
        /\ PendingAt(t, n + 1) = IF q = None /\ x \in Redirections THEN x ELSE None
    BY <1>2, FreeIs
  <1>8. p = Parse(Cmd(argv, pipes, from, to, append), q)
    BY <1>1, <1>2
  <1>9. /\ n + 1 \notin Words(t) => Lists(argv, Words(t), n + 1, t)
        /\ n + 1 \in Words(t) => Lists(Append(argv, x), Words(t), n + 1, t)
    BY <1>2, <1>3, <1>6, ListsMore
  <1>10. /\ n + 1 \notin Bars(t) => Lists(pipes, Bars(t), n + 1, WordsBefore(t))
         /\ n + 1 \in Bars(t) => Lists(Append(pipes, l), Bars(t), n + 1, WordsBefore(t))
    <2>1. PICK val : val = WordsBefore(t)
      OBVIOUS
    <2>2. val[n + 1] = l
      <3>1. (n + 1) - 1 = n
        OBVIOUS
      <3>2. QED
        BY <1>5, <1>6, <2>1, <3>1 DEF WordsBefore
    <2>3. QED
      BY <1>3, <2>1, <2>2, ListsMore
  <1>11. Effect(new, argv, pipes, from, to, append, q, x)
    <2>1. Len(pipes) \in Nat
      BY <1>3, LenProperties
    <2>2. QED
      BY <1>2, <1>4, <1>5, <1>8, <2>1, TokenParsed
  <1>12. SUFFICES ParsedTo(new, t, n + 1)
    BY <1>2
  <1>13. CASE q # None /\ q = "<"
    <2>1. new = Parse(Cmd(argv, pipes, x, to, append), None)
      BY <1>4, <1>11, <1>13 DEF Effect
    <2>2. Latest(t, n + 1, Inputs)[2] = x
      <3>1. t[n] \in Inputs
        BY <1>7, <1>13 DEF Inputs
      <3>2. Latest(t, n + 1, Inputs) = <<t[n], t[n + 1]>>
        BY <1>7, <1>13, <3>1, LatestMore
      <3>3. QED
        BY <1>2, <3>2
    <2>3. Latest(t, n + 1, Outputs) = Latest(t, n, Outputs)
      <3>1. t[n] \notin Outputs
        BY <1>7, <1>13 DEF Outputs
      <3>2. QED
        BY <3>1, LatestMore
    <2>4. CommandAt(argv, pipes, x, to, append, t, n + 1)
      BY <1>3, <1>7, <1>9, <1>10, <1>13, <2>2, <2>3 DEF CommandAt
    <2>5. PendingAt(t, n + 1) = None
      BY <1>7, <1>13
    <2>6. QED
      BY <2>1, <2>4, <2>5 DEF ParsedTo
  <1>14. CASE q # None /\ q # "<"
    <2>1. q \in Outputs
      BY <1>7, <1>14 DEF Outputs, Redirections
    <2>2. PICK more : more = (q = ">>")
      OBVIOUS
    <2>3. new = Parse(Cmd(argv, pipes, from, x, more), None)
      BY <1>4, <1>11, <1>14, <2>1, <2>2 DEF Effect
    <2>4. Latest(t, n + 1, Outputs)[2] = x /\ more = (Latest(t, n + 1, Outputs)[1] = ">>")
      <3>1. t[n] \in Outputs
        BY <1>7, <1>14, <2>1
      <3>2. Latest(t, n + 1, Outputs) = <<t[n], t[n + 1]>>
        BY <1>7, <1>14, <3>1, LatestMore
      <3>3. Latest(t, n + 1, Outputs)[1] = q /\ Latest(t, n + 1, Outputs)[2] = x
        BY <1>2, <1>7, <1>14, <3>2
      <3>4. QED
        BY <2>2, <3>3
    <2>5. Latest(t, n + 1, Inputs) = Latest(t, n, Inputs)
      <3>1. t[n] \notin Inputs
        BY <1>7, <1>14 DEF Inputs
      <3>2. QED
        BY <3>1, LatestMore
    <2>6. CommandAt(argv, pipes, from, x, more, t, n + 1)
      BY <1>3, <1>7, <1>9, <1>10, <1>14, <2>4, <2>5 DEF CommandAt
    <2>7. PendingAt(t, n + 1) = None
      BY <1>7, <1>14
    <2>8. QED
      BY <2>3, <2>6, <2>7 DEF ParsedTo
  <1>15. CASE q = None
    <2>1. /\ Latest(t, n + 1, Inputs) = Latest(t, n, Inputs)
          /\ Latest(t, n + 1, Outputs) = Latest(t, n, Outputs)
      BY <1>7, <1>15, LatestMore
    <2>2. CASE x \in Redirections
      <3>1. new = Parse(Cmd(argv, pipes, from, to, append), x)
        BY <1>4, <1>11, <1>15, <2>2 DEF Effect
      <3>2. CommandAt(argv, pipes, from, to, append, t, n + 1)
        BY <1>3, <1>7, <1>9, <1>10, <2>1, <2>2 DEF CommandAt
      <3>3. PendingAt(t, n + 1) = x
        BY <1>7, <1>15, <2>2
      <3>4. QED
        BY <3>1, <3>2, <3>3 DEF ParsedTo
    <2>3. CASE x \notin Redirections /\ x = "|"
      <3>0. Len(pipes) < MaxPipes
        <4>1. PICK B, U : B = Bars(t) /\ U = Upto(Bars(t), n)
          OBVIOUS
        <4>2. U \subseteq B /\ n + 1 \in B /\ n + 1 \notin U
          BY <1>7, <1>15, <2>3, <4>1 DEF Upto
        <4>3. IsFiniteSet(B)
          <5>1. PICK N \in Nat : N = Len(t)
            BY LenProperties
          <5>2. B \subseteq 1 .. N
            BY <4>1, <5>1, LenProperties DEF Bars, Free
          <5>3. IsFiniteSet(1 .. N)
            BY FS_Interval
          <5>4. QED
            BY <5>2, <5>3, FS_Subset
        <4>4. /\ Cardinality(U) <= Cardinality(B) /\ Cardinality(U) # Cardinality(B)
              /\ Cardinality(B) \in Nat /\ Cardinality(U) \in Nat
          BY <4>2, <4>3, FS_Subset, FS_CardinalityType
        <4>5. Len(pipes) = Cardinality(U) /\ Cardinality(B) <= MaxPipes
          BY <1>3, <4>1 DEF Lists
        <4>6. QED
          BY <4>4, <4>5, PipesAssumption
      <3>1. PICK more : more = Append(pipes, l)
        OBVIOUS
      <3>2. new = Parse(Cmd(argv, more, from, to, append), None)
        BY <1>4, <1>11, <1>15, <2>3, <3>0, <3>1 DEF Effect
      <3>3. more \in Seq(Nat)
        BY <1>3, <3>1, AppendProperties
      <3>4. CommandAt(argv, more, from, to, append, t, n + 1)
        BY <1>3, <1>7, <1>9, <1>10, <1>15, <2>1, <2>3, <3>1, <3>3 DEF CommandAt
      <3>5. PendingAt(t, n + 1) = None
        BY <1>7, <2>3
      <3>6. QED
        BY <3>2, <3>4, <3>5 DEF ParsedTo
    <2>4. CASE x \notin Redirections /\ x # "|"
      <3>1. PICK more : more = Append(argv, x)
        OBVIOUS
      <3>2. new = Parse(Cmd(more, pipes, from, to, append), None)
        BY <1>4, <1>11, <1>15, <2>4, <3>1 DEF Effect
      <3>3. more \in Seq(Tokens)
        BY <1>3, <1>6, <3>1, AppendProperties
      <3>4. CommandAt(more, pipes, from, to, append, t, n + 1)
        BY <1>3, <1>7, <1>9, <1>10, <1>15, <2>1, <2>4, <3>1, <3>3 DEF CommandAt
      <3>5. PendingAt(t, n + 1) = None
        BY <1>7, <2>4
      <3>6. QED
        BY <3>2, <3>4, <3>5 DEF ParsedTo
    <2>5. QED
      BY <2>2, <2>3, <2>4
  <1>16. QED
    BY <1>13, <1>14, <1>15

-----------------------------------------------------------------------------
EmptyParse == Parse(Cmd(<<>>, <<>>, None, None, FALSE), None)

\* ParsingOf(t, n, f): f holds what is parsed while the first n tokens are read.
ParsingOf(t, n, f) ==
    f = [k \in 0 .. n |-> IF k = 0 THEN EmptyParse ELSE ParseToken(f[k - 1], t[k])]

\* One token more.
LEMMA ParseFurther ==
    ASSUME NEW t, NEW n \in Nat, NEW f, ParsingOf(t, n, f)
    PROVE  \E g : ParsingOf(t, n + 1, g)
  <1> DEFINE g == [k \in 0 .. (n + 1) |-> IF k = n + 1 THEN ParseToken(f[n], t[n + 1]) ELSE f[k]]
             F(k) == IF k = 0 THEN EmptyParse ELSE ParseToken(g[k - 1], t[k])
  <1>1. \A k \in 0 .. n : f[k] = IF k = 0 THEN EmptyParse ELSE ParseToken(f[k - 1], t[k])
    BY DEF ParsingOf
  <1>2. ASSUME NEW k \in 0 .. (n + 1) PROVE g[k] = F(k)
    <2>1. CASE k = n + 1
      <3>1. k - 1 = n /\ n \in 0 .. (n + 1) /\ n # n + 1 /\ k # 0
        BY <2>1
      <3>2. g[k - 1] = f[n]
        BY <3>1
      <3>3. g[k] = ParseToken(f[n], t[n + 1])
        BY <2>1
      <3>4. QED
        BY <2>1, <3>1, <3>2, <3>3
    <2>2. CASE k = 0
      BY <1>1, <2>2
    <2>3. CASE k # 0 /\ k # n + 1
      <3>1. k \in 0 .. n /\ k - 1 \in 0 .. (n + 1) /\ k - 1 # n + 1
        BY <2>3
      <3>2. g[k - 1] = f[k - 1] /\ g[k] = f[k]
        BY <2>3, <3>1
      <3>3. f[k] = ParseToken(f[k - 1], t[k])
        BY <1>1, <2>3, <3>1
      <3>4. QED
        BY <2>3, <3>2, <3>3
    <2>4. QED
      BY <2>1, <2>2, <2>3
  <1>3. g = [k \in 0 .. (n + 1) |-> F(k)]
    <2> HIDE DEF F
    <2>1. QED
      BY <1>2
  <1>4. ParsingOf(t, n + 1, g)
    <2> HIDE DEF g
    <2>1. QED
      BY <1>3 DEF ParsingOf
  <1>5. QED
    BY <1>4

\* parse_command_line ends with the last of these.
LEMMA ParsedLine ==
    ASSUME NEW t, NEW n \in Nat, Len(t) = n
    PROVE  \E f : /\ ParseCommandLine(t, FALSE) = f[n].cmd /\ f[0] = EmptyParse
                  /\ \A k \in 0 .. (n - 1) : f[k + 1] = ParseToken(f[k], t[k + 1])
  <1> DEFINE Good == {m \in Nat : \E f : ParsingOf(t, m, f)}
  <1>1. 0 \in Good
    <2> DEFINE z == [k \in 0 .. 0 |-> EmptyParse]
               F(k) == IF k = 0 THEN EmptyParse ELSE ParseToken(z[k - 1], t[k])
    <2>1. \A k \in 0 .. 0 : z[k] = F(k)
      OBVIOUS
    <2>2. z = [k \in 0 .. 0 |-> F(k)]
      <3> HIDE DEF F
      <3>1. QED
        BY <2>1
    <2>3. ParsingOf(t, 0, z)
      <3> HIDE DEF z
      <3>1. QED
        BY <2>2 DEF ParsingOf
    <2>4. QED
      BY <2>3
  <1>2. \A m \in Good : m + 1 \in Good
    BY ParseFurther
  <1>3. Good = Nat
    <2> HIDE DEF Good
    <2>1. Good \subseteq Nat
      BY DEF Good
    <2>2. QED
      BY <1>1, <1>2, <2>1, FromZero
  <1>4. \E f : ParsingOf(t, n, f)
    BY <1>3
  <1>5. PICK f : f = CHOOSE g : ParsingOf(t, n, g)
    OBVIOUS
  <1>6. ParsingOf(t, n, f)
    BY <1>4, <1>5
  <1>7. ParseCommandLine(t, FALSE) = f[n].cmd
    <2>1. [cmd |-> [NoCommand EXCEPT !.background = FALSE], pending |-> None] = EmptyParse
      <3>1. PICK e, cmd : e = <<>> /\ cmd = [NoCommand EXCEPT !.background = FALSE]
        OBVIOUS
      <3>2. NoCommand = [argv |-> e, pipes |-> e, input |-> None, output |-> None,
                         append |-> FALSE, background |-> FALSE]
        BY <3>1 DEF NoCommand
      <3>3. cmd = Cmd(e, e, None, None, FALSE)
        BY <3>1, <3>2 DEF Cmd
      <3>4. QED
        BY <3>1, <3>3 DEF EmptyParse, Parse
    <2>2. QED
      BY <1>5, <2>1 DEF ParseCommandLine, ParsingOf
  <1>8. \A k \in 0 .. n : f[k] = IF k = 0 THEN EmptyParse ELSE ParseToken(f[k - 1], t[k])
    BY <1>6 DEF ParsingOf
  <1>9. f[0] = EmptyParse
    BY <1>8
  <1>10. ASSUME NEW k \in 0 .. (n - 1) PROVE f[k + 1] = ParseToken(f[k], t[k + 1])
    <2>1. k + 1 \in 0 .. n /\ k + 1 # 0 /\ (k + 1) - 1 = k
      OBVIOUS
    <2>2. QED
      BY <1>8, <2>1
  <1>11. QED
    BY <1>7, <1>9, <1>10

\* Before the first token
LEMMA ParsedNothing ==
    ASSUME NEW t \in Seq(Tokens)
    PROVE  ParsedTo(EmptyParse, t, 0)
  <1>1. PICK N \in Nat : N = Len(t)
    BY LenProperties
  <1>2. Words(t) \subseteq 1 .. N /\ Bars(t) \subseteq 1 .. N
    BY <1>1, LenProperties DEF Words, Bars, Free
  <1>3. Upto(Words(t), 0) = {} /\ Upto(Bars(t), 0) = {}
    BY <1>2 DEF Upto
  <1>4. PICK e, val : e = <<>> /\ val = WordsBefore(t)
    OBVIOUS
  <1>5. e \in Seq(Tokens) /\ e \in Seq(Nat) /\ Len(e) = 0
    BY <1>4, EmptySeq
  <1>6. Lists(e, Words(t), 0, t) /\ Lists(e, Bars(t), 0, val)
    BY <1>3, <1>5, FS_EmptySet DEF Lists
  <1>7. /\ Latest(t, 0, Inputs) = <<None, None>> /\ Latest(t, 0, Outputs) = <<None, None>>
    BY DEF Latest, FilesTo
  <1>8. None # ">>"
    BY LineAssumption DEF Redirections
  <1>9. CommandAt(e, e, None, None, FALSE, t, 0)
    BY <1>4, <1>5, <1>6, <1>7, <1>8 DEF CommandAt
  <1>10. PendingAt(t, 0) = None
    BY DEF PendingAt
  <1>11. EmptyParse = Parse(Cmd(e, e, None, None, FALSE), None)
    BY <1>4 DEF EmptyParse
  <1>12. QED
    BY <1>9, <1>10, <1>11 DEF ParsedTo

\* A line of fewer words and no more pipes than fit is parsed to its end.
LEMMA LineParsed ==
    ASSUME NEW t \in Seq(Tokens),
           Cardinality(Words(t)) < MaxArgs - 1, Cardinality(Bars(t)) <= MaxPipes
    PROVE  \E p : ParseCommandLine(t, FALSE) = p.cmd /\ ParsedTo(p, t, Len(t))
  <1>1. PICK n \in Nat : n = Len(t)
    BY LenProperties
  <1>2. PICK f : /\ ParseCommandLine(t, FALSE) = f[n].cmd /\ f[0] = EmptyParse
                 /\ \A k \in 0 .. (n - 1) : f[k + 1] = ParseToken(f[k], t[k + 1])
    BY <1>1, ParsedLine
  <1> DEFINE Good == {m \in Nat : m <= n => ParsedTo(f[m], t, m)}
  <1>3. 0 \in Good
    BY <1>2, ParsedNothing
  <1>4. ASSUME NEW m \in Good PROVE m + 1 \in Good
    <2>0. m \in Nat
      OBVIOUS
    <2> SUFFICES ASSUME m + 1 <= n PROVE ParsedTo(f[m + 1], t, m + 1)
      BY <2>0
    <2>1. m \in 0 .. (n - 1) /\ m < Len(t)
      BY <1>1, <2>0
    <2>2. ParsedTo(f[m], t, m)
      BY <2>0
    <2>3. f[m + 1] = ParseToken(f[m], t[m + 1])
      BY <1>2, <2>1
    <2>4. QED
      BY <2>0, <2>1, <2>2, <2>3, ParsedMore
  <1>5. Good = Nat
    <2> HIDE DEF Good
    <2>1. Good \subseteq Nat
      BY DEF Good
    <2>2. QED
      BY <1>3, <1>4, <2>1, FromZero
  <1>6. n \in Good
    BY <1>5
  <1>7. ParsedTo(f[n], t, n)
    BY <1>6
  <1>8. QED
    BY <1>1, <1>2, <1>7

\* It means what it says.
LEMMA LineMeans == ASSUME typed \in Seq(Tokens) PROVE ParsedAsWritten
  <1>1. PICK t : t = typed
    OBVIOUS
  <1>2. PICK n \in Nat : n = Len(t)
    BY <1>1, LenProperties
  <1>3. t \in Seq(Tokens) /\ DOMAIN t = 1 .. n
    BY <1>1, <1>2, LenProperties
  <1>4. PICK words, bars : words = Words(t) /\ bars = Bars(t)
    OBVIOUS
  <1>5. words \subseteq 1 .. n /\ bars \subseteq 1 .. n
    BY <1>3, <1>4 DEF Words, Bars, Free
  <1>6. Upto(words, n) = words /\ Upto(bars, n) = bars
    <2>1. 1 .. n \subseteq 0 .. n
      OBVIOUS
    <2>2. QED
      BY <1>5, <2>1 DEF Upto
  <1>7. ASSUME NEW k \in 1 .. n
        PROVE  /\ Upto(words, k) = {i \in words : i <= k}
               /\ Upto(bars, k) = {i \in bars : i <= k}
               /\ Upto(words, k - 1) = {i \in words : i < k}
    <2>1. \A i \in 1 .. n : (i <= k <=> i \in 0 .. k) /\ (i < k <=> i \in 0 .. (k - 1))
      OBVIOUS
    <2>2. ASSUME NEW S, S \subseteq 1 .. n
          PROVE  S \cap (0 .. k) = {i \in S : i <= k} /\ S \cap (0 .. (k - 1)) = {i \in S : i < k}
      BY <2>1, <2>2
    <2>3. QED
      BY <1>5, <2>2 DEF Upto
  <1>8. PICK cmd : cmd = ParseCommandLine(t, FALSE)
    OBVIOUS
  <1>9. ASSUME Cardinality(words) < MaxArgs - 1, Cardinality(bars) <= MaxPipes
        PROVE  /\ Len(cmd.argv) = Cardinality(words)
               /\ \A k \in words : cmd.argv[Cardinality({i \in words : i <= k})] = t[k]
               /\ Len(cmd.pipes) = Cardinality(bars)
               /\ \A k \in bars : cmd.pipes[Cardinality({i \in bars : i <= k})] =
                                     Cardinality({i \in words : i < k})
               /\ cmd.input = LastFile(t, {"<"})[2]
               /\ cmd.output = LastFile(t, {">", ">>"})[2]
               /\ cmd.append = (LastFile(t, {">", ">>"})[1] = ">>")
    <2>1. PICK p : cmd = p.cmd /\ ParsedTo(p, t, n)
      BY <1>2, <1>3, <1>4, <1>8, <1>9, LineParsed
    <2>2. PICK argv, pipes, from, to, append :
              /\ p = Parse(Cmd(argv, pipes, from, to, append), PendingAt(t, n))
              /\ CommandAt(argv, pipes, from, to, append, t, n)
      BY <2>1 DEF ParsedTo
    <2>3. /\ cmd.argv = argv /\ cmd.pipes = pipes /\ cmd.input = from /\ cmd.output = to
          /\ cmd.append = append
      BY <2>1, <2>2 DEF Parse, Cmd
    <2>4. PICK val : val = WordsBefore(t)
      OBVIOUS
    <2>5. /\ Lists(argv, words, n, t) /\ Lists(pipes, bars, n, val)
          /\ from = Latest(t, n, Inputs)[2]
          /\ to = Latest(t, n, Outputs)[2]
          /\ append = (Latest(t, n, Outputs)[1] = ">>")
      BY <1>4, <2>2, <2>4 DEF CommandAt
    <2>6. Len(argv) = Cardinality(words) /\ Len(pipes) = Cardinality(bars)
      BY <1>6, <2>5 DEF Lists
    <2>7. ASSUME NEW k \in words PROVE argv[Cardinality({i \in words : i <= k})] = t[k]
      <3>1. argv[Cardinality(Upto(words, k))] = t[k]
        BY <1>6, <2>5 DEF Lists
      <3>2. QED
        BY <1>5, <1>7, <3>1
    <2>8. ASSUME NEW k \in bars
          PROVE  pipes[Cardinality({i \in bars : i <= k})] = Cardinality({i \in words : i < k})
      <3>1. pipes[Cardinality(Upto(bars, k))] = val[k]
        BY <1>6, <2>5 DEF Lists
      <3>2. k \in 1 .. n
        BY <1>5
      <3>3. val[k] = Cardinality(Upto(words, k - 1))
        BY <1>3, <1>4, <2>4, <3>2 DEF WordsBefore
      <3>4. QED
        BY <1>7, <3>1, <3>2, <3>3
    <2>9. /\ LastFile(t, {"<"}) = Latest(t, n, Inputs)
          /\ LastFile(t, {">", ">>"}) = Latest(t, n, Outputs)
      BY <1>2, LatestIsLastFile DEF Inputs, Outputs
    <2>10. QED
      BY <2>3, <2>5, <2>6, <2>7, <2>8, <2>9
  <1>10. QED
    BY <1>1, <1>4, <1>8, <1>9 DEF ParsedAsWritten

\* Every line with fewer words than argv holds, and no more pipes than pipe_positions, is
\* parsed as it is written, for any tokens and any number of redirections
\* (parse_command_line).
THEOREM LinesMeanWhatTheySay == TypedSpec => []ParsedAsWritten
  <1>1. TypedInit => typed \in Seq(Tokens)
    BY EmptySeq DEF TypedInit
  <1>2. typed \in Seq(Tokens) /\ [TypeToken]_typed => (typed \in Seq(Tokens))'
    BY AppendProperties DEF TypeToken
  <1>3. typed \in Seq(Tokens) => ParsedAsWritten
    BY LineMeans
  <1>4. QED
    BY <1>1, <1>2, <1>3, PTL DEF TypedSpec
=============================================================================
