--------------------------- MODULE WindowManager ---------------------------
(***************************************************************************)
(* The window list, focus, minimise and maximise of src/gui/               *)
(* window_manager.c, driven by the mouse and by applications that create   *)
(* and destroy windows.  find_window_at_position, move_window_to_front,    *)
(* focus_next_window and toggle_window_maximize have no body in the        *)
(* repository and are modelled from their uses.  Events sent to windows    *)
(* and drawing change no state of this model.                              *)
(***************************************************************************)
EXTENDS Integers, FiniteSets

CONSTANTS
    NumWindows,     \* objects_per_slab of the window cache
    NULL

Windows == 0 .. (NumWindows - 1)

ASSUME WindowsAssumption == NumWindows \in Nat /\ NULL \notin Windows

Buttons == {"RESIZABLE", "MINIMIZABLE"}
States  == {"NORMAL", "MINIMIZED", "MAXIMIZED"}
Places  == {"own", "screen"}    \* the geometry given by the creator, or the full screen

VARIABLES
    live,       \* the objects of the slab in use
    list,       \* window_list, the `next` field of every window, active_window, `focused`
    count,      \* window_count
    flags, state, visible,      \* fields of every window
    place,      \* x, y, width and height
    restore     \* restore_x .. restore_height

vars == <<live, list, count, flags, state, visible, place, restore>>

ListType == [head : Windows \cup {NULL}, next : [Windows -> Windows \cup {NULL}],
             active : Windows \cup {NULL}, focused : [Windows -> BOOLEAN]]

TypeOK ==
    /\ live \subseteq Windows
    /\ list \in ListType
    /\ count \in Nat
    /\ flags \in [Windows -> SUBSET Buttons]
    /\ state \in [Windows -> States]
    /\ visible \in [Windows -> BOOLEAN]
    /\ place \in [Windows -> Places]
    /\ restore \in [Windows -> Places]

Init ==
    /\ live = {}
    /\ list = [head |-> NULL, next |-> [w \in Windows |-> NULL],
               active |-> NULL, focused |-> [w \in Windows |-> FALSE]]
    /\ count = 0
    /\ flags = [w \in Windows |-> {}]
    /\ state = [w \in Windows |-> "NORMAL"]
    /\ visible = [w \in Windows |-> FALSE]
    /\ place = [w \in Windows |-> "own"]
    /\ restore = [w \in Windows |-> "own"]

-----------------------------------------------------------------------------
(* The list.                                                               *)

\* (Mutant of Unlinked: a window in the middle is skipped over one too far.)
UnlinkedTooFar(l, w) ==
    IF l.head = w THEN [l EXCEPT !.head = l.next[w]]
    ELSE [l EXCEPT !.next = [v \in Windows |->
             IF l.next[v] = w
             THEN IF l.next[w] = NULL THEN NULL ELSE l.next[l.next[w]]
             ELSE l.next[v]]]

\* Lines 128-139: the head moves on, or the predecessor skips the window.  (The
\* `next` field of an object that is not in use is dead.)
Unlinked(l, w) ==
    IF l.head = w THEN [l EXCEPT !.head = l.next[w]]
    ELSE [l EXCEPT !.next = [v \in Windows |->
             IF l.next[v] = w THEN l.next[w] ELSE l.next[v]]]

AtFront(l, w) == [l EXCEPT !.head = w, !.next[w] = l.head]

MoveToFront(l, w) == AtFront(Unlinked(l, w), w)

\* (Mutant of FocusWindow: the previous window keeps its focus.)
FocusKeepingOld(l, w) ==
    IF l.active = w THEN l
    ELSE MoveToFront([l EXCEPT !.active = w, !.focused[w] = TRUE], w)

\* focus_window
FocusWindow(l, w) ==
    IF l.active = w THEN l
    ELSE MoveToFront([l EXCEPT !.active = w,
                               !.focused = [v \in Windows |->
                                   v = w \/ (v # l.active /\ l.focused[v])]], w)

-----------------------------------------------------------------------------
(* Applications.                                                           *)

\* create_window: slab_alloc gives the lowest free object.
CreateWindow(fl) ==
    \E w \in Windows \ live :
        /\ \A v \in Windows \ live : w <= v
        /\ live' = live \cup {w}
        /\ list' = AtFront([list EXCEPT !.focused[w] = FALSE], w)
        /\ count' = count + 1
        /\ flags' = [flags EXCEPT ![w] = fl]
        /\ state' = [state EXCEPT ![w] = "NORMAL"]
        /\ visible' = [visible EXCEPT ![w] = TRUE]
        /\ place' = [place EXCEPT ![w] = "own"]
        /\ UNCHANGED restore

\* (Mutant of DestroyWindow: a window can be destroyed a second time.)
DestroyAgain(w) ==
    /\ w \in Windows
    /\ live' = live \ {w}
    /\ list' = Unlinked(list, w)
    /\ count' = count - 1
    /\ UNCHANGED <<flags, state, visible, place, restore>>

\* destroy_window; active_window may go on pointing to the freed object.
DestroyWindow(w) ==
    /\ w \in live
    /\ live' = live \ {w}
    /\ list' = Unlinked(list, w)
    /\ count' = count - 1
    /\ UNCHANGED <<flags, state, visible, place, restore>>

-----------------------------------------------------------------------------
(* The mouse.  Every event over a window focuses it, at the end.           *)

\* (Mutant of OnScreen: minimised windows can still be hit.)
OnScreenOrHidden(w) == w \in live

\* find_window_at_position finds visible windows.
OnScreen(w) == w \in live /\ visible[w]

\* A press on the client area, the title bar or the close button, whose event is
\* sent to the window, and every other mouse event.
MouseElsewhere(w) ==
    /\ OnScreen(w)
    /\ list' = FocusWindow(list, w)
    /\ UNCHANGED <<live, count, flags, state, visible, place, restore>>

\* minimize_window, by its button.  focus_next_window focuses another visible
\* window if there is one; then gui_handle_mouse focuses the window itself.
MouseMinimize(w) ==
    /\ OnScreen(w) /\ "MINIMIZABLE" \in flags[w]
    /\ state' = [state EXCEPT ![w] = "MINIMIZED"]
    /\ visible' = [visible EXCEPT ![w] = FALSE]
    /\ \/ \E v \in live \ {w} :
             visible[v] /\ list' = FocusWindow(FocusWindow(list, v), w)
       \/ /\ \A v \in live \ {w} : ~visible[v]
          /\ list' = FocusWindow(list, w)
    /\ UNCHANGED <<live, count, flags, place, restore>>

\* maximize_window, by its button: restore a maximised window, save the place of
\* any other and give it the screen.
MouseMaximize(w) ==
    /\ OnScreen(w) /\ "RESIZABLE" \in flags[w]
    /\ IF state[w] = "MAXIMIZED"
       THEN /\ state' = [state EXCEPT ![w] = "NORMAL"]
            /\ place' = [place EXCEPT ![w] = restore[w]]
            /\ UNCHANGED restore
       ELSE /\ restore' = [restore EXCEPT ![w] = place[w]]
            /\ state' = [state EXCEPT ![w] = "MAXIMIZED"]
            /\ place' = [place EXCEPT ![w] = "screen"]
    /\ list' = FocusWindow(list, w)
    /\ UNCHANGED <<live, count, flags, visible>>

GuiHandleMouse(w) == MouseElsewhere(w) \/ MouseMinimize(w) \/ MouseMaximize(w)

Next ==
    \/ \E fl \in SUBSET Buttons : CreateWindow(fl)
    \/ \E w \in Windows : DestroyWindow(w) \/ GuiHandleMouse(w)

Spec == Init /\ [][Next]_vars

-----------------------------------------------------------------------------
\* The windows a walk of the list meets: those every set closed under `next`
\* that has the head must have.
Listed ==
    {w \in Windows : list.head # NULL /\ \A S \in SUBSET Windows :
        list.head \in S /\ (\A v \in S : list.next[v] # NULL => list.next[v] \in S)
            => w \in S}

\* A walk of the window list meets exactly the windows that exist, each once and
\* as many as window_count says, whatever was created, moved to the front and
\* destroyed in between: draw_desktop draws all of them and comes to an end.
WindowListSound ==
    /\ Listed = live
    /\ count = Cardinality(live)
    /\ \A v, w \in live : list.next[v] = list.next[w] => v = w
    /\ \A v \in live : list.next[v] # list.head

\* At most one window is drawn with an active title bar, the one that has the
\* keyboard, although active_window may point to an object that was freed and has
\* become another window.
OneFocused == \A w \in live : list.focused[w] => list.active = w

\* A maximised window can be restored: what it saved is its own place, never the
\* screen.  It depends on minimised windows being out of the mouse's reach, since
\* maximize_window takes any state but MAXIMIZED for a place worth saving.
RestoresOwnPlace ==
    \A w \in live : state[w] = "MAXIMIZED" => place[w] = "screen" /\ restore[w] = "own"

\* The window that receives the keyboard is one the user sees: a minimised window
\* hands over to another ("Focus next window", window_manager.c:315).
KeyboardIsVisible ==
    list.active \in live /\ state[list.active] = "MINIMIZED" =>
        \A w \in live : ~visible[w]
=============================================================================
