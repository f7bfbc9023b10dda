----------------------------- MODULE Compositor -----------------------------
(***************************************************************************)
(* The desktop: the windows, the focus and the event routing of            *)
(* kernel/gui/compositor.py with the dock and the popup of dock.py, the    *)
(* menu bar of menubar.py.  The tasks that interleave are the input loop   *)
(* and the applications that were launched.                                *)
(*                                                                         *)
(* desk is the Compositor object.  Geometry is left out: where a mouse     *)
(* event lands is given by what lies there now, as if a frame were drawn   *)
(* before every event, and a drag changes nothing else.  Full-screen       *)
(* views, which take the events away, are left out.                        *)
(***************************************************************************)
EXTENDS Integers, Sequences, SequencesExt

CONSTANTS Apps,          \* the names in the registry
          Pinned,        \* the sequence of those with category "app"
          Menus,         \* Menus[a]: how many menus a puts into the bar
          KeyApp,        \* the one behind F1
          None,
          MaxWindows,    \* bound: windows made
          MaxLaunches    \* bound: applications launched

Windows == 1 .. MaxWindows
Tasks == 1 .. MaxLaunches
SystemMenus == 1         \* seed_system_menus: at least one
Launcher == <<"launch", None>>   \* desktop_popup_items; the dock's are <<"keep", a>> and <<"remove", a>>

VARIABLES desk,
          tasks,         \* a launch: its name, the local prev, and how far it is
          made           \* windows made so far

vars == <<desk, tasks, made>>

TypeOK ==
    /\ desk \in [win : Seq(Windows), idx : 0 .. MaxWindows, lit : SUBSET Windows,
                 closed : SUBSET Windows, app : [Windows -> Apps \cup {None}],
                 bar : Windows \cup {None}, menus : Nat, open : Nat,
                 popup : {None, Launcher} \cup ({"keep", "remove"} \X Apps),
                 pinned : Seq(Apps), transient : Seq(Apps), running : SUBSET Apps,
                 launching : Apps \cup {None}, active : SUBSET Apps,
                 below : BOOLEAN]
    /\ tasks \in [Tasks -> [at : {"none", "queued", "running", "ended"},
                            app : Apps \cup {None}, prev : Apps \cup {None}]]
    /\ made \in 0 .. MaxWindows

Init ==
    /\ desk = [win |-> <<>>,           \* _windows, rear to front
               idx |-> 0,              \* _focus_idx + 1
               lit |-> {},             \* the windows whose focused is set
               closed |-> {},          \* the windows whose _closed is set
               app |-> [w \in Windows |-> None],
               bar |-> None,           \* the window whose menus set_app_menus got
               menus |-> 0,            \* len(MenuBar._app_menus)
               open |-> 0,             \* MenuBar._open_idx + 1
               popup |-> None,
               pinned |-> Pinned, transient |-> <<>>, running |-> {},
               launching |-> None, active |-> {},
               below |-> FALSE]        \* a window below the focus was removed (history)
    /\ tasks = [t \in Tasks |-> [at |-> "none", app |-> None, prev |-> None]]
    /\ made = 0

-----------------------------------------------------------------------------
(* Dock *)

Has(s, e) == \E i \in DOMAIN s : s[i] = e
With(s, e) == IF Has(s, e) THEN s ELSE Append(s, e)
Minus(s, e) == SelectSeq(s, LAMBDA x : x # e)

visible(d) == d.pinned \o SelectSeq(d.transient, LAMBDA a : ~Has(d.pinned, a))

pin(d, a) == [d EXCEPT !.pinned = With(@, a), !.transient = Minus(@, a)]

unpin(d, a) ==
    [d EXCEPT !.pinned = Minus(@, a), !.transient = IF a \in d.running THEN With(@, a) ELSE @]

set_running(d, a, is) ==
    [d EXCEPT !.running = IF is THEN @ \cup {a} ELSE @ \ {a},
              !.transient = IF Has(d.pinned, a) THEN @
                            ELSE IF is THEN With(@, a) ELSE Minus(@, a)]

\* _refresh_dock_running; for a window that no launch has stamped nothing happens.
refresh_dock(d, a) ==
    IF a = None THEN d
    ELSE set_running(d, a, a \in d.active \/ \E i \in DOMAIN d.win : d.app[d.win[i]] = a)

-----------------------------------------------------------------------------
(* Windows, focus and menus *)

focused_window(d) == IF d.idx \in DOMAIN d.win THEN d.win[d.idx] ELSE None

\* How many menus there are: the system's, and those of the window that was focused
\* last.
all_menus(d) == SystemMenus + d.menus

\* _refresh_app_menus: set_app_menus closes the dropdown.
refresh_menus(d, w) ==
    [d EXCEPT !.bar = w, !.open = 0,
              !.menus = IF w = None \/ d.app[w] = None THEN 0 ELSE Menus[d.app[w]]]

\* _launching_app names the window.
add_window(d, w) ==
    LET named == [d EXCEPT !.app[w] = d.launching,
                           !.lit = (@ \ {focused_window(d)}) \cup {w},
                           !.win = Append(@, w),
                           !.idx = Len(d.win) + 1]
    IN refresh_dock(refresh_menus(named, w), d.launching)

\* remove_window: the focus moves when the focused window goes, ...
MoveFocus(d, i) ==
    LET n == Len(d.win)
        to == IF i < n THEN i ELSE n
    IN CASE i = d.idx /\ n > 0 -> refresh_menus([d EXCEPT !.idx = to, !.lit = @ \cup {d.win[to]}],
                                                d.win[to])
         [] n = 0 -> refresh_menus([d EXCEPT !.idx = 0], None)
         [] OTHER -> d

\* What is left without w; nobody looks at w any more.
Without(d, w, i) ==
    [d EXCEPT !.win = Minus(@, w), !.lit = @ \ {w}, !.closed = @ \ {w}, !.app[w] = None,
              !.below = @ \/ i < d.idx]

\* remove_window mutated to leave the dock alone.
remove_windowOnly(d, w) ==
    IF ~Has(d.win, w) THEN d
    ELSE LET i == CHOOSE j \in DOMAIN d.win : d.win[j] = w
         IN MoveFocus(Without(d, w, i), i)

\* ... and _focus_idx stays as it is when a window below the focused one goes.
remove_window(d, w) ==
    IF ~Has(d.win, w) THEN d
    ELSE LET i == CHOOSE j \in DOMAIN d.win : d.win[j] = w
         IN refresh_dock(MoveFocus(Without(d, w, i), i), d.app[w])

cycle_focus(d, direction) ==
    IF d.win = <<>> THEN d
    ELSE LET to == ((d.idx - 1 + direction) % Len(d.win)) + 1
         IN refresh_menus([d EXCEPT !.idx = to,
                                    !.lit = (@ \ {focused_window(d)}) \cup {d.win[to]}],
                          d.win[to])

\* _focus raises the window.
focus(d, w) ==
    IF focused_window(d) = w THEN d
    ELSE refresh_menus([d EXCEPT !.lit = (@ \ {focused_window(d)}) \cup {w},
                                 !.win = Append(Minus(@, w), w), !.idx = Len(d.win)], w)

\* The end of an iteration of _input_loop: closed windows are reaped.
Reap(d) == FoldLeft(LAMBDA e, w : IF w \in e.closed THEN remove_window(e, w) ELSE e, d, d.win)

-----------------------------------------------------------------------------
(* Applications *)

\* create_task(_launch_dock_app(a)), by launch_app or by the dock.
Launch(a) ==
    LET t == CHOOSE u \in Tasks : tasks[u].at = "none" /\ \A v \in 1 .. u - 1 : tasks[v].at # "none"
    IN /\ \E u \in Tasks : tasks[u].at = "none"
       /\ tasks' = [tasks EXCEPT ![t].at = "queued", ![t].app = a]

launch_begin(t) ==
    /\ tasks[t].at = "queued"
    /\ desk' = refresh_dock([desk EXCEPT !.launching = tasks[t].app, !.active = @ \cup {tasks[t].app}],
                            tasks[t].app)
    /\ tasks' = [tasks EXCEPT ![t].at = "running", ![t].prev = desk.launching]
    /\ UNCHANGED made

\* The entry returns or raises; what is left of its windows stays.
launch_end(t) ==
    /\ tasks[t].at = "running"
    /\ desk' = refresh_dock([desk EXCEPT !.launching = tasks[t].prev, !.active = @ \ {tasks[t].app}],
                            tasks[t].app)
    /\ tasks' = [tasks EXCEPT ![t] = [at |-> "ended", app |-> None, prev |-> None]]
    /\ UNCHANGED made

app_opens(t) ==
    /\ tasks[t].at = "running"
    /\ made < MaxWindows
    /\ made' = made + 1
    /\ desk' = add_window(desk, made + 1)
    /\ UNCHANGED tasks

\* win.close(): the window waits to be reaped.
app_closes(w) ==
    /\ Has(desk.win, w)
    /\ w \notin desk.closed
    /\ desk' = [desk EXCEPT !.closed = @ \cup {w}]
    /\ UNCHANGED <<tasks, made>>

\* win.close(); compositor.remove_window(win)
app_removes(w) ==
    /\ Has(desk.win, w)
    /\ desk' = remove_window(desk, w)
    /\ UNCHANGED <<tasks, made>>

-----------------------------------------------------------------------------
(* _input_loop: _route_event, then the reaping *)

Routed(d) == desk' = Reap(d) /\ UNCHANGED made

Closed(d) == [d EXCEPT !.open = 0]           \* MenuBar.close
Hidden(d) == [d EXCEPT !.popup = None]       \* Popup.hide

\* F1, Tab and Shift-Tab come before everything else.
key_launch(a) == Routed(desk) /\ Launch(a)
key_cycle(direction) == Routed(cycle_focus(desk, direction)) /\ UNCHANGED tasks

key_escape == desk.popup # None /\ Routed(Hidden(desk)) /\ UNCHANGED tasks

\* A click with a popup open chooses an item of it, or none.
click_popup ==
    /\ desk.popup # None
    /\ \/ Routed(Hidden(desk)) /\ UNCHANGED tasks
       \/ desk.popup = Launcher /\ Routed(Hidden(desk)) /\ \E a \in Apps : Launch(a)
       \/ \E a \in Apps :
             /\ \/ desk.popup = <<"keep", a>> /\ Routed(pin(Hidden(desk), a))
                \/ desk.popup = <<"remove", a>> /\ Routed(unpin(Hidden(desk), a))
             /\ UNCHANGED tasks

\* MenuBar.on_mouse_down on title i.
click_title(i) ==
    /\ desk.popup = None
    /\ Routed([desk EXCEPT !.open = IF @ = i THEN 0 ELSE i])
    /\ UNCHANGED tasks

\* ... on a row of the dropdown.  The system's menus launch, those of an application act
\* on its window.
click_row ==
    /\ desk.popup = None
    /\ \/ /\ desk.open \in 1 .. SystemMenus
          /\ Routed(Closed(desk))
          /\ \E a \in Apps : Launch(a)
       \/ /\ desk.open \in SystemMenus + 1 .. all_menus(desk)
          /\ Routed([Closed(desk) EXCEPT !.closed = @ \cup ({desk.bar} \cap Range(desk.win))])
          /\ UNCHANGED tasks

\* ... anywhere else, with a dropdown open.
click_outside ==
    /\ desk.popup = None
    /\ desk.open > 0
    /\ Routed(Closed(desk))
    /\ UNCHANGED tasks

\* From here on the menu bar has not taken the click.  _handle_context_click, for the
\* right button, and for the left one while Ctrl is down:
click_context ==
    /\ desk.popup = None
    /\ \/ \E i \in DOMAIN visible(desk) :
             LET a == visible(desk)[i]
             IN Routed([Closed(desk) EXCEPT
                          !.popup = <<IF Has(desk.pinned, a) THEN "remove" ELSE "keep", a>>])
       \/ Routed([Closed(desk) EXCEPT !.popup = Launcher])
    /\ UNCHANGED tasks

Plain == desk.popup = None /\ desk.open = 0

click_dock ==
    /\ Plain
    /\ \E i \in DOMAIN visible(desk) : Launch(visible(desk)[i])
    /\ Routed(desk)

click_close(w) ==
    /\ Plain
    /\ Routed(remove_window(desk, w))
    /\ UNCHANGED tasks

click_window(w) ==
    /\ Plain
    /\ Routed(focus(desk, w))
    /\ UNCHANGED tasks

\* Whatever else comes is delivered to the focused window, or only highlights
\* something.
other == Routed(desk) /\ UNCHANGED tasks

Click ==
    \/ click_popup \/ click_row \/ click_outside \/ click_context \/ click_dock
    \/ \E i \in 1 .. all_menus(desk) : click_title(i)
    \/ \E i \in DOMAIN desk.win :
          LET w == desk.win[i]
          IN click_close(w) \/ click_window(w)

route_event ==
    \/ key_escape
    \/ key_launch(KeyApp)
    \/ \E direction \in {-1, 1} : key_cycle(direction)
    \/ Click \/ other

Next ==
    \/ route_event
    \/ \E t \in Tasks : launch_begin(t) \/ launch_end(t) \/ app_opens(t)
    \/ \E w \in Windows : app_closes(w) \/ app_removes(w)

Spec == Init /\ [][Next]_vars

-----------------------------------------------------------------------------
\* compositor.py: as long as there are windows one of them has the focus; it alone is
\* marked, and the menu bar shows its menus.
FocusKept ==
    /\ (desk.win # <<>>) => focused_window(desk) # None
    /\ \A i \in DOMAIN desk.win : desk.win[i] \in desk.lit <=> i = desk.idx
    /\ desk.bar = focused_window(desk)

\* The same, until a window below the focused one was removed: clicks, raises, Tab,
\* close boxes, reaped windows and launches, in any order of the tasks.
FocusSound == desk.below \/ FocusKept

\* dock.py, registry.py: an application with an open window is in the dock, an unpinned
\* one is there only while it has a window or is being launched, and nothing is twice.
DockTruthful ==
    /\ \A i \in DOMAIN desk.win :
          desk.app[desk.win[i]] # None => Has(visible(desk), desk.app[desk.win[i]])
    /\ \A i \in DOMAIN desk.transient :
          LET a == desk.transient[i]
          IN \/ \E j \in DOMAIN desk.win : desk.app[desk.win[j]] = a
             \/ \E t \in Tasks : tasks[t].app = a /\ tasks[t].at = "running"
    /\ IsInjective(visible(desk))
=============================================================================
