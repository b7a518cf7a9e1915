---------------------------- MODULE ClientWindows ----------------------------
(***************************************************************************)
(* The windows of the client: the main window with its menu bar, and the   *)
(* set nickname and license dialogs its menus open.  A dialog is opened by *)
(* a callback deep inside the main window's handling of a click and that   *)
(* click goes on when the dialog is gone.  Meanwhile the main window stays *)
(* in use: its menus, its server list and client_run_tasks.                *)
(***************************************************************************)
EXTENDS Windows

VARIABLES
    kind,         \* what each window is; the nickname dialog has two forms
    lock,         \* set_nickname_dialog.cc: lock
    dialog,       \* ... dialog, the static pointer
    entry,        \* ... entry, and whether what it points to exists
    connection,   \* client.cc: connection # 0
    open_menus,   \* the menus with is_open
    strip_tall,   \* the menu bar has the height 10000, which covers the window
    crashed,      \* a null pointer was read
    overtaken     \* history: a newer size was read inside a dialog's loop

clientVars == <<kind, lock, dialog, entry, connection, open_menus, strip_tall,
                crashed, overtaken>>

vars == <<windowVars, clientVars>>

Kinds == {"main", "form", "notice", "license"}

Menus == {"file", "server", "help"}

\* menus[] of the bar, and those that can contain one point: the rectangles
\* include both edges, so that two neighbours share a point.
MenuOrder == <<"file", "server", "help">>

MenusAtAPoint == {{}, {"file"}, {"server"}, {"help"}, {"file", "server"}, {"server", "help"}}

FirstOpen == MenuOrder[CHOOSE k \in 1 .. 3 :
                /\ MenuOrder[k] \in open_menus
                /\ \A j \in 1 .. k - 1 : MenuOrder[j] \notin open_menus]

IsNickname(w) == kind[w] \in {"form", "notice"}

Init ==
    LET w == CHOOSE w \in Windows : TRUE IN
    /\ WindowsInit(w)
    /\ kind = [x \in Windows |-> "main"]
    /\ lock = FALSE
    /\ dialog = w
    /\ entry = "null"
    /\ connection = FALSE
    /\ open_menus = {}
    /\ strip_tall = FALSE
    /\ crashed = FALSE
    /\ overtaken = FALSE

-----------------------------------------------------------------------------
(* Layout                                                                  *)

\* client_recalculate_sizes gives the bar its own height back, open menus or not.
Relayout == strip_tall' = FALSE

\* Before the first layout no widget of the main window has an area.
Usable == Polling(Main) /\ size # 0

\* A key or Enter in the message box, which a click has given the focus.
TypeKey ==
    /\ Usable
    /\ Relayout
    /\ UNCHANGED <<windowVars, kind, lock, dialog, entry, connection, open_menus, crashed,
                   overtaken>>

ConfigureMain(s) ==
    /\ Configure(s)
    /\ overtaken' = \E k \in 1 .. Len(calls) - 1 : calls[k].nsize # 0
    /\ UNCHANGED <<kind, lock, dialog, entry, connection, open_menus, strip_tall,
                   crashed>>

-----------------------------------------------------------------------------
(* The menu bar                                                            *)

\* A click on the bar closes every menu and opens what is under the pointer;
\* an open menu stretches the bar over the window.
ClickBar(opened) ==
    /\ Usable
    /\ open_menus' = opened
    /\ strip_tall' = (strip_tall \/ opened # {})
    /\ UNCHANGED <<windowVars, kind, lock, dialog, entry, connection, crashed, overtaken>>

\* The click below the bar that reaches an open menu.
ClickMenu ==
    /\ Usable
    /\ strip_tall
    /\ open_menus # {}

\* Beside the items of the first open menu: all menus close.
ClickAway ==
    /\ ClickMenu
    /\ open_menus' = {}
    /\ UNCHANGED <<windowVars, kind, lock, dialog, entry, connection, strip_tall,
                   crashed, overtaken>>

\* file / exit
ClickExit ==
    /\ ClickMenu
    /\ FirstOpen = "file"
    /\ should_exit' = [should_exit EXCEPT ![Main] = TRUE]
    /\ open_menus' = {}
    /\ UNCHANGED <<windows, alive, calls, size, configured, kind, lock, dialog, entry,
                   connection, strip_tall, crashed, overtaken>>

\* A menu's callback opens a dialog: the menus stay open until it returns.
OpenDialog(w, k) ==
    /\ ClickMenu
    /\ Show(w)
    /\ kind' = [kind EXCEPT ![w] = k]
    /\ UNCHANGED <<connection, open_menus, strip_tall, crashed, overtaken>>

\* help / license
OpenLicenseDialog(w) ==
    /\ OpenDialog(w, "license")
    /\ FirstOpen = "help"
    /\ UNCHANGED <<lock, dialog, entry>>

\* Mutant: the lock is not tested.
OpenSetNicknameDialogAgain(w) ==
    /\ OpenDialog(w, IF connection THEN "form" ELSE "notice")
    /\ FirstOpen = "server"
    /\ lock' = TRUE
    /\ dialog' = w
    /\ entry' = IF connection THEN "valid" ELSE entry

\* server / set nickname: a form with an entry, or a notice without one.
OpenSetNicknameDialog(w) ==
    /\ OpenDialog(w, IF connection THEN "form" ELSE "notice")
    /\ FirstOpen = "server"
    /\ ~lock
    /\ lock' = TRUE
    /\ dialog' = w
    /\ entry' = IF connection THEN "valid" ELSE entry

\* The lock is taken: the click only closes the menus.
SetNicknameLocked ==
    /\ ClickMenu
    /\ FirstOpen = "server"
    /\ lock
    /\ open_menus' = {}
    /\ UNCHANGED <<windowVars, kind, lock, dialog, entry, connection, strip_tall,
                   crashed, overtaken>>

-----------------------------------------------------------------------------
(* The server list, and client_run_tasks as far as it ends the connection  *)

\* A click on a server reaches the list unless an open menu takes it.
ClickServer ==
    /\ Usable
    /\ ~(strip_tall /\ open_menus # {})
    /\ connection' \in BOOLEAN
    /\ UNCHANGED <<windowVars, kind, lock, dialog, entry, open_menus, strip_tall,
                   crashed, overtaken>>

NextWindowTasks ==
    /\ NextWindow
    /\ IF Top.nsize # 0 THEN Relayout ELSE UNCHANGED strip_tall
    /\ connection' \in IF Top.window = Main THEN {connection, FALSE} ELSE {connection}
    /\ UNCHANGED <<kind, lock, dialog, entry, open_menus, crashed, overtaken>>

NextTurn == StartTurn /\ UNCHANGED clientVars

-----------------------------------------------------------------------------
(* The dialogs                                                             *)

CloseWindow(w) == Close(w) /\ UNCHANGED clientVars

\* The license dialog's button closes the dialog it is on.
LicenseOk(w) ==
    /\ w \in alive
    /\ kind[w] = "license"
    /\ CloseWindow(w)

\* Both buttons of the nickname dialog close what the static pointer names.
CloseDialog ==
    /\ should_exit' = [should_exit EXCEPT ![dialog] = TRUE]
    /\ UNCHANGED <<windows, alive, calls, size, configured>>

SetNicknameCancel(w) ==
    /\ Polling(w)
    /\ kind[w] = "form"
    /\ CloseDialog
    /\ UNCHANGED clientVars

\* With a connection ok reads the entry, also on the notice, which has none:
\* the entry of an earlier form, deleted with it, or none at all.
SetNicknameOk(w) ==
    /\ Polling(w)
    /\ IsNickname(w)
    /\ crashed' \in IF ~connection \/ entry = "valid" THEN {FALSE}
                    ELSE IF entry = "null" THEN {TRUE} ELSE BOOLEAN
    /\ CloseDialog
    /\ UNCHANGED <<kind, lock, dialog, entry, connection, open_menus, strip_tall,
                   overtaken>>

\* The dialog is deleted, the callback returns and the click that opened the
\* dialog ends by closing the menus.  With the main window the program ends.
Deleted ==
    LET w == Top.win IN
    /\ Return
    /\ lock' = (lock /\ ~IsNickname(w))
    /\ entry' = IF kind[w] = "form" THEN "freed" ELSE entry
    /\ connection' = (connection /\ kind[w] # "main")
    /\ open_menus' = {}
    /\ kind' = [kind EXCEPT ![w] = "main"]
    /\ UNCHANGED <<dialog, strip_tall, crashed, overtaken>>

-----------------------------------------------------------------------------
Loop == NextTurn \/ NextWindowTasks \/ Deleted

User ==
    \/ TypeKey \/ ClickAway \/ ClickExit \/ SetNicknameLocked \/ ClickServer
    \/ \E s \in Sizes : ConfigureMain(s)
    \/ \E opened \in MenusAtAPoint : ClickBar(opened)
    \/ \E w \in Windows :
        \/ OpenLicenseDialog(w) \/ OpenSetNicknameDialog(w)
        \/ CloseWindow(w) \/ LicenseOk(w) \/ SetNicknameOk(w) \/ SetNicknameCancel(w)

Next == ~crashed /\ (Loop \/ User)

Spec == Init /\ [][Next]_vars

FairSpec == Spec /\ WF_vars(~crashed /\ Loop)

-----------------------------------------------------------------------------
(* Properties                                                              *)

TypeOK ==
    /\ windows \in Seq(Windows)
    /\ alive \subseteq Windows
    /\ should_exit \in [Windows -> BOOLEAN]
    /\ calls \in Seq([win : Windows, i : Nat, window : Windows, nsize : Sizes \cup {0}])
    /\ {size, configured} \subseteq Sizes \cup {0}
    /\ kind \in [Windows -> Kinds]
    /\ dialog \in Windows
    /\ entry \in {"null", "valid", "freed"}
    /\ open_menus \subseteq Menus
    /\ {lock, connection, strip_tall, crashed, overtaken} \subseteq BOOLEAN

\* The registry holds the windows that exist, each once, in the order of the
\* show() calls that run them, though the destructor drops the last entry and
\* not its own (window.cc:738).
RegistryMirrorsCalls ==
    /\ windows = [k \in DOMAIN calls |-> calls[k].win]
    /\ alive = ToSet(windows)
    /\ IsInjective(windows)

\* window.cc:584: a loop that a dialog has interrupted goes on with the window
\* it had read from the registry: that window still exists, in its place.
PolledWindowExists ==
    \A k \in DOMAIN calls :
        /\ calls[k].window \in alive
        /\ calls[k].i > 0 => calls[k].i <= k /\ calls[k].window = windows[calls[k].i]

\* The lock is held exactly while one nickname dialog is open, the static
\* pointer names that dialog, and a form's entry is its own: what the buttons
\* use is there, however other dialogs come and go meanwhile.
LockMeansOneDialog ==
    /\ lock <=> \E w \in alive : IsNickname(w)
    /\ \A w \in alive : IsNickname(w) => w = dialog
    /\ \A w \in alive : kind[w] = "form" => entry = "valid"

\* The main window has the size it was last configured to, or will, unless a
\* CONFIGURE read inside a dialog's loop was overtaken by the older one that
\* the interrupted loop still held (window.cc:680).
SizeCurrentUnlessOvertaken ==
    size # configured => overtaken \/ \E k \in DOMAIN calls : calls[k].nsize = configured

Modal == INSTANCE ModalWindows WITH
    open <- windows, asked <- {w \in alive : should_exit[w]}

\* Nested loops, deferred deletion and the counters of the registry amount to
\* modal windows.
ImplementsModal == Modal!Spec

\* client_run_tasks goes on while any number of dialogs is open.
TasksKeepRunning == []<>(crashed \/ ~Running \/ Polling(Main))

\* A window on top that was closed does not stay: show() returns, or a menu
\* click that was already under way has opened another window above it.
ClosedWindowGoes == []<>(crashed \/ ~Running \/ ~should_exit[Top.win])
=============================================================================
