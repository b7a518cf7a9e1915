------------------------------- MODULE Windows -------------------------------
(***************************************************************************)
(* window.cc: the registry of windows and the event loop of show().        *)
(*                                                                         *)
(* show() polls every window of the registry, its own and all others, so   *)
(* that a dialog opened by a callback of one window runs a second loop     *)
(* over the same windows while the first one waits inside the callback.    *)
(* calls is the stack of the show() calls that have not returned; only the *)
(* last one runs.  A window is a piece of memory that a later window may   *)
(* get again.                                                              *)
(***************************************************************************)
EXTENDS Integers, SequencesExt

CONSTANTS
    Windows,   \* window_t objects
    Sizes      \* sizes the window manager gives the main window

ASSUME WindowsAssumption == Windows # {} /\ 0 \notin Sizes

VARIABLES
    windows,       \* windows[0 .. window_count - 1]
    alive,         \* the window_t objects that exist
    should_exit,   \* window_t::should_exit
    calls,         \* the show() calls under way, each with its locals
    size,          \* window_t::width and height of the main window, at first 0
    configured     \* the size its last CONFIGURE event named

windowVars == <<windows, alive, should_exit, calls, size, configured>>

\* One call: the window it was called on, i (0 outside the for loop, which
\* counts from 1 here), the local window, and the size of a CONFIGURE event
\* that was read but not yet acted on (resizing, nwidth and nheight; 0: none).
ShowCall(w) == [win |-> w, i |-> 0, window |-> w, nsize |-> 0]

Main == windows[1]

Top == Last(calls)

Running == calls # <<>>

\* The loop that runs is handling the events of w.
Polling(w) == Running /\ Top.i > 0 /\ Top.window = w

\* The call on top goes on with some of its locals changed.
Locals(call) == [calls EXCEPT ![Len(calls)] = call]

-----------------------------------------------------------------------------
(* Constructor and destructor                                              *)

NewWindow(w) ==
    /\ w \notin alive
    /\ alive' = alive \cup {w}
    /\ windows' = Append(windows, w)
    /\ should_exit' = [should_exit EXCEPT ![w] = FALSE]

\* Mutant: the entries move up, and the first one is lost.
DeleteFirstWindow(w) ==
    /\ alive' = alive \ {w}
    /\ windows' = Tail(windows)
    /\ should_exit' = [should_exit EXCEPT ![w] = FALSE]

\* The last entry of the registry goes, whichever window is deleted.
DeleteWindow(w) ==
    /\ alive' = alive \ {w}
    /\ windows' = Front(windows)
    /\ should_exit' = [should_exit EXCEPT ![w] = FALSE]

-----------------------------------------------------------------------------
(* The loop                                                                *)

WindowsInit(w) ==
    /\ windows = <<w>>
    /\ alive = {w}
    /\ should_exit = [x \in Windows |-> FALSE]
    /\ calls = <<ShowCall(w)>>
    /\ size = 0
    /\ configured = 0

\* A callback makes a window and shows it.
Show(w) ==
    /\ NewWindow(w)
    /\ calls' = Append(calls, ShowCall(w))
    /\ UNCHANGED <<size, configured>>

\* Mutant: a loop polls only its own window.
StartTurnAlone ==
    /\ Running
    /\ Top.i = 0
    /\ ~should_exit[Top.win]
    /\ calls' = Locals([Top EXCEPT !.i = Len(calls), !.window = Top.win])
    /\ UNCHANGED <<windows, alive, should_exit, size, configured>>

\* while (!this->should_exit): another turn over the windows.
StartTurn ==
    /\ Running
    /\ Top.i = 0
    /\ ~should_exit[Top.win]
    /\ calls' = Locals([Top EXCEPT !.i = 1, !.window = windows[1]])
    /\ UNCHANGED <<windows, alive, should_exit, size, configured>>

\* Mutant: a size is acted on only after the last window.
NextWindowLosesSize ==
    /\ Running
    /\ Top.i > 0
    /\ size' = IF Top.nsize # 0 /\ Top.i = Len(windows) THEN Top.nsize ELSE size
    /\ calls' = Locals(IF Top.i < Len(windows)
                       THEN [win |-> Top.win, i |-> Top.i + 1,
                             window |-> windows[Top.i + 1], nsize |-> 0]
                       ELSE [Top EXCEPT !.i = 0, !.nsize = 0])
    /\ UNCHANGED <<windows, alive, should_exit, configured>>

\* No more events of this window: a size that was read is acted on, the
\* window's background tasks run (the caller says what they do) and the for
\* loop goes on, with window_count as it is now.
NextWindow ==
    /\ Running
    /\ Top.i > 0
    /\ size' = IF Top.nsize # 0 THEN Top.nsize ELSE size
    /\ calls' = Locals(IF Top.i < Len(windows)
                       THEN [win |-> Top.win, i |-> Top.i + 1,
                             window |-> windows[Top.i + 1], nsize |-> 0]
                       ELSE [Top EXCEPT !.i = 0, !.nsize = 0])
    /\ UNCHANGED <<windows, alive, should_exit, configured>>

\* The user or the window manager asks w to close.
Close(w) ==
    /\ Polling(w)
    /\ should_exit' = [should_exit EXCEPT ![w] = TRUE]
    /\ UNCHANGED <<windows, alive, calls, size, configured>>

\* CONFIGURE of the main window; the size is acted on after all its events.
Configure(s) ==
    /\ Polling(Main)
    /\ configured' = s
    /\ calls' = Locals([Top EXCEPT !.nsize = s])
    /\ UNCHANGED <<windows, alive, should_exit, size>>

\* Mutant: every loop looks at the flag of the main window.
ReturnWithMain ==
    /\ Running
    /\ Top.i = 0
    /\ should_exit[Main]
    /\ DeleteWindow(Top.win)
    /\ calls' = Front(calls)
    /\ UNCHANGED <<size, configured>>

\* show() returns and its caller deletes the window.
Return ==
    /\ Running
    /\ Top.i = 0
    /\ should_exit[Top.win]
    /\ DeleteWindow(Top.win)
    /\ calls' = Front(calls)
    /\ UNCHANGED <<size, configured>>
=============================================================================
