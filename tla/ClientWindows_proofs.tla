------------------------ MODULE ClientWindows_proofs ------------------------
(***************************************************************************)
(* Proofs about ClientWindows, for any number of windows and of sizes.     *)
(***************************************************************************)
EXTENDS ClientWindows, SequenceTheorems, TLAPS

Call == [win : Windows, i : Nat, window : Windows, nsize : Sizes \cup {0}]

Depth == 1 .. Len(calls)

-----------------------------------------------------------------------------
(* The inductive invariant.                                                *)

WindowTypes ==
    /\ windows \in Seq(Windows)
    /\ alive \subseteq Windows
    /\ should_exit \in [Windows -> BOOLEAN]
    /\ calls \in Seq(Call)
    /\ {size, configured} \subseteq Sizes \cup {0}

ClientTypes ==
    /\ kind \in [Windows -> Kinds]
    /\ dialog \in Windows
    /\ entry \in {"null", "valid", "freed"}
    /\ open_menus \subseteq Menus
    /\ {lock, connection, strip_tall, crashed, overtaken} \subseteq BOOLEAN

\* RegistryMirrorsCalls, index by index.
Registry ==
    /\ Len(windows) = Len(calls)
    /\ \A k \in Depth : windows[k] = calls[k].win
    /\ \A w : w \in alive <=> \E k \in Depth : windows[k] = w
    /\ \A j, k \in Depth : windows[j] = windows[k] => j = k

\* A call that another one interrupted is inside its for loop, at a window no
\* newer than its own: what is deleted above it is never what it polls.
Frames ==
    \A k \in Depth :
        /\ calls[k].i <= k
        /\ calls[k].i > 0 => calls[k].window = windows[calls[k].i]
        /\ calls[k].i = 0 => k = Len(calls) /\ calls[k].nsize = 0
        /\ calls[k].window \in alive

\* Every size that waits in some call is the newest, unless one was overtaken.
PendingSizes ==
    /\ configured = 0 => size = 0 /\ \A k \in Depth : calls[k].nsize = 0
    /\ ~overtaken => \A k \in Depth : calls[k].nsize \in {0, configured}
    /\ (size # configured /\ ~overtaken) => \E k \in Depth : calls[k].nsize = configured

StackInv == WindowTypes /\ Registry /\ Frames

WindowInv == StackInv /\ ClientTypes /\ LockMeansOneDialog /\ PendingSizes

-----------------------------------------------------------------------------
(* The stack of calls.                                                     *)

LEMMA TopFacts ==
  ASSUME WindowTypes, Running
  PROVE  /\ Len(calls) \in Nat /\ Len(calls) \in Depth
         /\ Top = calls[Len(calls)] /\ Top \in Call
         /\ Top.win \in Windows /\ Top.i \in Nat /\ Top.window \in Windows
         /\ Top.nsize \in Sizes \cup {0}
  <1>1. Len(calls) \in Nat /\ calls # <<>> /\ calls \in Seq(Call)
    BY LenProperties DEF WindowTypes, Running
  <1>2. Len(calls) \in Depth
    BY <1>1, EmptySeq DEF Depth
  <1>3. Top = calls[Len(calls)] /\ Top \in Call
    BY <1>1, <1>2, ElementOfSeq DEF Top, Last, Depth
  <1> QED BY <1>1, <1>2, <1>3 DEF Call

LEMMA CallTypes ==
  ASSUME WindowTypes, NEW k \in Depth
  PROVE  calls[k] \in Call /\ calls[k].i \in Nat
  <1>1. calls[k] \in Call
    BY ElementOfSeq DEF WindowTypes, Depth
  <1> QED BY <1>1 DEF Call

\* Only the call on top changes.
LEMMA LocalsFacts ==
  ASSUME WindowTypes, Running, NEW c \in Call
  PROVE  /\ Locals(c) \in Seq(Call)
         /\ Len(Locals(c)) = Len(calls)
         /\ \A k \in Depth : Locals(c)[k] = IF k = Len(calls) THEN c ELSE calls[k]
  BY TopFacts, ExceptSeq DEF Locals, Depth, WindowTypes

\* What Front leaves.
LEMMA FrontFacts ==
  ASSUME NEW S, NEW s \in Seq(S), s # <<>>
  PROVE  /\ Front(s) \in Seq(S)
         /\ Len(Front(s)) = Len(s) - 1
         /\ \A k \in 1 .. Len(s) - 1 : Front(s)[k] = s[k]
  <1>1. Len(s) \in Nat \ {0}
    BY EmptySeq
  <1>2. \A k \in 1 .. Len(s) - 1 : s[k] \in S
    BY <1>1, ElementOfSeq
  <1> DEFINE n == Len(s) - 1
  <1>3. n \in Int /\ 1 \in Int /\ (1 <= n \/ n = 0) /\ n - 1 + 1 = n
        /\ \A k \in 1 .. n : 1 + k - 1 = k
    BY <1>1
  <1> HIDE DEF n
  <1>4. /\ SubSeq(s, 1, n) \in Seq(S)
        /\ Len(SubSeq(s, 1, n)) = IF 1 <= n THEN n - 1 + 1 ELSE 0
        /\ \A k \in 1 .. n - 1 + 1 : SubSeq(s, 1, n)[k] = s[1 + k - 1]
    BY <1>2, <1>3, SubSeqProperties DEF n
  <1>5. Len(SubSeq(s, 1, n)) = n
    BY <1>3, <1>4
  <1>6. \A k \in 1 .. n : SubSeq(s, 1, n)[k] = s[k]
    BY <1>3, <1>4
  <1> QED BY <1>4, <1>5, <1>6 DEF Front, n

LEMMA StartTurnStack ==
  ASSUME StackInv, StartTurn
  PROVE  /\ StackInv' /\ Len(calls') = Len(calls)
         /\ \A k \in Depth : calls'[k].nsize = calls[k].nsize
  <1>1. Running /\ Top.i = 0 /\ UNCHANGED <<windows, alive, should_exit, size, configured>>
    BY DEF StartTurn
  <1> DEFINE c == [Top EXCEPT !.i = 1, !.window = windows[1]]
  <1>2. /\ Len(calls) \in Nat /\ Len(calls) \in Depth
        /\ Top = calls[Len(calls)] /\ Top \in Call /\ 1 \in Depth
    BY <1>1, TopFacts DEF StackInv, Depth
  <1>3. windows[1] \in Windows /\ windows[1] \in alive
    BY <1>2 DEF StackInv, WindowTypes, Registry, Frames
  <1>4. c \in Call /\ c.i = 1 /\ c.window = windows[1] /\ c.win = Top.win /\ c.nsize = Top.nsize
    BY <1>2, <1>3 DEF Call
  <1> HIDE DEF c
  <1>5. calls' = Locals(c)
    BY DEF StartTurn, c
  <1>6. /\ calls' \in Seq(Call) /\ Len(calls') = Len(calls)
        /\ \A k \in Depth : calls'[k] = IF k = Len(calls) THEN c ELSE calls[k]
    BY <1>1, <1>4, <1>5, LocalsFacts DEF StackInv
  <1>7. WindowTypes' /\ Depth' = Depth
    BY <1>1, <1>6 DEF StackInv, WindowTypes, Depth
  <1>8. Registry'
    BY <1>1, <1>2, <1>4, <1>6, <1>7 DEF StackInv, Registry
  <1>9. Frames'
    BY <1>1, <1>2, <1>3, <1>4, <1>6, <1>7 DEF StackInv, Frames, Depth
  <1> QED BY <1>2, <1>4, <1>6, <1>7, <1>8, <1>9 DEF StackInv

LEMMA NextWindowStack ==
  ASSUME StackInv, NextWindow
  PROVE  /\ StackInv' /\ Len(calls') = Len(calls)
         /\ calls'[Len(calls)].nsize = 0
         /\ \A k \in 1 .. Len(calls) - 1 : calls'[k] = calls[k]
  <1>1. Running /\ Top.i > 0 /\ UNCHANGED <<windows, alive, should_exit, configured>>
    BY DEF NextWindow
  <1> DEFINE c == IF Top.i < Len(windows)
                  THEN [win |-> Top.win, i |-> Top.i + 1,
                        window |-> windows[Top.i + 1], nsize |-> 0]
                  ELSE [Top EXCEPT !.i = 0, !.nsize = 0]
  <1>2. /\ Len(calls) \in Nat /\ Len(calls) \in Depth
        /\ Top = calls[Len(calls)] /\ Top \in Call
        /\ Top.win \in Windows /\ Top.i \in Nat /\ Top.window \in Windows
        /\ Top.nsize \in Sizes \cup {0}
    BY <1>1, TopFacts DEF StackInv
  <1>3. Len(windows) = Len(calls)
    BY DEF StackInv, Registry
  <1>4. \A k \in Depth : windows[k] \in Windows /\ windows[k] \in alive
    BY DEF StackInv, WindowTypes, Registry
  <1>5. /\ c \in Call /\ c.win = Top.win /\ c.nsize = 0 /\ c.window \in alive
        /\ c.i <= Len(calls) /\ (c.i > 0 => c.window = windows[c.i])
    <2>1. CASE Top.i < Len(windows)
      <3>1. Top.i + 1 \in Depth /\ Top.i + 1 \in Nat
        BY <1>2, <1>3, <2>1 DEF Depth
      <3>2. c = [win |-> Top.win, i |-> Top.i + 1, window |-> windows[Top.i + 1], nsize |-> 0]
        BY <2>1
      <3> HIDE DEF c
      <3>3. c.win = Top.win /\ c.nsize = 0 /\ c.i = Top.i + 1 /\ c.window = windows[Top.i + 1]
        BY <3>2
      <3>4. c \in Call
        BY <1>2, <1>4, <3>1, <3>2 DEF Call
      <3> QED BY <1>2, <1>4, <3>1, <3>3, <3>4 DEF Depth
    <2>2. CASE ~(Top.i < Len(windows))
      <3>1. c = [Top EXCEPT !.i = 0, !.nsize = 0]
        BY <2>2
      <3>2. Top.window \in alive
        BY <1>2 DEF StackInv, Frames
      <3> HIDE DEF c
      <3>3. c \in Call /\ c.win = Top.win /\ c.nsize = 0 /\ c.i = 0 /\ c.window = Top.window
        BY <1>2, <3>1 DEF Call
      <3> QED BY <1>2, <3>2, <3>3
    <2> QED BY <2>1, <2>2
  <1> HIDE DEF c
  <1>6. calls' = Locals(c)
    BY DEF NextWindow, c
  <1>7. /\ calls' \in Seq(Call) /\ Len(calls') = Len(calls)
        /\ \A k \in Depth : calls'[k] = IF k = Len(calls) THEN c ELSE calls[k]
    BY <1>1, <1>5, <1>6, LocalsFacts DEF StackInv
  <1>8. size' \in Sizes \cup {0}
    BY <1>2 DEF NextWindow, StackInv, WindowTypes
  <1>9. WindowTypes' /\ Depth' = Depth
    BY <1>1, <1>7, <1>8 DEF StackInv, WindowTypes, Depth
  <1>10. Registry'
    BY <1>1, <1>2, <1>5, <1>7, <1>9 DEF StackInv, Registry
  <1>11. Frames'
    BY <1>1, <1>2, <1>5, <1>7, <1>9 DEF StackInv, Frames
  <1> QED BY <1>2, <1>5, <1>7, <1>9, <1>10, <1>11 DEF StackInv, Depth

LEMMA ConfigureStack ==
  ASSUME StackInv, NEW s \in Sizes, Configure(s)
  PROVE  /\ StackInv' /\ Len(calls') = Len(calls)
         /\ calls'[Len(calls)].nsize = s
         /\ \A k \in 1 .. Len(calls) - 1 : calls'[k] = calls[k]
  <1>1. Running /\ Top.i > 0 /\ UNCHANGED <<windows, alive, should_exit, size>> /\ configured' = s
    BY DEF Configure, Polling
  <1> DEFINE c == [Top EXCEPT !.nsize = s]
  <1>2. /\ Len(calls) \in Nat /\ Len(calls) \in Depth
        /\ Top = calls[Len(calls)] /\ Top \in Call
    BY <1>1, TopFacts DEF StackInv
  <1>3. c \in Call /\ c.win = Top.win /\ c.i = Top.i /\ c.window = Top.window /\ c.nsize = s
    BY <1>2 DEF Call
  <1> HIDE DEF c
  <1>4. calls' = Locals(c)
    BY DEF Configure, c
  <1>5. /\ calls' \in Seq(Call) /\ Len(calls') = Len(calls)
        /\ \A k \in Depth : calls'[k] = IF k = Len(calls) THEN c ELSE calls[k]
    BY <1>1, <1>3, <1>4, LocalsFacts DEF StackInv
  <1>6. WindowTypes' /\ Depth' = Depth
    BY <1>1, <1>5 DEF StackInv, WindowTypes, Depth
  <1>7. Registry'
    BY <1>1, <1>2, <1>3, <1>5, <1>6 DEF StackInv, Registry
  <1>8. Frames'
    BY <1>1, <1>2, <1>3, <1>5, <1>6 DEF StackInv, Frames
  <1> QED BY <1>2, <1>3, <1>5, <1>6, <1>7, <1>8 DEF StackInv, Depth

\* A flag is set; the stack stays.
LEMMA ExitStack ==
  ASSUME StackInv, UNCHANGED <<windows, alive, calls, size, configured>>,
         should_exit' \in [Windows -> BOOLEAN]
  PROVE  StackInv'
  BY DEF StackInv, WindowTypes, Registry, Frames, Depth

\* A window opens on top of the call that polls a window.
LEMMA ShowStack ==
  ASSUME StackInv, Running, Top.i > 0, NEW w \in Windows, Show(w)
  PROVE  /\ StackInv'
         /\ Len(calls') = Len(calls) + 1
         /\ calls'[Len(calls) + 1] = ShowCall(w)
         /\ \A k \in Depth : calls'[k] = calls[k]
  <1>1. /\ w \notin alive /\ alive' = alive \cup {w}
        /\ windows' = Append(windows, w) /\ calls' = Append(calls, ShowCall(w))
        /\ should_exit' = [should_exit EXCEPT ![w] = FALSE]
        /\ UNCHANGED <<size, configured>>
    BY DEF Show, NewWindow
  <1>2. ShowCall(w) \in Call
    BY DEF ShowCall, Call
  <1>3. /\ Len(calls) \in Nat /\ Len(calls) \in Depth /\ Len(windows) = Len(calls)
        /\ Top = calls[Len(calls)]
    BY TopFacts DEF StackInv, Registry
  <1>4. /\ calls' \in Seq(Call) /\ Len(calls') = Len(calls) + 1
        /\ calls'[Len(calls) + 1] = ShowCall(w)
        /\ \A k \in Depth : calls'[k] = calls[k]
    BY <1>1, <1>2, AppendProperties DEF StackInv, WindowTypes, Depth
  <1>5. /\ windows' \in Seq(Windows) /\ Len(windows') = Len(calls) + 1
        /\ windows'[Len(calls) + 1] = w
        /\ \A k \in Depth : windows'[k] = windows[k]
    BY <1>1, <1>3, AppendProperties DEF StackInv, WindowTypes, Depth
  <1>6. Depth' = Depth \cup {Len(calls) + 1} /\ Len(calls) + 1 \notin Depth
    BY <1>3, <1>4 DEF Depth
  <1>7. WindowTypes'
    BY <1>1, <1>4, <1>5 DEF StackInv, WindowTypes
  <1>8. Registry'
    <2>1. \A k \in Depth : windows[k] # w
      BY <1>1 DEF StackInv, Registry
    <2>2. Len(windows') = Len(calls')
      BY <1>4, <1>5
    <2>3. \A k \in Depth' : windows'[k] = calls'[k].win
      BY <1>4, <1>5, <1>6 DEF StackInv, Registry, ShowCall
    <2>4. \A x : x \in alive' <=> \E k \in Depth' : windows'[k] = x
      <3>1. \A x : x \in alive <=> \E k \in Depth : windows[k] = x
        BY <1>1 DEF StackInv, Registry
      <3>2. \A x : x \in alive' <=> x \in alive \/ x = w
        BY <1>1
      <3> QED BY <1>5, <1>6, <3>1, <3>2
    <2>5. \A j, k \in Depth' : windows'[j] = windows'[k] => j = k
      BY <1>5, <1>6, <2>1 DEF StackInv, Registry
    <2> QED BY <2>2, <2>3, <2>4, <2>5 DEF Registry
  <1>9. Frames'
    <2>1. ASSUME NEW k \in Depth
          PROVE  /\ calls[k].i \in Nat /\ calls[k].i > 0 /\ calls[k].i \in Depth
                 /\ k # Len(calls')
      <3>1. calls[k].i \in Nat /\ calls[k].i <= k /\ (calls[k].i = 0 => k = Len(calls))
        BY CallTypes DEF StackInv, Frames
      <3>2. calls[k].i # 0
        BY <1>3, <3>1
      <3> QED BY <1>3, <1>4, <3>1, <3>2 DEF Depth
    <2>2. calls'[Len(calls) + 1].i = 0 /\ calls'[Len(calls) + 1].window = w
          /\ calls'[Len(calls) + 1].nsize = 0
      BY <1>4 DEF ShowCall
    <2>3. ASSUME NEW k \in Depth
          PROVE  /\ calls'[k].i <= k /\ calls'[k].i # 0
                 /\ calls'[k].window = windows'[calls'[k].i]
                 /\ calls'[k].window \in alive'
      <3>1. calls'[k] = calls[k] /\ windows'[calls[k].i] = windows[calls[k].i]
        BY <1>4, <1>5, <2>1
      <3>2. /\ calls[k].i <= k /\ calls[k].i # 0 /\ calls[k].window \in alive
            /\ calls[k].window = windows[calls[k].i]
        BY <2>1 DEF StackInv, Frames
      <3> QED BY <1>1, <3>1, <3>2
    <2>4. \A k \in Depth' : k \in Depth \/ k = Len(calls')
      BY <1>4, <1>6
    <2>5. 0 <= Len(calls') /\ ~(0 > 0)
      BY <1>3, <1>4
    <2> QED BY <1>1, <1>4, <2>2, <2>3, <2>4, <2>5 DEF Frames
  <1> QED BY <1>4, <1>7, <1>8, <1>9 DEF StackInv

\* The window of the call on top is the one the registry drops.
LEMMA ReturnStack ==
  ASSUME StackInv, Return
  PROVE  /\ StackInv'
         /\ Top.win \in alive
         /\ alive' = alive \ {Top.win}
         /\ Len(calls') = Len(calls) - 1
         /\ calls[Len(calls)].nsize = 0
         /\ \A k \in 1 .. Len(calls) - 1 : calls'[k] = calls[k]
  <1>1. /\ Running /\ Top.i = 0 /\ alive' = alive \ {Top.win}
        /\ windows' = Front(windows) /\ calls' = Front(calls)
        /\ should_exit' = [should_exit EXCEPT ![Top.win] = FALSE]
        /\ UNCHANGED <<size, configured>>
    BY DEF Return, DeleteWindow
  <1>2. /\ Len(calls) \in Nat /\ Len(calls) \in Depth /\ Len(windows) = Len(calls)
        /\ Top = calls[Len(calls)] /\ Top.win \in Windows
    BY <1>1, TopFacts DEF StackInv, Registry
  <1>3. Top.win = windows[Len(calls)] /\ Top.win \in alive
    BY <1>2 DEF StackInv, Registry
  <1>4. /\ calls' \in Seq(Call) /\ Len(calls') = Len(calls) - 1
        /\ \A k \in 1 .. Len(calls) - 1 : calls'[k] = calls[k]
    BY <1>1, FrontFacts DEF StackInv, WindowTypes, Running
  <1>5. windows # <<>>
    BY <1>2, EmptySeq DEF Depth
  <1>6. /\ windows' \in Seq(Windows) /\ Len(windows') = Len(calls) - 1
        /\ \A k \in 1 .. Len(calls) - 1 : windows'[k] = windows[k]
    BY <1>1, <1>2, <1>5, FrontFacts DEF StackInv, WindowTypes
  <1>7. Depth' = 1 .. Len(calls) - 1 /\ Depth = Depth' \cup {Len(calls)}
        /\ Len(calls) \notin Depth'
    BY <1>2, <1>4 DEF Depth
  <1>8. WindowTypes'
    BY <1>1, <1>4, <1>6 DEF StackInv, WindowTypes
  <1>9. Registry'
    <2>1. \A k \in Depth' : windows[k] # Top.win
      BY <1>2, <1>3, <1>7 DEF StackInv, Registry
    <2>2. Len(windows') = Len(calls')
      BY <1>4, <1>6
    <2>3. \A k \in Depth' : windows'[k] = windows[k] /\ calls'[k] = calls[k] /\ k \in Depth
      BY <1>4, <1>6, <1>7
    <2>4. \A x : x \in alive' <=> \E k \in Depth' : windows'[k] = x
      BY <1>1, <1>3, <1>7, <2>1, <2>3 DEF StackInv, Registry
    <2> QED BY <2>2, <2>3, <2>4 DEF StackInv, Registry
  <1>10. Frames'
    <2>1. ASSUME NEW k \in Depth'
          PROVE  /\ calls[k].i \in Nat /\ calls[k].i > 0 /\ calls[k].i <= k /\ calls[k].i \in Depth'
                 /\ calls[k].window = windows[calls[k].i]
      <3>1. k \in Depth /\ k # Len(calls)
        BY <1>7
      <3>2. calls[k].i \in Nat
        BY <3>1, CallTypes DEF StackInv
      <3> QED BY <1>2, <1>7, <3>1, <3>2 DEF StackInv, Frames
    <2>2. \A k \in Depth' : windows[k] \in alive'
      BY <1>1, <1>2, <1>3, <1>7 DEF StackInv, Registry
    <2>3. ASSUME NEW k \in Depth'
          PROVE  /\ calls'[k].i <= k
                 /\ calls'[k].i > 0 => calls'[k].window = windows'[calls'[k].i]
                 /\ calls'[k].i # 0
                 /\ calls'[k].window \in alive'
      <3>1. calls'[k] = calls[k] /\ windows'[calls[k].i] = windows[calls[k].i]
        BY <1>4, <1>6, <1>7, <2>1
      <3>2. windows[calls[k].i] \in alive'
        BY <2>1, <2>2
      <3>3. calls[k].i # 0
        BY <2>1
      <3> QED BY <2>1, <3>1, <3>2, <3>3
    <2> QED BY <2>3 DEF Frames
  <1>11. calls[Len(calls)].nsize = 0
    BY <1>1, <1>2 DEF StackInv, Frames
  <1> QED BY <1>1, <1>3, <1>4, <1>8, <1>9, <1>10, <1>11 DEF StackInv

-----------------------------------------------------------------------------
(* The actions.                                                            *)

\* Whatever only sets a flag, opens menus or connects.
LEMMA QuietStep ==
  ASSUME WindowInv, should_exit' \in [Windows -> BOOLEAN], ClientTypes',
         UNCHANGED <<windows, alive, calls, size, configured, kind, lock, dialog, entry,
                     overtaken>>
  PROVE  WindowInv'
  <1>1. StackInv'
    BY ExitStack DEF WindowInv
  <1>2. LockMeansOneDialog'
    BY DEF WindowInv, LockMeansOneDialog, IsNickname
  <1>3. PendingSizes'
    BY DEF WindowInv, PendingSizes, Depth
  <1> QED BY <1>1, <1>2, <1>3 DEF WindowInv

LEMMA MenuTypes == \A opened \in MenusAtAPoint : opened \subseteq Menus
  BY DEF MenusAtAPoint, Menus

LEMMA QuietActions ==
  ASSUME WindowInv,
         \/ TypeKey \/ ClickAway \/ ClickExit \/ SetNicknameLocked \/ ClickServer
         \/ \E opened \in MenusAtAPoint : ClickBar(opened)
         \/ \E w \in Windows :
                CloseWindow(w) \/ LicenseOk(w) \/ SetNicknameOk(w) \/ SetNicknameCancel(w)
  PROVE  WindowInv' /\ UNCHANGED <<windows, alive, calls>>
  <1> USE DEF WindowInv, StackInv, WindowTypes, ClientTypes, windowVars, clientVars
  <1>1. CASE TypeKey
    <2>1. ClientTypes'
      BY <1>1 DEF TypeKey, Relayout
    <2> QED BY <1>1, <2>1, QuietStep DEF TypeKey
  <1>2. CASE ClickAway
    <2>1. ClientTypes'
      BY <1>2 DEF ClickAway
    <2> QED BY <1>2, <2>1, QuietStep DEF ClickAway
  <1>3. CASE ClickExit
    <2>1. ClientTypes'
      BY <1>3 DEF ClickExit
    <2>2. should_exit' \in [Windows -> BOOLEAN]
      BY <1>3 DEF ClickExit
    <2> QED BY <1>3, <2>1, <2>2, QuietStep DEF ClickExit
  <1>4. CASE SetNicknameLocked
    <2>1. ClientTypes'
      BY <1>4 DEF SetNicknameLocked
    <2> QED BY <1>4, <2>1, QuietStep DEF SetNicknameLocked
  <1>5. CASE ClickServer
    <2>1. ClientTypes'
      BY <1>5 DEF ClickServer
    <2> QED BY <1>5, <2>1, QuietStep DEF ClickServer
  <1>6. ASSUME NEW opened \in MenusAtAPoint, ClickBar(opened)
        PROVE  WindowInv' /\ UNCHANGED <<windows, alive, calls>>
    <2>1. ClientTypes'
      <3>1. open_menus' \subseteq Menus
        BY <1>6, MenuTypes DEF ClickBar
      <3> QED BY <1>6, <3>1 DEF ClickBar
    <2> QED BY <1>6, <2>1, QuietStep DEF ClickBar
  <1>7. ASSUME NEW w \in Windows, CloseWindow(w)
        PROVE  WindowInv' /\ UNCHANGED <<windows, alive, calls>>
    <2>1. ClientTypes'
      BY <1>7 DEF CloseWindow
    <2> QED BY <1>7, <2>1, QuietStep DEF CloseWindow, Close
  <1>8. ASSUME NEW w \in Windows, SetNicknameOk(w)
        PROVE  WindowInv' /\ UNCHANGED <<windows, alive, calls>>
    <2>1. ClientTypes'
      BY <1>8 DEF SetNicknameOk
    <2> QED BY <1>8, <2>1, QuietStep DEF SetNicknameOk, CloseDialog
  <1>9. ASSUME NEW w \in Windows, SetNicknameCancel(w)
        PROVE  WindowInv' /\ UNCHANGED <<windows, alive, calls>>
    <2>1. ClientTypes'
      BY <1>9 DEF SetNicknameCancel
    <2> QED BY <1>9, <2>1, QuietStep DEF SetNicknameCancel, CloseDialog
  <1> QED BY <1>1, <1>2, <1>3, <1>4, <1>5, <1>6, <1>7, <1>8, <1>9 DEF LicenseOk

\* The lock is not held while a new nickname dialog opens, and a dialog that
\* is not a nickname dialog leaves the lock and the pointer alone.
LEMMA OpenDialogStep ==
  ASSUME WindowInv, NEW w \in Windows, NEW k \in Kinds, OpenDialog(w, k),
         \/ k \notin {"form", "notice"} /\ UNCHANGED <<lock, dialog, entry>>
         \/ /\ k \in {"form", "notice"}
            /\ ~lock /\ lock' = TRUE /\ dialog' = w
            /\ entry' = IF k = "form" THEN "valid" ELSE entry
  PROVE  WindowInv' /\ Running /\ Top.i > 0
  <1>1. /\ Running /\ Top.i > 0 /\ Show(w)
        /\ kind' = [kind EXCEPT ![w] = k]
        /\ UNCHANGED <<connection, open_menus, strip_tall, crashed, overtaken>>
    BY DEF OpenDialog, ClickMenu, Usable, Polling
  <1>2. /\ StackInv' /\ Len(calls') = Len(calls) + 1
        /\ calls'[Len(calls) + 1] = ShowCall(w)
        /\ \A j \in Depth : calls'[j] = calls[j]
    BY <1>1, ShowStack DEF WindowInv
  <1>3. Len(calls) \in Nat
    BY <1>1, TopFacts DEF WindowInv, StackInv
  <1>4. Depth' = Depth \cup {Len(calls) + 1}
    BY <1>2, <1>3 DEF Depth
  <1>5. ClientTypes'
    BY <1>1 DEF WindowInv, ClientTypes
  <1>6. LockMeansOneDialog'
    <2>1. w \notin alive /\ alive' = alive \cup {w} /\ alive \subseteq Windows
      BY <1>1 DEF Show, NewWindow, WindowInv, StackInv, WindowTypes
    <2>2. kind'[w] = k /\ \A x \in alive : kind'[x] = kind[x]
      BY <1>1, <2>1 DEF WindowInv, ClientTypes
    <2>3. CASE k \notin {"form", "notice"} /\ UNCHANGED <<lock, dialog, entry>>
      <3>1. \A x \in alive' : IsNickname(x)' => x \in alive /\ IsNickname(x)
        BY <2>1, <2>2, <2>3 DEF IsNickname
      <3>2. \A x \in alive : IsNickname(x) => x \in alive' /\ IsNickname(x)'
        BY <2>1, <2>2 DEF IsNickname
      <3>3. \A x \in alive' : kind'[x] = "form" => x \in alive /\ kind[x] = "form"
        BY <2>1, <2>2, <2>3
      <3> QED BY <2>3, <3>1, <3>2, <3>3 DEF WindowInv, LockMeansOneDialog
    <2>4. CASE ~(k \notin {"form", "notice"} /\ UNCHANGED <<lock, dialog, entry>>)
      <3>1. ~lock /\ lock' = TRUE /\ dialog' = w /\ (k = "form" => entry' = "valid")
            /\ k \in {"form", "notice"}
        BY <2>4
      <3>2. \A x \in alive' : IsNickname(x)' => x = w
        BY <2>1, <2>2, <3>1 DEF WindowInv, LockMeansOneDialog, IsNickname
      <3>3. w \in alive' /\ IsNickname(w)'
        BY <2>1, <2>2, <3>1 DEF IsNickname
      <3>4. ASSUME NEW x \in alive', kind'[x] = "form"
            PROVE  entry' = "valid"
        BY <2>2, <3>1, <3>2, <3>4 DEF IsNickname
      <3> QED BY <3>1, <3>2, <3>3, <3>4 DEF LockMeansOneDialog
    <2> QED BY <2>3, <2>4
  <1>7. PendingSizes'
    <2>1. UNCHANGED <<size, configured>> /\ calls'[Len(calls) + 1].nsize = 0
      BY <1>1, <1>2 DEF Show, ShowCall
    <2> QED BY <1>1, <1>2, <1>4, <2>1 DEF WindowInv, PendingSizes
  <1> QED BY <1>1, <1>2, <1>5, <1>6, <1>7 DEF WindowInv

LEMMA OpenActions ==
  ASSUME WindowInv, NEW w \in Windows, OpenLicenseDialog(w) \/ OpenSetNicknameDialog(w)
  PROVE  WindowInv' /\ Running /\ Top.i > 0 /\ Show(w)
  <1>1. CASE OpenLicenseDialog(w)
    BY <1>1, OpenDialogStep DEF OpenLicenseDialog, OpenDialog, Kinds
  <1>2. CASE OpenSetNicknameDialog(w)
    <2> DEFINE k == IF connection THEN "form" ELSE "notice"
    <2>1. /\ k \in Kinds /\ k \in {"form", "notice"} /\ (k = "form" <=> connection)
          /\ OpenDialog(w, k)
          /\ ~lock /\ lock' = TRUE /\ dialog' = w
          /\ entry' = IF connection THEN "valid" ELSE entry
      BY <1>2 DEF OpenSetNicknameDialog, Kinds
    <2> HIDE DEF k
    <2>2. WindowInv' /\ Running /\ Top.i > 0
      BY <2>1, OpenDialogStep
    <2> QED BY <2>1, <2>2 DEF OpenDialog
  <1> QED BY <1>1, <1>2

LEMMA NextTurnStep ==
  ASSUME WindowInv, NextTurn
  PROVE  WindowInv' /\ Len(calls') = Len(calls)
  <1>1. StartTurn /\ UNCHANGED clientVars
    BY DEF NextTurn
  <1>2. /\ StackInv' /\ Len(calls') = Len(calls)
        /\ \A k \in Depth : calls'[k].nsize = calls[k].nsize
    BY <1>1, StartTurnStack DEF WindowInv
  <1>3. ClientTypes'
    BY <1>1 DEF WindowInv, ClientTypes, clientVars
  <1>4. LockMeansOneDialog'
    BY <1>1 DEF WindowInv, LockMeansOneDialog, IsNickname, clientVars, StartTurn
  <1>5. PendingSizes'
    <2>1. UNCHANGED <<size, configured, overtaken>> /\ Depth' = Depth
      BY <1>1, <1>2 DEF StartTurn, clientVars, Depth
    <2> QED BY <1>2, <2>1 DEF WindowInv, PendingSizes
  <1> QED BY <1>2, <1>3, <1>4, <1>5 DEF WindowInv

LEMMA NextWindowStep ==
  ASSUME WindowInv, NextWindowTasks
  PROVE  WindowInv' /\ Len(calls') = Len(calls)
  <1>1. NextWindow /\ UNCHANGED <<kind, lock, dialog, entry, open_menus, crashed, overtaken>>
    BY DEF NextWindowTasks
  <1>2. /\ StackInv' /\ Len(calls') = Len(calls)
        /\ calls'[Len(calls)].nsize = 0
        /\ \A k \in 1 .. Len(calls) - 1 : calls'[k] = calls[k]
    BY <1>1, NextWindowStack DEF WindowInv
  <1>3. strip_tall' \in BOOLEAN /\ connection' \in BOOLEAN
    BY DEF NextWindowTasks, Relayout, WindowInv, ClientTypes
  <1>4. ClientTypes'
    BY <1>1, <1>3 DEF WindowInv, ClientTypes
  <1>5. LockMeansOneDialog'
    BY <1>1 DEF WindowInv, LockMeansOneDialog, IsNickname, NextWindow
  <1>6. PendingSizes'
    <2>1. /\ Running /\ Top = calls[Len(calls)] /\ Len(calls) \in Depth
          /\ Len(calls) \in Nat
      BY <1>1, TopFacts DEF NextWindow, WindowInv, StackInv
    <2>2. UNCHANGED <<configured, overtaken>> /\ Depth' = Depth
          /\ size' = IF Top.nsize # 0 THEN Top.nsize ELSE size
      BY <1>1, <1>2 DEF NextWindow, Depth
    <2>3. \A k \in Depth : calls'[k].nsize = IF k = Len(calls) THEN 0 ELSE calls[k].nsize
      BY <1>2, <2>1 DEF Depth
    <2>4. configured' = 0 => size' = 0 /\ \A k \in Depth' : calls'[k].nsize = 0
      BY <2>1, <2>2, <2>3 DEF WindowInv, PendingSizes
    <2>5. ~overtaken' => \A k \in Depth' : calls'[k].nsize \in {0, configured'}
      BY <2>2, <2>3 DEF WindowInv, PendingSizes
    <2>6. ASSUME size' # configured', ~overtaken'
          PROVE  \E k \in Depth' : calls'[k].nsize = configured'
      <3>1. Top.nsize = 0 /\ size' = size
        BY <2>1, <2>2, <2>6 DEF WindowInv, PendingSizes
      <3>2. PICK k \in Depth : calls[k].nsize = configured
        BY <2>2, <2>6, <3>1 DEF WindowInv, PendingSizes
      <3>3. calls'[k].nsize = configured
        BY <2>1, <2>3, <3>1, <3>2
      <3> QED BY <2>2, <3>2, <3>3
    <2> QED BY <2>4, <2>5, <2>6 DEF PendingSizes
  <1> QED BY <1>2, <1>4, <1>5, <1>6 DEF WindowInv

LEMMA ConfigureStep ==
  ASSUME WindowInv, NEW s \in Sizes, ConfigureMain(s)
  PROVE  WindowInv' /\ Len(calls') = Len(calls)
  <1>1. /\ Configure(s)
        /\ overtaken' = \E k \in 1 .. Len(calls) - 1 : calls[k].nsize # 0
        /\ UNCHANGED <<kind, lock, dialog, entry, connection, open_menus, strip_tall, crashed>>
    BY DEF ConfigureMain
  <1>2. /\ StackInv' /\ Len(calls') = Len(calls)
        /\ calls'[Len(calls)].nsize = s
        /\ \A k \in 1 .. Len(calls) - 1 : calls'[k] = calls[k]
    BY <1>1, ConfigureStack DEF WindowInv
  <1>3. overtaken' \in BOOLEAN
    BY <1>1
  <1>4. ClientTypes'
    BY <1>1, <1>3 DEF WindowInv, ClientTypes
  <1>5. LockMeansOneDialog'
    BY <1>1 DEF WindowInv, LockMeansOneDialog, IsNickname, Configure
  <1>6. PendingSizes'
    <2>1. Len(calls) \in Depth /\ Len(calls) \in Nat
      BY <1>1, TopFacts DEF Configure, Polling, WindowInv, StackInv
    <2>2. configured' = s /\ s # 0 /\ Depth' = Depth
      BY <1>1, <1>2, WindowsAssumption DEF Configure, Depth
    <2>3. ~overtaken' => \A k \in Depth' : calls'[k].nsize \in {0, s}
      BY <1>1, <1>2, <2>1, <2>2 DEF Depth
    <2> QED BY <1>2, <2>1, <2>2, <2>3 DEF PendingSizes
  <1> QED BY <1>2, <1>4, <1>5, <1>6 DEF WindowInv

\* The deleted window takes the lock and the entry with it.
LEMMA DeletedStep ==
  ASSUME WindowInv, Deleted
  PROVE  WindowInv' /\ Return /\ Top.win \in alive /\ open_menus' = {}
  <1>1. /\ Return
        /\ lock' = (lock /\ ~IsNickname(Top.win))
        /\ entry' = IF kind[Top.win] = "form" THEN "freed" ELSE entry
        /\ connection' = (connection /\ kind[Top.win] # "main")
        /\ open_menus' = {}
        /\ kind' = [kind EXCEPT ![Top.win] = "main"]
        /\ UNCHANGED <<dialog, strip_tall, crashed, overtaken>>
    BY DEF Deleted
  <1>2. /\ StackInv' /\ Top.win \in alive /\ alive' = alive \ {Top.win}
        /\ Len(calls') = Len(calls) - 1
        /\ calls[Len(calls)].nsize = 0
        /\ \A k \in 1 .. Len(calls) - 1 : calls'[k] = calls[k]
    BY <1>1, ReturnStack DEF WindowInv
  <1>3. ClientTypes'
    <2>1. kind' \in [Windows -> Kinds]
      BY <1>1 DEF WindowInv, ClientTypes, Kinds
    <2>2. lock' \in BOOLEAN /\ connection' \in BOOLEAN
      BY <1>1
    <2> QED BY <1>1, <2>1, <2>2 DEF WindowInv, ClientTypes
  <1>4. LockMeansOneDialog'
    <2>1. alive \subseteq Windows
      BY DEF WindowInv, StackInv, WindowTypes
    <2>2. \A x \in alive' : x # Top.win /\ x \in alive /\ kind'[x] = kind[x]
      BY <1>1, <1>2, <2>1 DEF WindowInv, ClientTypes
    <2>3. CASE IsNickname(Top.win)
      <3>1. \A x \in alive' : ~IsNickname(x)
        BY <1>2, <2>2, <2>3 DEF WindowInv, LockMeansOneDialog
      <3> QED BY <1>1, <2>2, <2>3, <3>1 DEF LockMeansOneDialog, IsNickname
    <2>4. CASE ~IsNickname(Top.win)
      BY <1>1, <1>2, <2>2, <2>4 DEF WindowInv, LockMeansOneDialog, IsNickname
    <2> QED BY <2>3, <2>4
  <1>5. PendingSizes'
    <2>1. UNCHANGED <<size, configured, overtaken>>
      BY <1>1 DEF Return
    <2>2. /\ Len(calls) \in Nat /\ Depth = Depth' \cup {Len(calls)}
          /\ \A k \in Depth' : calls'[k] = calls[k]
      <3>1. Len(calls) \in Nat /\ Len(calls) \in Depth
        BY <1>1, TopFacts DEF Return, WindowInv, StackInv
      <3> QED BY <1>2, <3>1 DEF Depth
    <2>3. size # configured => configured # 0
      BY DEF WindowInv, PendingSizes
    <2> QED BY <1>2, <2>1, <2>2, <2>3 DEF WindowInv, PendingSizes
  <1> QED BY <1>1, <1>2, <1>3, <1>4, <1>5 DEF WindowInv

-----------------------------------------------------------------------------
(* The theorems.                                                           *)

LEMMA InitInv == Init => WindowInv
  <1> SUFFICES ASSUME Init PROVE WindowInv
    OBVIOUS
  <1> DEFINE w == CHOOSE x \in Windows : TRUE
  <1>1. w \in Windows
    BY WindowsAssumption
  <1>2. /\ windows = <<w>> /\ alive = {w} /\ calls = <<ShowCall(w)>>
        /\ should_exit = [x \in Windows |-> FALSE] /\ size = 0 /\ configured = 0
        /\ kind = [x \in Windows |-> "main"] /\ lock = FALSE /\ dialog = w
        /\ entry = "null" /\ connection = FALSE /\ open_menus = {} /\ strip_tall = FALSE
        /\ crashed = FALSE /\ overtaken = FALSE
    BY DEF Init, WindowsInit
  <1> HIDE DEF w
  <1>3. ShowCall(w) \in Call /\ ShowCall(w) = [win |-> w, i |-> 0, window |-> w, nsize |-> 0]
    BY <1>1 DEF ShowCall, Call
  <1>4. /\ Len(calls) = 1 /\ Len(windows) = 1 /\ Depth = {1}
        /\ calls[1] = ShowCall(w) /\ windows[1] = w
    BY <1>2 DEF Depth
  <1>5. WindowTypes
    BY <1>1, <1>2, <1>3 DEF WindowTypes
  <1>6. Registry
    BY <1>2, <1>3, <1>4 DEF Registry
  <1>7. Frames
    BY <1>2, <1>3, <1>4 DEF Frames
  <1>8. ClientTypes
    BY <1>1, <1>2 DEF ClientTypes, Kinds
  <1>9. LockMeansOneDialog
    BY <1>1, <1>2 DEF LockMeansOneDialog, IsNickname
  <1>10. PendingSizes
    BY <1>2, <1>3, <1>4 DEF PendingSizes
  <1> QED BY <1>5, <1>6, <1>7, <1>8, <1>9, <1>10 DEF WindowInv, StackInv

LEMMA NextInv == WindowInv /\ [Next]_vars => WindowInv'
  <1> SUFFICES ASSUME WindowInv, [Next]_vars PROVE WindowInv'
    OBVIOUS
  <1>1. CASE UNCHANGED vars
    BY <1>1, QuietStep DEF vars, windowVars, clientVars, WindowInv, StackInv, WindowTypes,
                           ClientTypes
  <1>2. CASE Loop
    BY <1>2, NextTurnStep, NextWindowStep, DeletedStep DEF Loop
  <1>3. CASE User
    BY <1>3, QuietActions, ConfigureStep, OpenActions DEF User
  <1> QED BY <1>1, <1>2, <1>3 DEF Next

THEOREM WindowsInvariant == Spec => []WindowInv
  BY InitInv, NextInv, PTL DEF Spec

\* The windows, the calls and the dialogs keep their types, however deep the
\* dialogs nest.
THEOREM TypeCorrect == Spec => []TypeOK
  <1>1. WindowInv => TypeOK
    BY DEF WindowInv, StackInv, WindowTypes, ClientTypes, TypeOK, Call
  <1> QED BY <1>1, WindowsInvariant, PTL

\* Dropping the last entry of the registry (window.cc:738) is right: it is the
\* entry of the window that is deleted, for any number of nested dialogs.
THEOREM RegistryCorrect == Spec => []RegistryMirrorsCalls
  <1>1. ASSUME WindowInv PROVE RegistryMirrorsCalls
    <2>1. /\ windows \in Seq(Windows) /\ DOMAIN windows = Depth /\ DOMAIN calls = Depth
          /\ windows = [k \in Depth |-> windows[k]]
      BY <1>1, LenProperties DEF WindowInv, StackInv, WindowTypes, Registry, Depth
    <2>2. \A k \in Depth : windows[k] = calls[k].win
      BY <1>1 DEF WindowInv, StackInv, Registry
    <2>3. windows = [k \in DOMAIN calls |-> calls[k].win]
      BY <2>1, <2>2
    <2>4. alive = ToSet(windows)
      BY <1>1, <2>1 DEF WindowInv, StackInv, Registry, ToSet
    <2>5. IsInjective(windows)
      BY <1>1, <2>1 DEF WindowInv, StackInv, Registry, IsInjective
    <2> QED BY <2>3, <2>4, <2>5 DEF RegistryMirrorsCalls
  <1> QED BY <1>1, WindowsInvariant, PTL

\* The window an interrupted loop goes on with was not deleted meanwhile
\* (window.cc:584).
THEOREM PolledWindowCorrect == Spec => []PolledWindowExists
  <1>1. ASSUME WindowInv PROVE PolledWindowExists
    <2>1. DOMAIN calls = Depth
      BY <1>1, LenProperties DEF WindowInv, StackInv, WindowTypes, Depth
    <2> QED BY <1>1, <2>1 DEF WindowInv, StackInv, Frames, PolledWindowExists
  <1> QED BY <1>1, WindowsInvariant, PTL

\* set_nickname_dialog.cc: the lock, the static pointer and the entry belong to
\* the one nickname dialog that is open.
THEOREM LockCorrect == Spec => []LockMeansOneDialog
  BY WindowsInvariant, PTL DEF WindowInv

\* window.cc:680: unless a CONFIGURE was overtaken, no size is lost.
THEOREM SizeCorrect == Spec => []SizeCurrentUnlessOvertaken
  <1>1. ASSUME WindowInv PROVE SizeCurrentUnlessOvertaken
    <2>1. DOMAIN calls = Depth
      BY <1>1, LenProperties DEF WindowInv, StackInv, WindowTypes, Depth
    <2> QED BY <1>1, <2>1 DEF WindowInv, PendingSizes, SizeCurrentUnlessOvertaken
  <1> QED BY <1>1, WindowsInvariant, PTL

-----------------------------------------------------------------------------
(* The refinement of ModalWindows.                                         *)

Asked == {w \in alive : should_exit[w]}

LEMMA RegistrySet ==
  ASSUME StackInv
  PROVE  ToSet(windows) = alive
  <1>1. DOMAIN windows = Depth
    BY LenProperties DEF StackInv, WindowTypes, Registry, Depth
  <1> QED BY <1>1 DEF StackInv, Registry, ToSet

LEMMA RunningFacts ==
  ASSUME StackInv, Running
  PROVE  /\ windows # <<>>
         /\ Main \in alive /\ Last(windows) = Top.win /\ Top.window \in alive
  <1>1. /\ Len(calls) \in Nat /\ Len(calls) \in Depth /\ 1 \in Depth
        /\ Top = calls[Len(calls)] /\ Len(windows) = Len(calls)
    BY TopFacts DEF StackInv, Registry, Depth
  <1>2. windows # <<>>
    BY <1>1, EmptySeq DEF Depth
  <1> QED BY <1>1, <1>2 DEF StackInv, Registry, Frames, Main, Last

\* The flag of an open window is set.
LEMMA ExitAsks ==
  ASSUME StackInv, NEW w \in alive, should_exit' = [should_exit EXCEPT ![w] = TRUE],
         UNCHANGED <<windows, alive>>
  PROVE  Modal!AskToClose(w) /\ w \in Windows
  <1>1. w \in Windows /\ w \in ToSet(windows)
    BY RegistrySet DEF StackInv, WindowTypes
  <1>2. Asked' = Asked \cup {w}
    BY DEF Asked, StackInv, WindowTypes
  <1> QED BY <1>1, <1>2, Zenon DEF Modal!AskToClose, Modal!ToSet, ToSet, Asked

LEMMA ShowOpens ==
  ASSUME StackInv, NEW w \in Windows, Running, Show(w)
  PROVE  Modal!Open(w)
  <1>1. /\ w \notin alive /\ alive' = alive \cup {w} /\ windows' = Append(windows, w)
        /\ should_exit' = [should_exit EXCEPT ![w] = FALSE]
    BY DEF Show, NewWindow
  <1>2. Asked' = Asked
    BY <1>1 DEF Asked, StackInv, WindowTypes
  <1>3. windows # <<>> /\ w \notin ToSet(windows)
    BY <1>1, RunningFacts, RegistrySet
  <1> QED BY <1>1, <1>2, <1>3, Zenon DEF Modal!Open, Modal!ToSet, ToSet, Asked

LEMMA ReturnCloses ==
  ASSUME StackInv, Return
  PROVE  Modal!Close
  <1>1. /\ Running /\ should_exit[Top.win] /\ alive' = alive \ {Top.win}
        /\ windows' = Front(windows)
        /\ should_exit' = [should_exit EXCEPT ![Top.win] = FALSE]
    BY DEF Return, DeleteWindow
  <1>2. windows # <<>> /\ Last(windows) = Top.win /\ Top.win \in alive
    BY <1>1, RunningFacts, ReturnStack
  <1>3. Asked' = Asked \ {Top.win}
    BY <1>1, <1>2 DEF Asked, StackInv, WindowTypes
  <1>4. Last(windows) \in Asked
    BY <1>1, <1>2 DEF Asked
  <1>5. Asked' = Asked \ {Last(windows)}
    BY <1>2, <1>3
  <1> QED BY <1>1, <1>2, <1>4, <1>5, Zenon
          DEF Modal!Close, Modal!Last, Modal!Front, Last, Front, Asked

LEMMA ModalStep ==
  ASSUME WindowInv, [Next]_vars
  PROVE  [Modal!Next]_<<windows, Asked>>
  <1>1. StackInv
    BY DEF WindowInv
  <1>2. ASSUME UNCHANGED <<windows, alive, should_exit>>
        PROVE  UNCHANGED <<windows, Asked>>
    BY <1>2 DEF Asked
  <1>3. CASE UNCHANGED vars \/ TypeKey \/ ClickAway \/ SetNicknameLocked \/ ClickServer
             \/ NextTurn \/ NextWindowTasks
    BY <1>2, <1>3 DEF vars, windowVars, TypeKey, ClickAway, SetNicknameLocked, ClickServer,
                      NextTurn, StartTurn, NextWindowTasks, NextWindow
  <1>4. CASE \/ \E s \in Sizes : ConfigureMain(s)
             \/ \E opened \in MenusAtAPoint : ClickBar(opened)
    BY <1>2, <1>4 DEF ConfigureMain, Configure, ClickBar, windowVars
  <1>5. CASE Deleted
    BY <1>1, <1>5, ReturnCloses DEF Deleted, Modal!Next
  <1>6. CASE ClickExit
    <2>1. Running /\ should_exit' = [should_exit EXCEPT ![Main] = TRUE]
          /\ UNCHANGED <<windows, alive>>
      BY <1>6 DEF ClickExit, ClickMenu, Usable, Polling
    <2>2. PICK w \in alive : w = Main
      BY <1>1, <2>1, RunningFacts
    <2>3. should_exit' = [should_exit EXCEPT ![w] = TRUE]
      BY <2>1, <2>2
    <2>4. Modal!AskToClose(w) /\ w \in Windows
      BY <1>1, <2>1, <2>3, ExitAsks
    <2> QED BY <2>4 DEF Modal!Next
  <1>7. ASSUME NEW w \in Windows, CloseWindow(w)
        PROVE  Modal!Next
    <2>1. Polling(w) /\ should_exit' = [should_exit EXCEPT ![w] = TRUE]
          /\ UNCHANGED <<windows, alive>>
      BY <1>7 DEF CloseWindow, Close
    <2>2. w \in alive
      BY <1>1, <2>1, RunningFacts DEF Polling
    <2> QED BY <1>1, <2>1, <2>2, ExitAsks DEF Modal!Next
  <1>8. ASSUME NEW w \in Windows, SetNicknameOk(w) \/ SetNicknameCancel(w)
        PROVE  Modal!Next
    <2>1. Polling(w) /\ IsNickname(w) /\ should_exit' = [should_exit EXCEPT ![dialog] = TRUE]
          /\ UNCHANGED <<windows, alive>>
      BY <1>8 DEF SetNicknameOk, SetNicknameCancel, CloseDialog, IsNickname
    <2>2. w \in alive
      BY <1>1, <2>1, RunningFacts DEF Polling
    <2>3. dialog = w
      BY <2>1, <2>2 DEF WindowInv, LockMeansOneDialog
    <2> QED BY <1>1, <2>1, <2>2, <2>3, ExitAsks DEF Modal!Next
  <1>9. ASSUME NEW w \in Windows, OpenLicenseDialog(w) \/ OpenSetNicknameDialog(w)
        PROVE  Modal!Next
    BY <1>1, <1>9, OpenActions, ShowOpens DEF Modal!Next
  <1> QED BY <1>3, <1>4, <1>5, <1>6, <1>7, <1>8, <1>9
          DEF Next, Loop, User, LicenseOk

\* The nested loops, the flags and the counted registry are modal windows: the
\* window on top is the only one that goes, and only after it was asked to.
THEOREM WindowsAreModal == Spec => ImplementsModal
  <1>1. Init => Modal!Init
    <2> SUFFICES ASSUME Init PROVE Modal!Init
      OBVIOUS
    <2>1. (CHOOSE x \in Windows : TRUE) \in Windows
      BY WindowsAssumption
    <2>2. \E w \in Windows : windows = <<w>> /\ alive = {w}
      BY <2>1 DEF Init, WindowsInit
    <2>3. Asked = {}
      BY <2>1 DEF Init, WindowsInit, Asked
    <2> QED BY <2>2, <2>3 DEF Modal!Init, Asked
  <1>2. WindowInv /\ [Next]_vars => [Modal!Next]_<<windows, {w \in alive : should_exit[w]}>>
    BY ModalStep DEF Asked
  <1> QED BY <1>1, <1>2, WindowsInvariant, PTL DEF Spec, ImplementsModal, Modal!Spec
=============================================================================
