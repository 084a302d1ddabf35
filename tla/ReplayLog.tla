----------------------------- MODULE ReplayLog -----------------------------
(***************************************************************************)
(* What the replay buffer promises (packages/ws/src/replay-buffer.ts,      *)
(* "Fixed-capacity circular buffer. Overwrites oldest entries when full"): *)
(* the window of the last Cap items pushed since the last clear, oldest    *)
(* first.  WsServer keeps the frames of a credential in such a window.     *)
(***************************************************************************)
EXTENDS Naturals, Sequences

CONSTANTS
  Items,      \* what is pushed
  Cap         \* the capacity

VARIABLE window

\* The window after a push.
Slide(w, x) == Append(IF Len(w) < Cap THEN w ELSE Tail(w), x)

LogInit == window = <<>>

LogPush(x) == window' = Slide(window, x)
LogClear == window' = <<>>

LogNext == LogClear \/ \E x \in Items : LogPush(x)

LogSpec == LogInit /\ [][LogNext]_window
=============================================================================
