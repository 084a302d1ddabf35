---------------------------- MODULE ReplayBuffer ----------------------------
(***************************************************************************)
(* CircularBuffer of packages/ws/src/replay-buffer.ts: an array written at *)
(* "head" modulo its capacity, read back from "start".                     *)
(***************************************************************************)
EXTENDS Integers, Sequences

CONSTANTS
  Items,      \* what is pushed
  Cap,        \* the capacity
  Undefined   \* an array slot never written

ASSUME CapAssumption == Cap \in Nat \ {0}
ASSUME UndefinedAssumption == Undefined \notin Items

VARIABLES buffer, head, count

vars == <<buffer, head, count>>

Fresh == [i \in 0..(Cap - 1) |-> Undefined]

Init == buffer = Fresh /\ head = 0 /\ count = 0

Advance(h) == (h + 1) % Cap

push(x) ==
  /\ buffer' = [buffer EXCEPT ![head] = x]
  /\ head' = Advance(head)
  /\ count' = IF count < Cap THEN count + 1 ELSE count

\* Mutant of clear: the write position is kept.
ClearKeepsHead ==
  /\ buffer' = Fresh /\ count' = 0
  /\ UNCHANGED head

clear == buffer' = Fresh /\ head' = 0 /\ count' = 0

Next == clear \/ \E x \in Items : push(x)

Spec == Init /\ [][Next]_vars

-----------------------------------------------------------------------------
(* Reading *)

\* Mutant of start: always reads from the first slot.
FirstSlot == 0

start == IF count < Cap THEN 0 ELSE head

\* The slots the loops of itemsSince and toArray visit, in their order.
Visited == [i \in 1..count |-> buffer[(start + i - 1) % Cap]]

\* What the loops have pushed to "result" after "count" rounds: the contents of
\* a visited slot, if they are kept.
Collect(kept) ==
  LET result[n \in 0..count] ==
        IF n = 0 THEN <<>>
        ELSE IF Visited[n] \in kept THEN Append(result[n - 1], Visited[n]) ELSE result[n - 1]
  IN  result[count]

\* wanted: the items the predicate of itemsSince accepts.
itemsSince(wanted) == Collect(wanted \ {Undefined})
toArray == Collect({buffer[i] : i \in 0..(Cap - 1)} \ {Undefined})
oldest == IF count = 0 THEN Undefined ELSE buffer[start]

-----------------------------------------------------------------------------
(* Properties *)

\* Types, and the positions that make the modular arithmetic work: until it
\* wraps the buffer is written from slot 0 on, and no counted slot is empty.
RingInv ==
  /\ buffer \in [0..(Cap - 1) -> Items \cup {Undefined}]
  /\ head \in 0..(Cap - 1)
  /\ count \in 0..Cap
  /\ count < Cap => head = count
  /\ \A i \in 0..(count - 1) : buffer[i] \in Items

\* r consists of the wanted items of the window, each as often as the window
\* holds it and in the order of the window.
Selects(r, wanted) ==
  \E at \in [1..Len(r) -> 1..count] :
    /\ \A i, j \in 1..Len(r) : i < j => at[i] < at[j]
    /\ \A n \in 1..count : Visited[n] \in wanted <=> \E i \in 1..Len(r) : at[i] = n
    /\ \A i \in 1..Len(r) : r[i] = Visited[at[i]]

\* itemsSince returns exactly what the predicate accepts, "preserving insertion
\* order"; toArray returns every counted item, so that the "item !== undefined"
\* test of the code never drops one; oldest() is the first of them.
ReadsEverything ==
  /\ \A wanted \in SUBSET Items : Selects(itemsSince(wanted), wanted)
  /\ toArray = Visited
  /\ count > 0 => oldest = toArray[1]

Log == INSTANCE ReplayLog WITH window <- Visited

\* The array, its head and its count behave as the window of the last Cap
\* pushes, through every wrap-around and clear (push and clear against
\* ReplayLog).
ImplementsLog == Log!LogSpec
=============================================================================
