---------------------------- MODULE StoresProofs ----------------------------
(***************************************************************************)
(* Proofs about what the signet keeps for itself: the replay buffer of a   *)
(* credential (ReplayBuffer), the key ring behind the biometric gate       *)
(* (KeyRing), the verifier and its limiter (Verifier), the wallets with    *)
(* their accounts (Wallets) and the secrets on disk (KeyStore).            *)
(***************************************************************************)
EXTENDS ReplayBuffer, KeyStore, KeyRing, Wallets, Verifier, TLAPS, SequenceTheorems,
        FiniteSetTheorems, WellFoundedInduction

-----------------------------------------------------------------------------
(* ReplayBuffer: CircularBuffer implements the window of the last Cap pushes, *)
(* for every capacity and every set of items.                                *)

\* The only two cases of % the buffer meets: positions below twice the
\* capacity (Advance and the read loops of replay-buffer.ts).
LEMMA ModCases ==
  \A n \in 0..(2 * Cap - 1) : n % Cap = IF n < Cap THEN n ELSE n - Cap
<1>1. SUFFICES ASSUME NEW n \in 0..(2 * Cap - 1)
               PROVE  n % Cap = IF n < Cap THEN n ELSE n - Cap
  OBVIOUS
<1>2. CASE n < Cap
  BY <1>2, CapAssumption
<1>3. CASE n >= Cap
  BY <1>3, CapAssumption
<1>4. QED
  BY <1>2, <1>3, CapAssumption


\* Advance stays in the array and wraps exactly at the last slot.
LEMMA AdvanceCases ==
  \A h \in 0..(Cap - 1) : Advance(h) = IF h + 1 = Cap THEN 0 ELSE h + 1
<1>1. SUFFICES ASSUME NEW h \in 0..(Cap - 1)
               PROVE  Advance(h) = IF h + 1 = Cap THEN 0 ELSE h + 1
  OBVIOUS
<1>2. h + 1 \in 0..(2 * Cap - 1)
  BY CapAssumption
<1>3. QED
  BY <1>2, ModCases, CapAssumption DEF Advance

\* The slot the i-th round of a read loop visits.
LEMMA SlotCases ==
  \A s \in 0..(Cap - 1), i \in 1..Cap :
    (s + i - 1) % Cap = IF s + i - 1 < Cap THEN s + i - 1 ELSE s + i - 1 - Cap
<1>1. SUFFICES ASSUME NEW s \in 0..(Cap - 1), NEW i \in 1..Cap
               PROVE  (s + i - 1) % Cap =
                        IF s + i - 1 < Cap THEN s + i - 1 ELSE s + i - 1 - Cap
  OBVIOUS
<1>2. s + i - 1 \in 0..(2 * Cap - 1)
  BY CapAssumption
<1>3. PICK n \in 0..(2 * Cap - 1) : n = s + i - 1
  BY <1>2
<1>4. n % Cap = IF n < Cap THEN n ELSE n - Cap
  BY ModCases
<1>5. QED
  BY <1>3, <1>4, CapAssumption

\* The ring invariant holds initially and survives push and clear.
LEMMA BufferStart == Init => RingInv
BY CapAssumption DEF Init, RingInv, Fresh

LEMMA BufferStep == RingInv /\ [Next]_vars => RingInv'
<1>1. SUFFICES ASSUME RingInv, [Next]_vars PROVE RingInv'
  OBVIOUS
<1>2. ASSUME NEW x \in Items, push(x) PROVE RingInv'
  <2>1. head' = IF head + 1 = Cap THEN 0 ELSE head + 1
    BY <1>1, <1>2, AdvanceCases DEF push, RingInv
  <2>2. buffer' \in [0..(Cap - 1) -> Items \cup {Undefined}]
    BY <1>1, <1>2 DEF push, RingInv
  <2>3. head' \in 0..(Cap - 1) /\ count' \in 0..Cap /\ (count' < Cap => head' = count')
    BY <1>1, <1>2, <2>1, CapAssumption DEF push, RingInv
  <2>4. \A i \in 0..(count' - 1) : buffer'[i] \in Items
    BY <1>1, <1>2, CapAssumption DEF push, RingInv
  <2>5. QED
    BY <2>2, <2>3, <2>4 DEF RingInv
<1>3. CASE clear
  BY <1>3, CapAssumption DEF clear, RingInv, Fresh
<1>4. CASE UNCHANGED vars
  BY <1>1, <1>4 DEF vars, RingInv
<1>5. QED
  BY <1>1, <1>2, <1>3, <1>4 DEF Next

\* The positions of the circular buffer (replay-buffer.ts) are consistent in
\* every reachable state, for every capacity.
THEOREM RingInvariant == Spec => []RingInv
<1>1. QED
  BY BufferStart, BufferStep, PTL DEF Spec

\* Reading a buffer of n items from position s gives a sequence of items.
LEMMA ReadSeq ==
  ASSUME NEW buf \in [0..(Cap - 1) -> Items \cup {Undefined}],
         NEW n \in 0..Cap, NEW s \in 0..(Cap - 1),
         n < Cap => s = 0,
         \A i \in 0..(n - 1) : buf[i] \in Items
  PROVE  LET V == [i \in 1..n |-> buf[(s + i - 1) % Cap]]
         IN  V \in Seq(Items) /\ Len(V) = n
<1> DEFINE V == [i \in 1..n |-> buf[(s + i - 1) % Cap]]
<1>1. ASSUME NEW i \in 1..n
      PROVE  buf[(s + i - 1) % Cap] \in Items
  <2>1. i \in 1..Cap
    BY CapAssumption
  <2>2. (s + i - 1) % Cap = IF s + i - 1 < Cap THEN s + i - 1 ELSE s + i - 1 - Cap
    BY <2>1, SlotCases
  <2>3. (s + i - 1) % Cap \in 0..(n - 1)
    BY <2>1, <2>2, CapAssumption
  <2>4. QED
    BY <2>3
<1>2. V \in [1..n -> Items]
  BY <1>1
<1>3. QED
  BY <1>2, CapAssumption

\* Induction on the natural numbers, for a set instead of a predicate.
LEMMA Induction ==
  ASSUME NEW S, 0 \in S, \A n \in Nat : n \in S => n + 1 \in S
  PROVE  Nat \subseteq S
<1> DEFINE T == Nat \ S
<1>1. SUFFICES ASSUME T # {} PROVE FALSE
  OBVIOUS
<1>2. T \subseteq Nat
  OBVIOUS
<1> HIDE DEF T
<1>3. PICK x \in T : \A y \in T : ~(<<y, x>> \in OpToRel(<, Nat))
  BY <1>1, <1>2, NatLessThanWellFounded, WFMin
<1>4. x \in Nat /\ x \notin S
  BY DEF T
<1>5. x # 0 /\ x - 1 \in Nat
  BY <1>4
<1>6. x - 1 \notin S
  <2>1. x = (x - 1) + 1
    BY <1>4
  <2> QED
    BY <1>4, <1>5, <2>1
<1>7. x - 1 \in T /\ x - 1 < x
  BY <1>4, <1>5, <1>6 DEF T
<1> QED
  BY <1>2, <1>3, <1>7 DEF OpToRel

\* What the loop has collected after each of its rounds over v.
Round(v, kept, g, n) ==
  IF n = 0 THEN <<>> ELSE IF v[n] \in kept THEN Append(g[n - 1], v[n]) ELSE g[n - 1]

Rounds(v, kept, g, N) == g = [n \in 0..N |-> Round(v, kept, g, n)]


\* The recursive function of Collect exists, and Collect is its last value.
LEMMA RoundsExist ==
  ASSUME NEW v, NEW kept, NEW N \in Nat
  PROVE  \E g : Rounds(v, kept, g, N)
<1> DEFINE S == {n \in Nat : \E g : Rounds(v, kept, g, n)}
<1>1. 0 \in S
  <2>1. Rounds(v, kept, [n \in 0..0 |-> <<>>], 0)
    BY DEF Rounds, Round
  <2> QED
    BY <2>1
<1>2. ASSUME NEW n \in Nat, n \in S PROVE n + 1 \in S
  <2>1. PICK g : Rounds(v, kept, g, n)
    BY <1>2
  <2> DEFINE h == [m \in 0..(n + 1) |-> IF m = n + 1 THEN Round(v, kept, g, n + 1) ELSE g[m]]
  <2>2. \A m \in 0..n : g[m] = Round(v, kept, g, m)
    BY <2>1 DEF Rounds
  <2>3. \A m \in 0..n : h[m] = g[m]
    OBVIOUS
  <2>4. ASSUME NEW m \in 0..(n + 1) PROVE h[m] = Round(v, kept, h, m)
    <3>1. m = 0 \/ h[m - 1] = g[m - 1]
      BY <2>3
    <3>2. Round(v, kept, h, m) = Round(v, kept, g, m)
      BY <3>1 DEF Round
    <3>3. CASE m = n + 1
      BY <3>2, <3>3
    <3>4. CASE m \in 0..n
      BY <2>2, <2>3, <3>2, <3>4
    <3> QED
      BY <3>3, <3>4
  <2>5. h = [m \in 0..(n + 1) |-> h[m]]
    OBVIOUS
  <2> HIDE DEF h
  <2>6. h = [m \in 0..(n + 1) |-> Round(v, kept, h, m)]
    BY <2>4, <2>5
  <2>7. Rounds(v, kept, h, n + 1)
    BY <2>6 DEF Rounds
  <2> QED
    BY <2>7
<1> HIDE DEF S
<1>3. N \in S
  BY <1>1, <1>2, Induction
<1> QED
  BY <1>3 DEF S

LEMMA CollectRounds ==
  ASSUME NEW kept, RingInv
  PROVE  \E g : Rounds(Visited, kept, g, count) /\ Collect(kept) = g[count]
<1> DEFINE g == CHOOSE g : g = [n \in 0..count |-> Round(Visited, kept, g, n)]
<1>1. count \in Nat
  BY CapAssumption DEF RingInv
<1>2. \E f : f = [n \in 0..count |-> Round(Visited, kept, f, n)]
  BY <1>1, RoundsExist DEF Rounds
<1>3. g = [n \in 0..count |-> Round(Visited, kept, g, n)]
  BY <1>2
<1>4. Collect(kept) = g[count]
  BY DEF Collect, Round
<1> QED
  BY <1>3, <1>4 DEF Rounds

\* The rounds collect sequences.
LEMMA RoundsType ==
  ASSUME NEW N \in Nat, NEW X, NEW v \in [1..N -> X], NEW kept, NEW g, Rounds(v, kept, g, N)
  PROVE  \A n \in 0..N : g[n] \in Seq(X) /\ g[n] = Round(v, kept, g, n)
<1> DEFINE S == {n \in Nat : n > N \/ g[n] \in Seq(X)}
<1>1. \A n \in 0..N : g[n] = Round(v, kept, g, n)
  BY DEF Rounds
<1>2. 0 \in S
  <2>1. g[0] = <<>>
    BY <1>1 DEF Round
  <2>2. <<>> \in Seq(X)
    OBVIOUS
  <2> QED
    BY <2>1, <2>2
<1>3. ASSUME NEW n \in Nat, n \in S PROVE n + 1 \in S
  <2>1. CASE n + 1 > N
    BY <2>1
  <2>2. CASE n + 1 \in 1..N
    <3>1. g[n] \in Seq(X) /\ v[n + 1] \in X
      BY <1>3, <2>2
    <3>2. g[n + 1] = IF v[n + 1] \in kept THEN Append(g[n], v[n + 1]) ELSE g[n]
      <4>1. n + 1 \in 0..N /\ n + 1 # 0 /\ (n + 1) - 1 = n
        BY <2>2
      <4> QED
        BY <1>1, <4>1 DEF Round
    <3>3. g[n + 1] \in Seq(X)
      BY <3>1, <3>2
    <3> QED
      BY <3>3
  <2> QED
    BY <2>1, <2>2
<1> HIDE DEF S
<1>4. \A n \in 0..N : n \in S
  BY <1>2, <1>3, Induction
<1> QED
  BY <1>1, <1>4 DEF S

\* r consists of the kept elements of the first n of v, in their order.
Picks(v, kept, n, r, at) ==
  /\ at \in [1..Len(r) -> 1..n]
  /\ \A i, j \in 1..Len(r) : i < j => at[i] < at[j]
  /\ \A m \in 1..n : v[m] \in kept <=> \E i \in 1..Len(r) : at[i] = m
  /\ \A i \in 1..Len(r) : r[i] = v[at[i]]

LEMMA PickMore ==
  ASSUME NEW N \in Nat, NEW X, NEW v \in [1..N -> X], NEW kept, NEW n \in Nat, n + 1 \in 1..N,
         NEW r \in Seq(X), NEW at, Picks(v, kept, n, r, at)
  PROVE  \E bt : Picks(v, kept, n + 1, IF v[n + 1] \in kept THEN Append(r, v[n + 1]) ELSE r, bt)
<1>1. CASE v[n + 1] \notin kept
  <2>1. Picks(v, kept, n + 1, r, at)
    <3>1. at \in [1..Len(r) -> 1..(n + 1)]
      BY DEF Picks
    <3>2. ASSUME NEW m \in 1..(n + 1) PROVE v[m] \in kept <=> \E i \in 1..Len(r) : at[i] = m
      <4>1. CASE m \in 1..n
        BY <4>1 DEF Picks
      <4>2. CASE m = n + 1
        BY <1>1, <4>2 DEF Picks
      <4> QED
        BY <4>1, <4>2
    <3> QED
      BY <3>1, <3>2 DEF Picks
  <2> QED
    BY <1>1, <2>1
<1>2. CASE v[n + 1] \in kept
  <2> DEFINE x == v[n + 1]
             s == Append(r, x)
             bt == [i \in 1..(Len(r) + 1) |-> IF i = Len(r) + 1 THEN n + 1 ELSE at[i]]
  <2>1. /\ x \in X /\ Len(r) \in Nat /\ Len(s) = Len(r) + 1 /\ s[Len(r) + 1] = x
        /\ \A i \in 1..Len(r) : s[i] = r[i]
    OBVIOUS
  <2>2. /\ bt[Len(r) + 1] = n + 1 /\ \A i \in 1..Len(r) : bt[i] = at[i]
        /\ \A i \in 1..Len(r) : at[i] \in 1..n
    <3>1. /\ Len(r) + 1 \in 1..(Len(r) + 1)
          /\ \A i \in 1..Len(r) : i \in 1..(Len(r) + 1) /\ i # Len(r) + 1
      BY <2>1
    <3>2. \A i \in 1..Len(r) : at[i] \in 1..n
      BY DEF Picks
    <3> QED
      BY <3>1, <3>2
  <2>3. bt \in [1..Len(s) -> 1..(n + 1)]
    BY <2>1, <2>2
  <2> HIDE DEF s, bt, x
  <2>4. ASSUME NEW i \in 1..Len(s), NEW j \in 1..Len(s), i < j PROVE bt[i] < bt[j]
    <3>1. CASE j = Len(r) + 1
      BY <2>1, <2>2, <2>4, <3>1
    <3>2. CASE j \in 1..Len(r)
      BY <2>1, <2>2, <2>4, <3>2 DEF Picks
    <3> QED
      BY <2>1, <3>1, <3>2
  <2>5. ASSUME NEW m \in 1..(n + 1) PROVE v[m] \in kept <=> \E i \in 1..Len(s) : bt[i] = m
    <3>1. CASE m = n + 1
      BY <1>2, <2>1, <2>2, <3>1
    <3>2. CASE m \in 1..n
      <4>1. v[m] \in kept <=> \E i \in 1..Len(r) : at[i] = m
        BY <3>2 DEF Picks
      <4>2. ASSUME NEW i \in 1..Len(s), bt[i] = m PROVE i \in 1..Len(r)
        BY <2>1, <2>2, <3>2, <4>2
      <4> QED
        BY <2>1, <2>2, <4>1, <4>2
    <3> QED
      BY <3>1, <3>2
  <2>6. ASSUME NEW i \in 1..Len(s) PROVE s[i] = v[bt[i]]
    <3>1. CASE i = Len(r) + 1
      BY <2>1, <2>2, <3>1 DEF x
    <3>2. CASE i \in 1..Len(r)
      BY <2>1, <2>2, <3>2 DEF Picks
    <3> QED
      BY <2>1, <3>1, <3>2
  <2>7. Picks(v, kept, n + 1, s, bt)
    BY <2>3, <2>4, <2>5, <2>6 DEF Picks
  <2> QED
    BY <1>2, <2>7 DEF s, x
<1> QED
  BY <1>1, <1>2

LEMMA RoundsPick ==
  ASSUME NEW N \in Nat, NEW X, NEW v \in [1..N -> X], NEW kept, NEW g, Rounds(v, kept, g, N)
  PROVE  \E at : Picks(v, kept, N, g[N], at)
<1> DEFINE S == {n \in Nat : n > N \/ \E at : Picks(v, kept, n, g[n], at)}
<1>1. \A n \in 0..N : g[n] \in Seq(X) /\ g[n] = Round(v, kept, g, n)
  BY RoundsType
<1>2. 0 \in S
  <2>1. g[0] = <<>>
    BY <1>1 DEF Round
  <2>2. Picks(v, kept, 0, <<>>, <<>>)
    BY DEF Picks
  <2> QED
    BY <2>1, <2>2
<1>3. ASSUME NEW n \in Nat, n \in S PROVE n + 1 \in S
  <2>1. CASE n + 1 > N
    BY <2>1
  <2>2. CASE n + 1 \in 1..N
    <3>1. n + 1 \in 0..N /\ n + 1 # 0 /\ (n + 1) - 1 = n /\ n \in 0..N /\ ~(n > N)
      BY <2>2
    <3>2. g[n + 1] = IF v[n + 1] \in kept THEN Append(g[n], v[n + 1]) ELSE g[n]
      BY <1>1, <3>1 DEF Round
    <3>3. PICK at : Picks(v, kept, n, g[n], at)
      BY <1>3, <3>1
    <3>4. g[n] \in Seq(X)
      BY <1>1, <3>1
    <3>5. \E bt : Picks(v, kept, n + 1,
                        IF v[n + 1] \in kept THEN Append(g[n], v[n + 1]) ELSE g[n], bt)
      BY <2>2, <3>3, <3>4, PickMore
    <3>6. \E bt : Picks(v, kept, n + 1, g[n + 1], bt)
      BY <3>2, <3>5
    <3> QED
      BY <3>6
  <2> QED
    BY <2>1, <2>2
<1> HIDE DEF S
<1>4. N \in S
  BY <1>2, <1>3, Induction
<1> QED
  BY <1>4 DEF S

\* r is the end of v from "first" on, when that is what is kept.
IsTail(v, kept, N, r) ==
  \A first \in 1..(N + 1) :
    (\A n \in 1..N : v[n] \in kept <=> n >= first) =>
      /\ Len(r) = N + 1 - first
      /\ \A i \in 1..(N + 1 - first) : r[i] = v[first + i - 1]

\* When what is kept is the end of v from "first" on, the rounds collect that end.
LEMMA RoundsTail ==
  ASSUME NEW N \in Nat, NEW X, NEW v \in [1..N -> X], NEW kept, NEW g, Rounds(v, kept, g, N)
  PROVE  IsTail(v, kept, N, g[N])
<1>1. \A n \in 0..N : g[n] \in Seq(X) /\ g[n] = Round(v, kept, g, n)
  BY RoundsType
<1> SUFFICES ASSUME NEW first \in 1..(N + 1), \A n \in 1..N : v[n] \in kept <=> n >= first
             PROVE  /\ Len(g[N]) = N + 1 - first
                    /\ \A i \in 1..(N + 1 - first) : g[N][i] = v[first + i - 1]
  BY DEF IsTail
<1> DEFINE Ends(n) == /\ Len(g[n]) = IF n < first THEN 0 ELSE n + 1 - first
                      /\ \A i \in 1..Len(g[n]) : g[n][i] = v[first + i - 1]
           S == {n \in Nat : n > N \/ Ends(n)}
<1>2. 0 \in S
  <2>1. g[0] = <<>>
    BY <1>1 DEF Round
  <2> QED
    BY <2>1
<1>3. ASSUME NEW n \in Nat, n \in S PROVE n + 1 \in S
  <2>1. CASE n + 1 > N
    BY <2>1
  <2>2. CASE n + 1 \in 1..N
    <3>1. n + 1 \in 0..N /\ n + 1 # 0 /\ (n + 1) - 1 = n /\ n \in 0..N /\ ~(n > N)
      BY <2>2
    <3>2. g[n + 1] = IF v[n + 1] \in kept THEN Append(g[n], v[n + 1]) ELSE g[n]
      BY <1>1, <3>1 DEF Round
    <3>3. Ends(n) /\ g[n] \in Seq(X) /\ v[n + 1] \in X
      BY <1>1, <1>3, <2>2, <3>1
    <3>4. CASE n + 1 < first
      <4>1. g[n + 1] = g[n]
        BY <2>2, <3>2, <3>4
      <4> QED
        BY <3>3, <3>4, <4>1
    <3>5. CASE n + 1 >= first
      <4>1. g[n + 1] = Append(g[n], v[n + 1])
        BY <2>2, <3>2, <3>5
      <4>2. /\ Len(g[n + 1]) = Len(g[n]) + 1 /\ g[n + 1][Len(g[n]) + 1] = v[n + 1]
            /\ \A i \in 1..Len(g[n]) : g[n + 1][i] = g[n][i]
        BY <3>3, <4>1
      <4>3. Len(g[n]) = n + 1 - first
        BY <3>3, <3>5
      <4>4. Len(g[n + 1]) = n + 1 + 1 - first
        BY <4>2, <4>3
      <4>5. ASSUME NEW i \in 1..Len(g[n + 1]) PROVE g[n + 1][i] = v[first + i - 1]
        <5>1. CASE i = Len(g[n]) + 1
          BY <4>2, <4>3, <5>1
        <5>2. CASE i \in 1..Len(g[n])
          BY <3>3, <4>2, <5>2
        <5> QED
          BY <4>3, <4>4, <5>1, <5>2
      <4>6. Ends(n + 1)
        BY <3>5, <4>4, <4>5
      <4> QED
        BY <4>6
    <3> QED
      BY <3>4, <3>5
  <2> QED
    BY <2>1, <2>2
<1> HIDE DEF S
<1>4. N \in S
  BY <1>2, <1>3, Induction
<1>5. Ends(N)
  BY <1>4 DEF S
<1>6. Len(g[N]) = N + 1 - first
  <2>1. Len(g[N]) = IF N < first THEN 0 ELSE N + 1 - first
    BY <1>5
  <2>2. N < first => first = N + 1
    OBVIOUS
  <2> HIDE DEF Ends
  <2> QED
    BY <2>1, <2>2
<1>7. \A i \in 1..(N + 1 - first) : g[N][i] = v[first + i - 1]
  <2>1. \A i \in 1..Len(g[N]) : g[N][i] = v[first + i - 1]
    BY <1>5
  <2> QED
    BY <1>6, <2>1
<1> QED
  BY <1>6, <1>7

\* The window holds the counted items.
LEMMA WindowItems ==
  ASSUME RingInv
  PROVE  /\ count \in Nat /\ Visited \in [1..count -> Items]
         /\ Visited \in Seq(Items) /\ Len(Visited) = count
<1>1. start \in 0..(Cap - 1) /\ count \in 0..Cap /\ (count < Cap => start = 0)
  BY CapAssumption DEF RingInv, start
<1>2. Visited \in Seq(Items) /\ Len(Visited) = count
  BY <1>1, ReadSeq DEF RingInv, Visited
<1> QED
  BY <1>1, <1>2, CapAssumption

\* What itemsSince collects is the wanted part of the window.
LEMMA CollectSelects ==
  ASSUME RingInv, NEW wanted, wanted \subseteq Items
  PROVE  Selects(itemsSince(wanted), wanted)
<1> DEFINE r == itemsSince(wanted)
<1>1. wanted \ {Undefined} = wanted
  BY UndefinedAssumption
<1>2. PICK g : Rounds(Visited, wanted, g, count) /\ r = g[count]
  BY <1>1, CollectRounds DEF itemsSince
<1>3. PICK at : Picks(Visited, wanted, count, g[count], at)
  BY <1>2, WindowItems, RoundsPick
<1> HIDE DEF r
<1>4. Picks(Visited, wanted, count, r, at)
  BY <1>2, <1>3
<1>5. Selects(r, wanted)
  BY <1>4 DEF Selects, Picks
<1> QED
  BY <1>5 DEF r

\* What a read collects when it keeps the end of the window.
LEMMA CollectRest ==
  ASSUME RingInv, NEW kept
  PROVE  IsTail(Visited, kept, count, Collect(kept)) /\ Collect(kept) \in Seq(Items)
<1>1. PICK g : Rounds(Visited, kept, g, count) /\ Collect(kept) = g[count]
  BY CollectRounds
<1>2. count \in Nat /\ Visited \in [1..count -> Items] /\ count \in 0..count
  BY WindowItems
<1>3. IsTail(Visited, kept, count, g[count])
  BY <1>1, <1>2, RoundsTail
<1>4. g[count] \in Seq(Items)
  BY <1>1, <1>2, RoundsType
<1> QED
  BY <1>1, <1>3, <1>4

\* When the predicate accepts the end of the window and nothing before it, as "f.seq > last" does
\* on frames in the order of their numbers, itemsSince returns that end.
LEMMA CollectTail ==
  ASSUME RingInv, NEW kept, NEW first \in 1..(count + 1),
         \A n \in 1..count : Visited[n] \in kept <=> n >= first
  PROVE  Collect(kept) = SubSeq(Visited, first, count)
<1> DEFINE r == Collect(kept)
           t == SubSeq(Visited, first, count)
<1>2. /\ r \in Seq(Items) /\ Len(r) = count + 1 - first
      /\ \A i \in 1..(count + 1 - first) : r[i] = Visited[first + i - 1]
  BY CollectRest DEF IsTail
<1>3. /\ t \in Seq(Items) /\ Len(t) = count + 1 - first
      /\ \A i \in 1..(count + 1 - first) : t[i] = Visited[first + i - 1]
  BY WindowItems, SubSeqProperties
<1>4. r \in Seq(Items) /\ Len(r) = Len(t) /\ \A i \in 1..Len(r) : r[i] = t[i]
  BY <1>2, <1>3
<1> HIDE DEF r, t
<1>5. r = t
  BY <1>3, <1>4, SeqEqual
<1> QED
  BY <1>5 DEF r, t

\* "item !== undefined" holds of every counted slot.
LEMMA ToArrayVisited == ASSUME RingInv PROVE toArray = Visited
<1> DEFINE kept == {buffer[i] : i \in 0..(Cap - 1)} \ {Undefined}
<1>1. ASSUME NEW n \in 1..count PROVE Visited[n] \in kept
  <2>1. /\ start \in 0..(Cap - 1) /\ count \in 0..Cap
    BY CapAssumption DEF RingInv, start
  <2>2. n \in 1..Cap
    BY <2>1, CapAssumption
  <2>3. (start + n - 1) % Cap \in 0..(Cap - 1)
    BY <2>1, <2>2, SlotCases, CapAssumption
  <2>4. Visited[n] = buffer[(start + n - 1) % Cap]
    BY DEF Visited
  <2>5. Visited[n] # Undefined
    BY WindowItems, UndefinedAssumption
  <2> QED
    BY <2>3, <2>4, <2>5
<1> HIDE DEF kept
<1>2. Collect(kept) = SubSeq(Visited, 1, count)
  <2>1. 1 \in 1..(count + 1) /\ \A n \in 1..count : Visited[n] \in kept <=> n >= 1
    BY <1>1, WindowItems
  <2> QED
    BY <2>1, CollectTail
<1>3. SubSeq(Visited, 1, count) = Visited
  BY WindowItems
<1> QED
  BY <1>2, <1>3 DEF toArray, kept

\* itemsSince returns exactly the items its predicate accepts, in insertion
\* order, toArray every counted item and oldest() the first (replay-buffer.ts).
THEOREM ReadsAreExact == Spec => []ReadsEverything
<1>1. RingInv => ReadsEverything
  <2> SUFFICES ASSUME RingInv PROVE ReadsEverything
    OBVIOUS
  <2>1. ASSUME count > 0 PROVE oldest = Visited[1]
    <3>1. start \in 0..(Cap - 1) /\ count \in Nat
      BY CapAssumption DEF RingInv, start
    <3>2. Visited[1] = buffer[start % Cap] /\ 1 \in 1..Cap
      BY <2>1, <3>1, CapAssumption DEF Visited
    <3>3. start % Cap = start
      BY <3>1, ModCases, CapAssumption
    <3> QED
      BY <2>1, <3>2, <3>3 DEF oldest
  <2> QED
    BY <2>1, CollectSelects, ToArrayVisited DEF ReadsEverything
<1> QED
  BY <1>1, RingInvariant, PTL

\* What WsServer reads of a buffer whose frames rise in their numbers: the end of
\* the window, from the first accepted frame on.
TailRead ==
  \A wanted \in SUBSET Items : \A first \in 1..(count + 1) :
    (\A n \in 1..count : Visited[n] \in wanted <=> n >= first)
    => itemsSince(wanted) = SubSeq(Visited, first, count)

\* The filter of itemsSince on an ordered window is its end, which is how ItemsSince of
\* WsServer reads the buffer (replay-buffer.ts, handleAuthFrame of server.ts).
THEOREM RisingReadsAreTails == Spec => []TailRead
<1>1. RingInv => TailRead
  <2> SUFFICES ASSUME RingInv, NEW wanted \in SUBSET Items, NEW first \in 1..(count + 1),
                      \A n \in 1..count : Visited[n] \in wanted <=> n >= first
               PROVE  itemsSince(wanted) = SubSeq(Visited, first, count)
    BY DEF TailRead
  <2>1. wanted \ {Undefined} = wanted
    BY UndefinedAssumption
  <2> QED
    BY <2>1, CollectTail DEF itemsSince
<1> QED
  BY <1>1, RingInvariant, PTL

\* A push into the array is a push into the window.
LEMMA PushSlides ==
  ASSUME RingInv, RingInv', NEW x \in Items, push(x)
  PROVE  Visited' = Log!Slide(Visited, x)
<1> DEFINE W == Visited
           W2 == Visited'
           Kept == IF Len(W) < Cap THEN W ELSE Tail(W)
<1>1. /\ start \in 0..(Cap - 1) /\ count \in 0..Cap /\ (count < Cap => start = 0)
      /\ start' \in 0..(Cap - 1) /\ count' \in 0..Cap /\ (count' < Cap => start' = 0)
  BY CapAssumption DEF RingInv, start
<1>2. W \in Seq(Items) /\ Len(W) = count
  BY <1>1, ReadSeq DEF RingInv, Visited
<1>3. W2 \in Seq(Items) /\ Len(W2) = count'
  BY <1>1, ReadSeq DEF RingInv, Visited
<1>4. \A i \in 1..count :
        W[i] = buffer[IF start + i - 1 < Cap THEN start + i - 1 ELSE start + i - 1 - Cap]
  <2>1. \A i \in 1..count : i \in 1..Cap
    BY <1>1, CapAssumption
  <2>2. QED
    BY <1>1, <2>1, SlotCases DEF Visited
<1>5. \A i \in 1..count' :
        W2[i] = buffer'[IF start' + i - 1 < Cap THEN start' + i - 1 ELSE start' + i - 1 - Cap]
  <2>1. \A i \in 1..count' : i \in 1..Cap
    BY <1>1, CapAssumption
  <2>2. QED
    BY <1>1, <2>1, SlotCases DEF Visited
<1>6. head' = IF head + 1 = Cap THEN 0 ELSE head + 1
  BY AdvanceCases DEF push, RingInv
<1>7. Kept \in Seq(Items) /\ Len(Kept) = count' - 1
  <2>1. CASE count < Cap
    BY <2>1, <1>1, <1>2 DEF push
  <2>2. CASE count = Cap
    BY <2>2, <1>1, <1>2, CapAssumption DEF push
  <2>3. QED
    BY <2>1, <2>2, <1>1, CapAssumption
<1>8. ASSUME NEW i \in 1..count'
      PROVE  W2[i] = Append(Kept, x)[i]
  <2>1. CASE count < Cap
    <3>1. Kept = W /\ count' = count + 1 /\ start = 0 /\ head = count
      BY <2>1, <1>1, <1>2, CapAssumption DEF push, RingInv
    <3>2. start' = 0
      BY <2>1, <3>1, <1>6, <1>1, CapAssumption DEF start
    <3>3. W2[i] = buffer'[i - 1]
      BY <3>1, <3>2, <1>5, <1>1, CapAssumption
    <3>4. CASE i = count'
      BY <3>1, <3>3, <3>4, <1>2, <1>1, CapAssumption DEF push, RingInv
    <3>5. CASE i < count'
      <4>1. W[i] = buffer[i - 1]
        BY <3>1, <3>5, <1>4, <1>1, CapAssumption
      <4>2. buffer'[i - 1] = buffer[i - 1]
        BY <3>1, <3>5, <1>1, CapAssumption DEF push, RingInv
      <4>3. Append(W, x)[i] = W[i]
        BY <3>1, <3>5, <1>2, <1>1
      <4>4. QED
        BY <3>1, <3>3, <4>1, <4>2, <4>3
    <3>6. i = count' \/ i < count'
      BY <1>1, CapAssumption
    <3>7. QED
      BY <3>4, <3>5, <3>6, Zenon
  <2>2. CASE count = Cap
    <3>1. Kept = Tail(W) /\ count' = Cap /\ start = head /\ start' = head'
      BY <2>2, <1>1, <1>2, CapAssumption DEF push, start
    <3>2. CASE i = Cap
      <4> DEFINE j == IF head' + i - 1 < Cap THEN head' + i - 1 ELSE head' + i - 1 - Cap
      <4>0. j = head
        BY <3>2, <1>6, <1>1, CapAssumption DEF RingInv
      <4>1. W2[i] = buffer'[head]
        <5>1. W2[i] = buffer'[j]
          BY <3>1, <1>5
        <5>2. QED
          BY <5>1, <4>0
      <4>2. buffer'[head] = x
        BY DEF push, RingInv
      <4>3. Append(Kept, x)[i] = x
        BY <3>1, <3>2, <1>7, CapAssumption
      <4>4. QED
        BY <4>1, <4>2, <4>3
    <3>3. CASE i < Cap
      <4> DEFINE j == IF head + i < Cap THEN head + i ELSE head + i - Cap
      <4>1. W2[i] = buffer'[j]
        BY <3>1, <3>3, <1>5, <1>6, <1>1, CapAssumption DEF RingInv
      <4>2. j \in 0..(Cap - 1) /\ j # head
        BY <3>1, <3>3, <1>1, CapAssumption DEF RingInv
      <4>3. buffer'[j] = buffer[j]
        BY <4>2 DEF push, RingInv
      <4>4. W[i + 1] = buffer[j]
        BY <2>2, <3>1, <3>3, <1>4, <1>1, CapAssumption DEF RingInv
      <4>5. Append(Kept, x)[i] = W[i + 1]
        BY <2>2, <3>1, <3>3, <1>2, <1>7, <1>1, CapAssumption
      <4>6. QED
        BY <4>1, <4>3, <4>4, <4>5
    <3>4. i = Cap \/ i < Cap
      BY <3>1, CapAssumption
    <3>5. QED
      BY <3>2, <3>3, <3>4, Zenon
  <2>3. count < Cap \/ count = Cap
    BY <1>1, CapAssumption
  <2>4. QED
    BY <2>1, <2>2, <2>3, Zenon
<1>9. Append(Kept, x) \in Seq(Items) /\ Len(Append(Kept, x)) = count'
  BY <1>7, <1>1, CapAssumption DEF push
<1>10. W2 = Append(Kept, x)
  BY <1>3, <1>8, <1>9
<1>11. QED
  BY <1>10 DEF Log!Slide

\* push and clear of replay-buffer.ts implement the window of the last Cap
\* pushes: no wrap-around loses, duplicates or reorders an item.
THEOREM BufferImplementsLog == Spec => ImplementsLog
<1>1. Init => Log!LogInit
  BY CapAssumption DEF Init, Log!LogInit, Visited
<1>2. RingInv /\ RingInv' /\ [Next]_vars => [Log!LogNext]_Visited
  <2>1. SUFFICES ASSUME RingInv, RingInv', [Next]_vars
                 PROVE  Log!LogNext \/ UNCHANGED Visited
    OBVIOUS
  <2>2. ASSUME NEW x \in Items, push(x) PROVE Log!LogNext
    BY <2>1, <2>2, PushSlides DEF Log!LogNext, Log!LogPush
  <2>3. CASE clear
    <3>1. Visited' = <<>>
      BY <2>3 DEF clear, Visited
    <3>2. QED
      BY <3>1 DEF Log!LogNext, Log!LogClear
  <2>4. CASE UNCHANGED vars
    BY <2>4 DEF vars, Visited, start
  <2>5. QED
    BY <2>1, <2>2, <2>3, <2>4 DEF Next
<1>3. QED
  BY <1>1, <1>2, RingInvariant, PTL DEF Spec, ImplementsLog, Log!LogSpec

-----------------------------------------------------------------------------
(* KeyRing: a key is generated by an approved call, one caller at a time     *)
(* creates the gate key, and a signature knows whether its key was replaced. *)

RingCall ==
    [at : {"idle", "generate", "prompt", "waitkey", "secreate", "saveref", "signing"},
     op : {"none", "create", "rotate", "authorize", "stamp"},
     id : Identities \cup {"none"}, key : Nat, approved : BOOLEAN, replaced : BOOLEAN]

RingTypes ==
    /\ gateRef \in Nat /\ seKeys \in Nat /\ made \in Nat /\ ringFaults \in Nat
    /\ opKey \in [Identities -> Nat]
    /\ ringCall \in [RingCallers -> RingCall]

\* What a call has established at its next step.
RingCallHolds(r) ==
    /\ r.at \in {"generate", "prompt", "waitkey", "secreate", "saveref"} =>
          r.op \in {"create", "rotate", "authorize"} /\ r.id \in Identities
    /\ r.at = "generate" => (r.op # "authorize" /\ (GateOf[r.op] \in gating => r.approved))
    /\ r.op = "stamp" => (r.at = "signing" /\ r.id \in Identities)
    /\ r.at = "signing" => (r.op = "stamp" /\ (r.replaced \/ r.key = opKey[r.id]))
    /\ r.at = "saveref" => r.key # 0

\* The gate key has one creator, and none once its reference is on disk; a key
\* without a reference was lost by a fault.
OneGateKey ==
    /\ \A c \in RingCallers :
          ringCall[c].at \in {"secreate", "saveref"} => inflight = c /\ gateRef = 0
    /\ seKeys <= ringFaults + 1
    /\ gateRef = 0 /\ (\A c \in RingCallers : ringCall[c].at # "saveref") =>
          seKeys <= ringFaults

KeyRingInv ==
    /\ RingTypes
    /\ \A c \in RingCallers : RingCallHolds(ringCall[c])
    /\ OneGateKey
    /\ RingSound

LEMMA KeyRingStart == ASSUME RingInit PROVE KeyRingInv
BY KeyRingBounds DEF RingInit, KeyRingInv, RingTypes, RingCall, RingIdle, RingCallHolds, OneGateKey,
   RingSound, GateHolds

\* A step of one call that leaves operational keys and gate keys alone.
LEMMA RingCallStep ==
  ASSUME KeyRingInv, NEW c \in RingCallers, NEW r \in RingCall, ringCall' = [ringCall EXCEPT ![c] = r],
         UNCHANGED <<gating, gateRef, seKeys, opKey, made, ringFaults, unapproved>>,
         RingCallHolds(r), r.at \notin {"secreate", "saveref"},
         ringCall[c].at \notin {"secreate", "saveref"}, UNCHANGED inflight,
         \A e \in envelopes' : e \in envelopes \/ e.signed = e.named \/ e.replaced
  PROVE  KeyRingInv'
<1>1. RingTypes'
  BY DEF KeyRingInv, RingTypes
<1>2. \A d \in RingCallers : RingCallHolds(ringCall[d])'
  BY DEF KeyRingInv, RingTypes, RingCallHolds
<1>3. OneGateKey'
  BY DEF KeyRingInv, RingTypes, OneGateKey
<1>4. RingSound'
  BY DEF KeyRingInv, RingSound, GateHolds
<1> QED BY <1>1, <1>2, <1>3, <1>4 DEF KeyRingInv

LEMMA BeginGatedRing ==
  ASSUME KeyRingInv, NEW c \in RingCallers, NEW op \in {"create", "rotate", "authorize"},
         NEW i \in Identities, BeginGated(c, op, i)
  PROVE  KeyRingInv'
<1> DEFINE r == [RingIdle EXCEPT !.at = GateStep(op), !.op = op, !.id = i]
<1>1. /\ ringCall' = [ringCall EXCEPT ![c] = r]
      /\ inflight' = IF GateStep(op) = "secreate" THEN c ELSE inflight
      /\ ringCall[c] = RingIdle /\ GateStep(op) # "refused"
      /\ op = "authorize" => GateStep(op) # "generate"
      /\ UNCHANGED <<gating, gateRef, seKeys, opKey, made, ringFaults, envelopes, unapproved>>
  BY DEF BeginGated, SetCall, Busy, ConfigVars
<1>2. GateStep(op) \in {"generate", "prompt", "waitkey", "secreate"}
  BY <1>1 DEF GateStep
<1>3. /\ r \in RingCall /\ r.at = GateStep(op) /\ r.op = op /\ r.id = i /\ r.key = 0
  BY <1>2 DEF RingIdle, RingCall
<1> HIDE DEF r
<1>4. GateStep(op) = "generate" => GateOf[op] \notin gating
  BY DEF GateStep
<1>5. RingCallHolds(r)
  BY <1>1, <1>2, <1>3, <1>4 DEF RingCallHolds
<1>6. CASE GateStep(op) = "secreate"
  <2>1. gateRef = 0 /\ inflight = Nobody
    BY <1>6 DEF GateStep
  <2>2. \A d \in RingCallers : ringCall[d].at \notin {"secreate", "saveref"}
    BY <2>1, RingIds DEF KeyRingInv, OneGateKey
  <2>3. RingTypes'
    BY <1>1, <1>3 DEF KeyRingInv, RingTypes
  <2>4. \A d \in RingCallers : RingCallHolds(ringCall[d])'
    BY <1>1, <1>5 DEF KeyRingInv, RingTypes, RingCallHolds
  <2>5. OneGateKey'
    BY <1>1, <1>3, <1>6, <2>1, <2>2 DEF KeyRingInv, RingTypes, OneGateKey
  <2>6. RingSound'
    BY <1>1 DEF KeyRingInv, RingSound, GateHolds
  <2> QED BY <2>3, <2>4, <2>5, <2>6 DEF KeyRingInv
<1>7. CASE GateStep(op) # "secreate"
  <2>1. r.at \notin {"secreate", "saveref"} /\ ringCall[c].at \notin {"secreate", "saveref"}
    BY <1>1, <1>2, <1>3, <1>7 DEF RingIdle
  <2> QED BY <1>1, <1>3, <1>5, <1>7, <2>1, RingCallStep
<1> QED BY <1>6, <1>7

LEMMA StampRing ==
  ASSUME KeyRingInv, NEW c \in RingCallers, NEW i \in Identities, Stamp(c, i)
  PROVE  KeyRingInv'
<1> DEFINE r == [RingIdle EXCEPT !.at = "signing", !.op = "stamp", !.id = i, !.key = opKey[i]]
<1>1. /\ ringCall' = [ringCall EXCEPT ![c] = r] /\ ringCall[c] = RingIdle
      /\ UNCHANGED <<gating, gateRef, seKeys, opKey, made, ringFaults, envelopes, unapproved,
                     inflight>>
  BY DEF Stamp, SetCall, Busy, ConfigVars
<1>2. r \in RingCall /\ r.at = "signing" /\ r.op = "stamp" /\ r.id = i /\ r.key = opKey[i]
  BY DEF KeyRingInv, RingTypes, RingIdle, RingCall
<1> HIDE DEF r
<1>3. RingCallHolds(r)
  BY <1>2 DEF RingCallHolds
<1>4. ringCall[c].at \notin {"secreate", "saveref"}
  BY <1>1 DEF RingIdle
<1> QED BY <1>1, <1>2, <1>3, <1>4, RingCallStep

LEMMA SeCreateRing ==
  ASSUME KeyRingInv, NEW c \in RingCallers, SeCreate(c)
  PROVE  KeyRingInv'
<1> DEFINE r == [ringCall[c] EXCEPT !.at = "saveref", !.key = seKeys + 1]
<1>1. /\ ringCall' = [ringCall EXCEPT ![c] = r] /\ ringCall[c].at = "secreate"
      /\ seKeys' = seKeys + 1
      /\ UNCHANGED <<gating, gateRef, inflight, opKey, made, ringFaults, envelopes, unapproved>>
  BY DEF SeCreate, SetCall, ConfigVars
<1>2. /\ r \in RingCall /\ r.at = "saveref" /\ r.key = seKeys + 1
      /\ r.op = ringCall[c].op /\ r.id = ringCall[c].id
  <2>1. ringCall[c] \in RingCall /\ seKeys + 1 \in Nat
    BY DEF KeyRingInv, RingTypes
  <2> QED BY <2>1 DEF RingCall
<1> HIDE DEF r
<1>3. RingCallHolds(ringCall[c])
  BY DEF KeyRingInv
<1>4. RingCallHolds(r)
  BY <1>1, <1>2, <1>3 DEF KeyRingInv, RingTypes, RingCallHolds
<1>5. RingTypes'
  BY <1>1, <1>2 DEF KeyRingInv, RingTypes
<1>6. \A d \in RingCallers : RingCallHolds(ringCall[d])'
  BY <1>1, <1>4 DEF KeyRingInv, RingTypes, RingCallHolds
<1>7. OneGateKey'
  <2>1. gateRef = 0 /\ inflight = c
    BY <1>1 DEF KeyRingInv, OneGateKey
  <2>2. \A d \in RingCallers : ringCall[d].at # "saveref"
    BY <1>1, <2>1 DEF KeyRingInv, OneGateKey
  <2>3. seKeys <= ringFaults
    BY <2>1, <2>2 DEF KeyRingInv, OneGateKey
  <2> QED BY <1>1, <1>2, <2>1, <2>3 DEF KeyRingInv, RingTypes, OneGateKey
<1>8. RingSound'
  BY <1>1, <1>7, <1>5 DEF KeyRingInv, RingSound, GateHolds, OneGateKey
<1> QED BY <1>5, <1>6, <1>7, <1>8 DEF KeyRingInv

\* The end of ensureGateKey, with the reference saved or not.
LEMMA SettledRing ==
  ASSUME KeyRingInv, NEW c \in RingCallers, ringCall[c].at \in {"secreate", "saveref"},
         NEW at \in {"prompt", "idle"}, Settled(c, at), inflight' = Nobody,
         gateRef' \in Nat, ringFaults' \in Nat, ringFaults' >= ringFaults,
         gateRef' = 0 => seKeys <= ringFaults',
         UNCHANGED <<gating, seKeys, opKey, made, envelopes, unapproved>>
  PROVE  KeyRingInv'
<1>1. \A d \in RingCallers :
         \/ ringCall'[d] = ringCall[d]
              /\ d # c /\ ringCall[d].at # "waitkey"
         \/ ringCall'[d] = RingIdle
         \/ ringCall'[d] = [ringCall[d] EXCEPT !.at = "prompt"]
              /\ ringCall[d].at \in {"waitkey", "secreate", "saveref"}
  BY DEF Settled, KeyRingInv, RingTypes
<1>2. ringCall' \in [RingCallers -> RingCall]
  <2>1. ASSUME NEW d \in RingCallers PROVE ringCall'[d] \in RingCall
    <3>1. ringCall[d] \in RingCall
      BY DEF KeyRingInv, RingTypes
    <3>2. RingIdle \in RingCall
      BY DEF RingCall, RingIdle
    <3>3. [ringCall[d] EXCEPT !.at = "prompt"] \in RingCall
      BY <3>1 DEF RingCall
    <3> QED BY <1>1, <3>1, <3>2, <3>3
  <2> QED BY <2>1 DEF Settled
<1>3. RingTypes'
  BY <1>2 DEF KeyRingInv, RingTypes
<1>4. ASSUME NEW d \in RingCallers PROVE RingCallHolds(ringCall[d])'
  <2>0. RingCallHolds(ringCall[d]) /\ ringCall[d] \in RingCall
    BY DEF KeyRingInv, RingTypes
  <2>1. CASE ringCall'[d] = ringCall[d]
    BY <2>0, <2>1 DEF RingCallHolds
  <2>2. CASE ringCall'[d] = RingIdle
    BY <2>2 DEF RingCallHolds, RingIdle
  <2>3. CASE /\ ringCall'[d] = [ringCall[d] EXCEPT !.at = "prompt"]
             /\ ringCall[d].at \in {"waitkey", "secreate", "saveref"}
    <3>1. /\ ringCall'[d].at = "prompt" /\ ringCall'[d].op = ringCall[d].op
          /\ ringCall'[d].id = ringCall[d].id
      BY <2>0, <2>3 DEF RingCall
    <3> QED BY <2>0, <2>3, <3>1 DEF RingCallHolds
  <2> QED BY <1>1, <2>1, <2>2, <2>3
<1>5. \A d \in RingCallers : ringCall'[d].at \notin {"secreate", "saveref"}
  <2>1. \A d \in RingCallers : ringCall[d].at \in {"secreate", "saveref"} => d = c
    BY DEF KeyRingInv, OneGateKey
  <2>2. ASSUME NEW d \in RingCallers PROVE ringCall'[d].at \notin {"secreate", "saveref"}
    <3>1. ringCall[d] \in RingCall
      BY DEF KeyRingInv, RingTypes
    <3>2. RingIdle.at = "idle" /\ [ringCall[d] EXCEPT !.at = "prompt"].at = "prompt"
      BY <3>1 DEF RingCall, RingIdle
    <3> QED BY <1>1, <2>1, <3>2
  <2> QED BY <2>2
<1>6. OneGateKey'
  <2>1. seKeys \in Nat /\ ringFaults \in Nat /\ seKeys <= ringFaults + 1
    BY DEF KeyRingInv, RingTypes, OneGateKey
  <2>2. seKeys' <= ringFaults' + 1
    <3>1. seKeys' = seKeys
      OBVIOUS
    <3>2. ASSUME NEW n \in Nat, NEW k \in Nat, NEW m \in Nat, n <= k + 1, m >= k PROVE n <= m + 1
      BY <3>2
    <3> QED BY <2>1, <3>1, <3>2
  <2>3. gateRef' = 0 => seKeys' <= ringFaults'
    BY <2>1
  <2> QED BY <1>5, <2>2, <2>3 DEF OneGateKey
<1>7. RingSound'
  BY <1>6 DEF KeyRingInv, RingSound, GateHolds, OneGateKey
<1> QED BY <1>3, <1>4, <1>6, <1>7 DEF KeyRingInv

LEMMA GateKeyRing ==
  ASSUME KeyRingInv, NEW c \in RingCallers, SaveGateRef(c) \/ GateKeyFails(c)
  PROVE  KeyRingInv'
<1>0. RingCallHolds(ringCall[c]) /\ ringCall[c] \in RingCall /\ seKeys <= ringFaults + 1
  BY DEF KeyRingInv, RingTypes, OneGateKey
<1>1. CASE SaveGateRef(c)
  <2>1. gateRef' \in Nat /\ gateRef' # 0 /\ UNCHANGED ringFaults /\ ringFaults \in Nat
    BY <1>0, <1>1 DEF SaveGateRef, RingCallHolds, RingCall, KeyRingInv, RingTypes
  <2> QED BY <1>1, <2>1, SettledRing DEF SaveGateRef, ConfigVars
<1>2. CASE GateKeyFails(c)
  <2>1. ringFaults' \in Nat /\ ringFaults' >= ringFaults /\ seKeys <= ringFaults'
            /\ gateRef' \in Nat
    BY <1>0, <1>2 DEF GateKeyFails, KeyRingInv, RingTypes
  <2> QED BY <1>2, <2>1, SettledRing DEF GateKeyFails, ConfigVars
<1> QED BY <1>1, <1>2

LEMMA PromptRing ==
  ASSUME KeyRingInv, NEW c \in RingCallers, Prompt(c)
  PROVE  KeyRingInv'
<1> DEFINE r == [ringCall[c] EXCEPT !.at = "generate", !.approved = TRUE]
<1>0. RingCallHolds(ringCall[c]) /\ ringCall[c] \in RingCall /\ ringCall[c].at = "prompt"
  BY DEF KeyRingInv, RingTypes, Prompt
<1>1. /\ \/ ringCall' = [ringCall EXCEPT ![c] = RingIdle]
         \/ ringCall[c].op # "authorize" /\ ringCall' = [ringCall EXCEPT ![c] = r]
      /\ UNCHANGED <<gating, gateRef, seKeys, opKey, made, ringFaults, envelopes, unapproved,
                     inflight>>
  BY DEF Prompt, SetCall, ConfigVars
<1>2. CASE ringCall' = [ringCall EXCEPT ![c] = RingIdle]
  <2>1. RingIdle \in RingCall /\ RingCallHolds(RingIdle) /\ RingIdle.at = "idle"
    BY DEF RingIdle, RingCall, RingCallHolds
  <2> QED BY <1>0, <1>1, <1>2, <2>1, RingCallStep
<1>3. CASE ringCall[c].op # "authorize" /\ ringCall' = [ringCall EXCEPT ![c] = r]
  <2>1. /\ r \in RingCall /\ r.at = "generate" /\ r.approved /\ r.op = ringCall[c].op
        /\ r.id = ringCall[c].id
    BY <1>0 DEF RingCall
  <2> HIDE DEF r
  <2>2. RingCallHolds(r)
    BY <1>0, <1>3, <2>1 DEF RingCallHolds
  <2> QED BY <1>0, <1>1, <1>3, <2>1, <2>2, RingCallStep
<1> QED BY <1>1, <1>2, <1>3

LEMMA GenerateRing ==
  ASSUME KeyRingInv, NEW c \in RingCallers, Generate(c)
  PROVE  KeyRingInv'
<1> DEFINE i == ringCall[c].id
<1>0. /\ RingCallHolds(ringCall[c]) /\ ringCall[c] \in RingCall /\ ringCall[c].at = "generate"
      /\ i \in Identities /\ made \in Nat /\ opKey \in [Identities -> Nat]
  BY DEF KeyRingInv, RingTypes, Generate, RingCallHolds
<1>1. /\ made' = made + 1 /\ opKey' = [opKey EXCEPT ![i] = made + 1]
      /\ UNCHANGED <<gating, gateRef, seKeys, ringFaults, envelopes, inflight>>
  BY DEF Generate, ConfigVars
<1>2. \A d \in RingCallers :
         \/ ringCall'[d] = RingIdle
         \/ /\ ringCall[d].op = "stamp" /\ ringCall[d].id = i
            /\ ringCall'[d] = [ringCall[d] EXCEPT !.replaced = TRUE]
         \/ /\ ringCall'[d] = ringCall[d]
            /\ ringCall[d].op # "stamp" \/ ringCall[d].id # i
  BY DEF Generate
<1>3. ringCall' \in [RingCallers -> RingCall]
  <2>1. ASSUME NEW d \in RingCallers PROVE ringCall'[d] \in RingCall
    <3>1. ringCall[d] \in RingCall
      BY DEF KeyRingInv, RingTypes
    <3>2. RingIdle \in RingCall
      BY DEF RingCall, RingIdle
    <3>3. [ringCall[d] EXCEPT !.replaced = TRUE] \in RingCall
      BY <3>1 DEF RingCall
    <3> QED BY <1>2, <3>1, <3>2, <3>3
  <2> QED BY <2>1 DEF Generate
<1>4. RingTypes'
  BY <1>0, <1>1, <1>3 DEF KeyRingInv, RingTypes
<1>5. ASSUME NEW d \in RingCallers PROVE RingCallHolds(ringCall[d])'
  <2>0. RingCallHolds(ringCall[d]) /\ ringCall[d] \in RingCall
    BY DEF KeyRingInv, RingTypes
  <2>1. CASE ringCall'[d] = RingIdle
    BY <2>1 DEF RingCallHolds, RingIdle
  <2>2. CASE ringCall[d].op = "stamp" /\ ringCall'[d] = [ringCall[d] EXCEPT !.replaced = TRUE]
    <3>1. /\ ringCall'[d].at = "signing" /\ ringCall'[d].op = "stamp" /\ ringCall'[d].replaced
          /\ ringCall'[d].id \in Identities
      BY <2>0, <2>2 DEF RingCall, RingCallHolds
    <3> QED BY <3>1 DEF RingCallHolds
  <2>3. CASE ringCall'[d] = ringCall[d] /\ (ringCall[d].op # "stamp" \/ ringCall[d].id # i)
    <3>1. ringCall[d].at = "signing" => opKey'[ringCall[d].id] = opKey[ringCall[d].id]
      BY <1>0, <1>1, <2>0, <2>3 DEF RingCallHolds
    <3> QED BY <1>1, <2>0, <2>3, <3>1 DEF RingCallHolds
  <2> QED BY <1>2, <2>1, <2>2, <2>3
<1>6. ASSUME NEW d \in RingCallers
      PROVE  ringCall'[d].at = ringCall[d].at \/ ringCall'[d].at = "idle"
  <2>1. ringCall[d] \in RingCall
    BY DEF KeyRingInv, RingTypes
  <2>2. RingIdle.at = "idle" /\ [ringCall[d] EXCEPT !.replaced = TRUE].at = ringCall[d].at
    BY <2>1 DEF RingCall, RingIdle
  <2> QED BY <1>2, <2>2
<1>7. \A d \in RingCallers : ringCall[d].at = "saveref" => ringCall'[d].at = "saveref"
  <2>1. ASSUME NEW d \in RingCallers, ringCall[d].at = "saveref" PROVE ringCall'[d] = ringCall[d]
    <3>1. RingCallHolds(ringCall[d])
      BY DEF KeyRingInv
    <3>2. d # c /\ ringCall[d].op # "stamp"
      BY <1>0, <2>1, <3>1 DEF RingCallHolds
    <3> QED BY <3>2 DEF Generate
  <2> QED BY <2>1
<1>8. OneGateKey'
  BY <1>1, <1>6, <1>7 DEF KeyRingInv, RingTypes, OneGateKey
<1>9. RingSound'
  <2>1. UNCHANGED unapproved
    BY <1>0 DEF Generate, RingCallHolds
  <2> QED BY <1>1, <2>1 DEF KeyRingInv, RingSound, GateHolds
<1> QED BY <1>4, <1>5, <1>8, <1>9 DEF KeyRingInv

LEMMA StampedRing ==
  ASSUME KeyRingInv, NEW c \in RingCallers, Stamped(c)
  PROVE  KeyRingInv'
<1> DEFINE e == [signed |-> ringCall[c].key, named |-> NamedKey(ringCall[c].id),
                 replaced |-> ringCall[c].replaced]
<1>0. RingCallHolds(ringCall[c]) /\ ringCall[c].at = "signing"
  BY DEF KeyRingInv, Stamped
<1>1. /\ ringCall' = [ringCall EXCEPT ![c] = RingIdle] /\ envelopes' = envelopes \union {e}
      /\ UNCHANGED <<gating, gateRef, seKeys, opKey, made, ringFaults, unapproved, inflight>>
  BY DEF Stamped, SetCall, ConfigVars
<1>2. e.signed = e.named \/ e.replaced
  BY <1>0 DEF RingCallHolds, NamedKey
<1> HIDE DEF e
<1>3. RingIdle \in RingCall /\ RingCallHolds(RingIdle) /\ RingIdle.at = "idle"
  BY DEF RingIdle, RingCall, RingCallHolds
<1> QED BY <1>0, <1>1, <1>2, <1>3, RingCallStep

LEMMA RestartRing == ASSUME KeyRingInv, RingRestart PROVE KeyRingInv'
BY DEF RingRestart, KeyRingInv, RingTypes, RingCall, RingIdle, RingCallHolds, OneGateKey,
   RingSound, GateHolds, ConfigVars

LEMMA RingSame ==
  ASSUME KeyRingInv, UNCHANGED <<gating, gateRef, seKeys, opKey, made, ringFaults, envelopes,
                              unapproved, inflight, ringCall>>
  PROVE  KeyRingInv'
BY DEF KeyRingInv, RingTypes, RingCallHolds, OneGateKey, RingSound, GateHolds

LEMMA KeyRingStep == ASSUME KeyRingInv, [RingNext]_ringVars PROVE KeyRingInv'
<1>1. ASSUME NEW c \in RingCallers, NEW op \in {"create", "rotate", "authorize"},
             NEW i \in Identities, BeginGated(c, op, i)
      PROVE  KeyRingInv'
  BY <1>1, BeginGatedRing
<1>2. ASSUME NEW c \in RingCallers, NEW i \in Identities, Stamp(c, i) PROVE KeyRingInv'
  BY <1>2, StampRing
<1>3. ASSUME NEW c \in RingCallers,
             \/ SeCreate(c) \/ SaveGateRef(c) \/ GateKeyFails(c) \/ Prompt(c)
             \/ Generate(c) \/ Stamped(c)
      PROVE  KeyRingInv'
  BY <1>3, SeCreateRing, GateKeyRing, PromptRing, GenerateRing, StampedRing
<1>4. CASE CredentialKey \/ RingTick
  BY <1>4, RingSame DEF CredentialKey, RingTick, ConfigVars
<1>5. CASE RingRestart
  BY <1>5, RestartRing
<1>6. CASE UNCHANGED ringVars
  BY <1>6, RingSame DEF ringVars
<1> QED BY <1>1, <1>2, <1>3, <1>4, <1>5, <1>6 DEF RingNext

\* With gating on, no operational key is generated or rotated without an
\* approval of that very call, the enclave holds at most one gate key more than
\* there were faults, and an envelope names the key that signed it unless that
\* key was rotated during the signature, for every number of callers and
\* identities (key-manager-compat.ts, biometric-gate.ts, se-gate-prompter.ts).
THEOREM RingIsSound == RingSpec => []RingSound
<1>1. RingInit => KeyRingInv
  BY KeyRingStart
<1>2. KeyRingInv /\ [RingNext]_ringVars => KeyRingInv'
  BY KeyRingStep
<1>3. KeyRingInv => RingSound
  BY DEF KeyRingInv
<1> QED BY <1>1, <1>2, <1>3, PTL DEF RingSpec

-----------------------------------------------------------------------------
(* Verifier: the limiter's entries are the end of what it admitted.          *)

\* Times rise, the limiter still has the latest of them, and those it has
\* forgotten are out of the window for good.
LimitHolds(r) ==
    LET a == admitted[r]  t == timestamps[r]  gone == Len(admitted[r]) - Len(timestamps[r]) IN
    /\ gone \in Nat
    /\ \A i \in 1..Len(a) : a[i] <= vClock
    /\ \A i, j \in 1..Len(a) : i <= j => a[i] <= a[j]
    /\ \A i \in 1..Len(t) : t[i] = a[gone + i]
    /\ \A i \in 1..gone : a[i] < vClock - Window
    /\ \A i \in 1..(Len(a) - MaxRequests) : a[i + MaxRequests] - a[i] > Window

VCall == [at : {"idle", "checks", "limited", "signs", "shares"},
          verdicts : SUBSET {"pass", "fail", "skip", "error"},
          waiting : SUBSET {"source", "release"}]

VerifierTypes ==
    /\ vClock \in Nat
    /\ timestamps \in [Requesters -> Seq(Nat)]
    /\ admitted \in [Requesters -> Seq(Nat)]
    /\ vCall \in [VCallers -> VCall]
    /\ selfSeals \in Nat

VerifierInv ==
    /\ VerifierTypes
    /\ \A r \in Requesters : LimitHolds(r)
    /\ \A c \in VCallers :
          /\ vCall[c].at = "checks" =>
                ("fail" \in vCall[c].verdicts \/ "skip" \in vCall[c].verdicts)
          /\ vCall[c].at = "signs" => cachedSelfSeal = "signing"
    /\ selfSeals = IF cachedSelfSeal = "signed" THEN 1 ELSE 0
    /\ statement.tier = "unverified" /\ statement.verdict # "verified"

\* A set of numbers that is not empty has a least member.
LEMMA LeastExists ==
  ASSUME NEW S, S \subseteq Nat, S # {}
  PROVE  \E i \in S : \A j \in S : i <= j
<1> DEFINE R == OpToRel(<, Nat)
<1>1. PICK i \in S : \A j \in S : ~(<<j, i>> \in R)
  <2>1. IsWellFoundedOn(R, Nat)
    BY NatLessThanWellFounded
  <2> HIDE DEF R
  <2> QED BY <2>1, WFMin, Zenon
<1>2. ASSUME NEW j \in S PROVE i <= j
  <2>1. ~(j < i)
    BY <1>1 DEF OpToRel
  <2> QED BY <2>1
<1> QED BY <1>2

\* Eviction drops a beginning of the entries, all of it out of the window.
LEMMA RecentEnd ==
  ASSUME vClock \in Nat, NEW e \in Seq(Nat)
  PROVE  \E k \in 0..Len(e) :
            /\ Recent(e) \in Seq(Nat) /\ Len(Recent(e)) = Len(e) - k
            /\ \A i \in 1..(Len(e) - k) : Recent(e)[i] = e[k + i]
            /\ \A i \in 1..k : e[i] < vClock - Window
<1> DEFINE valid == {i \in DOMAIN e : e[i] >= vClock - Window}
<1>0. Len(e) \in Nat /\ DOMAIN e = 1..Len(e) /\ \A i \in 1..Len(e) : e[i] \in Nat
  OBVIOUS
<1>1. CASE valid = {}
  <2>1. Recent(e) = <<>>
    BY <1>1 DEF Recent
  <2>2. \A i \in 1..Len(e) : e[i] < vClock - Window
    BY <1>0, <1>1, VerifierBounds
  <2>3. /\ Recent(e) \in Seq(Nat) /\ Len(Recent(e)) = Len(e) - Len(e)
        /\ \A i \in 1..(Len(e) - Len(e)) : Recent(e)[i] = e[Len(e) + i]
    BY <1>0, <2>1
  <2>4. Len(e) \in 0..Len(e)
    BY <1>0
  <2> HIDE DEF valid
  <2> QED BY <2>2, <2>3, <2>4
<1>2. CASE valid # {}
  <2>1. valid \subseteq Nat
    BY <1>0
  <2> DEFINE m == CHOOSE i \in valid : \A j \in valid : i <= j
  <2>2. m \in valid /\ \A j \in valid : m <= j
    BY <1>2, <2>1, LeastExists
  <2>3. Recent(e) = SubSeq(e, m, Len(e))
    BY <1>2 DEF Recent
  <2>4. m \in 1..Len(e)
    BY <1>0, <2>2
  <2>5. \A i \in 1..(m - 1) : e[i] < vClock - Window
    <3>1. ASSUME NEW i \in 1..(m - 1), e[i] >= vClock - Window PROVE FALSE
      <4>1. i \in valid
        BY <1>0, <2>4, <3>1
      <4> QED BY <2>2, <2>4, <4>1
    <3> QED BY <1>0, <2>4, <3>1, VerifierBounds
  <2> HIDE DEF m
  <2>6. /\ SubSeq(e, m, Len(e)) \in Seq(Nat) /\ Len(SubSeq(e, m, Len(e))) = Len(e) - (m - 1)
        /\ \A i \in 1..(Len(e) - m + 1) : SubSeq(e, m, Len(e))[i] = e[m + i - 1]
    BY <1>0, <2>4, SubSeqProperties
  <2>7. m - 1 \in 0..Len(e) /\ Len(e) - m + 1 = Len(e) - (m - 1)
    BY <1>0, <2>4
  <2>8. \A i \in 1..(Len(e) - (m - 1)) : Recent(e)[i] = e[(m - 1) + i]
    BY <1>0, <2>3, <2>4, <2>6, <2>7
  <2> QED BY <2>3, <2>5, <2>6, <2>7, <2>8
<1> QED BY <1>1, <1>2

\* What eviction keeps is still the end of what was admitted.
LEMMA EvictionKeepsEnd ==
  ASSUME VerifierInv, NEW r \in Requesters
  PROVE  LET kept == Recent(timestamps[r])  a == admitted[r]  gone == Len(a) - Len(kept) IN
         /\ kept \in Seq(Nat) /\ gone \in Nat
         /\ \A i \in 1..Len(kept) : kept[i] = a[gone + i]
         /\ \A i \in 1..gone : a[i] < vClock - Window
<1> DEFINE kept == Recent(timestamps[r])  a == admitted[r]  t == timestamps[r]
           gone == Len(a) - Len(kept)  old == Len(a) - Len(t)
<1>1. t \in Seq(Nat) /\ a \in Seq(Nat) /\ vClock \in Nat
  BY DEF VerifierInv, VerifierTypes
<1>2. /\ old \in Nat /\ \A i \in 1..Len(t) : t[i] = a[old + i]
      /\ \A i \in 1..old : a[i] < vClock - Window
  BY DEF VerifierInv, LimitHolds
<1>3. PICK k \in 0..Len(t) :
         /\ kept \in Seq(Nat) /\ Len(kept) = Len(t) - k
         /\ \A i \in 1..(Len(t) - k) : kept[i] = t[k + i]
         /\ \A i \in 1..k : t[i] < vClock - Window
  BY <1>1, RecentEnd
<1> HIDE DEF kept, a, t
<1>4. Len(t) \in Nat /\ Len(a) \in Nat /\ Len(kept) \in Nat
  BY <1>1, <1>3
<1>5. gone = old + k /\ gone \in Nat
  BY <1>2, <1>3, <1>4
<1>6. ASSUME NEW i \in 1..Len(kept) PROVE kept[i] = a[gone + i]
  <2>1. i \in 1..(Len(t) - k) /\ k + i \in 1..Len(t) /\ old + (k + i) = gone + i
    BY <1>2, <1>3, <1>4, <1>5
  <2>2. kept[i] = t[k + i] /\ t[k + i] = a[old + (k + i)]
    BY <1>2, <1>3, <2>1
  <2> QED BY <2>1, <2>2
<1>7. ASSUME NEW i \in 1..gone PROVE a[i] < vClock - Window
  <2>1. CASE i <= old
    BY <1>2, <1>5, <2>1
  <2>2. CASE i > old
    <3>1. i - old \in 1..k /\ i - old \in 1..Len(t) /\ old + (i - old) = i
      BY <1>2, <1>3, <1>4, <1>5, <2>2
    <3>2. t[i - old] = a[old + (i - old)] /\ t[i - old] < vClock - Window
      BY <1>2, <1>3, <3>1
    <3> QED BY <3>1, <3>2
  <2> QED BY <1>2, <1>5, <2>1, <2>2
<1> QED BY <1>3, <1>5, <1>6, <1>7 DEF kept, a

\* The limiter after a request it lets pass, and after one it turns away.
LEMMA LimiterHolds ==
  ASSUME VerifierInv, NEW r \in Requesters, NEW pass \in BOOLEAN, Limiter(r, pass),
         UNCHANGED vClock
  PROVE  /\ timestamps' \in [Requesters -> Seq(Nat)] /\ admitted' \in [Requesters -> Seq(Nat)]
         /\ \A q \in Requesters : LimitHolds(q)'
<1> DEFINE kept == Recent(timestamps[r])  a == admitted[r]  gone == Len(a) - Len(kept)
<1>1. /\ timestamps \in [Requesters -> Seq(Nat)] /\ admitted \in [Requesters -> Seq(Nat)]
      /\ vClock \in Nat /\ a \in Seq(Nat) /\ Len(a) \in Nat
  BY DEF VerifierInv, VerifierTypes
<1>2. /\ kept \in Seq(Nat) /\ gone \in Nat
      /\ \A i \in 1..Len(kept) : kept[i] = a[gone + i]
      /\ \A i \in 1..gone : a[i] < vClock - Window
  BY EvictionKeepsEnd
<1>3. /\ pass = (Len(kept) < MaxRequests)
      /\ timestamps' = [timestamps EXCEPT ![r] = IF pass THEN Append(kept, vClock) ELSE kept]
      /\ admitted' = IF pass THEN [admitted EXCEPT ![r] = Append(a, vClock)] ELSE admitted
  BY <1>1 DEF Limiter
<1>4. LimitHolds(r)
  BY DEF VerifierInv
<1>5. ASSUME NEW q \in Requesters, q # r PROVE LimitHolds(q)'
  <2>1. LimitHolds(q) /\ timestamps'[q] = timestamps[q] /\ admitted'[q] = admitted[q]
    BY <1>1, <1>3, <1>5 DEF VerifierInv
  <2> QED BY <2>1 DEF LimitHolds
<1>6. Len(kept) \in Nat
  BY <1>2
<1>7. CASE pass
  <2> DEFINE b == Append(a, vClock)  u == Append(kept, vClock)
  <2>1. timestamps'[r] = u /\ admitted'[r] = b /\ b \in Seq(Nat) /\ u \in Seq(Nat)
    BY <1>1, <1>2, <1>3, <1>7
  <2>2. /\ Len(b) = Len(a) + 1 /\ Len(u) = Len(kept) + 1
        /\ b[Len(a) + 1] = vClock /\ u[Len(kept) + 1] = vClock
        /\ \A i \in 1..Len(a) : b[i] = a[i]
        /\ \A i \in 1..Len(kept) : u[i] = kept[i]
    BY <1>1, <1>2
  <2> HIDE DEF a, b, u, kept
  <2>3. Len(b) - Len(u) = gone
    BY <1>1, <1>6, <2>2
  <2>4. \A i \in 1..Len(a) : a[i] \in Nat /\ a[i] <= vClock
    BY <1>1, <1>4 DEF LimitHolds, a
  <2>0. \A i \in 1..Len(b) : i \in 1..Len(a) \/ i = Len(a) + 1
    BY <1>1, <2>2
  <2>5. \A i \in 1..Len(b) : b[i] <= vClock
    <3>1. ASSUME NEW i \in 1..Len(b) PROVE b[i] <= vClock
      <4>1. CASE i \in 1..Len(a)
        BY <2>2, <2>4, <4>1
      <4>2. CASE i = Len(a) + 1
        BY <1>1, <2>2, <4>2
      <4> QED BY <2>0, <4>1, <4>2
    <3> QED BY <3>1
  <2>6. \A i, j \in 1..Len(b) : i <= j => b[i] <= b[j]
    <3>1. \A i, j \in 1..Len(a) : i <= j => a[i] <= a[j]
      BY <1>4 DEF LimitHolds, a
    <3>2. ASSUME NEW i \in 1..Len(b), NEW j \in 1..Len(b), i <= j PROVE b[i] <= b[j]
      <4>1. CASE j = Len(a) + 1
        BY <2>2, <2>5, <4>1
      <4>2. CASE j \in 1..Len(a)
        <5>1. i \in 1..Len(a)
          BY <1>1, <2>0, <3>2, <4>2
        <5> QED BY <2>2, <3>1, <3>2, <4>2, <5>1
      <4> QED BY <2>0, <4>1, <4>2
    <3> QED BY <3>2
  <2>7. \A i \in 1..Len(u) : u[i] = b[gone + i]
    <3>1. ASSUME NEW i \in 1..Len(u) PROVE u[i] = b[gone + i]
      <4>1. CASE i \in 1..Len(kept)
        <5>1. gone + i \in 1..Len(a)
          BY <1>1, <1>2, <1>6, <4>1
        <5> QED BY <1>2, <2>2, <4>1, <5>1
      <4>2. CASE i = Len(kept) + 1
        <5>1. gone + i = Len(a) + 1
          BY <1>1, <1>6, <4>2
        <5> QED BY <2>2, <4>2, <5>1
      <4> QED BY <1>6, <2>2, <4>1, <4>2
    <3> QED BY <3>1
  <2>8. \A i \in 1..gone : b[i] < vClock - Window
    <3>1. \A i \in 1..gone : i \in 1..Len(a)
      BY <1>1, <1>2, <1>6
    <3> QED BY <1>2, <2>2, <3>1
  <2>9. ASSUME NEW i \in 1..(Len(b) - MaxRequests) PROVE b[i + MaxRequests] - b[i] > Window
    <3>0. MaxRequests \in Nat \ {0} /\ Window \in Nat /\ i \in 1..Len(a)
      BY <1>1, <2>2, VerifierBounds
    <3>1. CASE i \in 1..(Len(a) - MaxRequests)
      <4>1. a[i + MaxRequests] - a[i] > Window
        BY <1>4, <3>1 DEF LimitHolds, a
      <4>2. i + MaxRequests \in 1..Len(a)
        BY <1>1, <3>0, <3>1
      <4> QED BY <2>2, <3>0, <4>1, <4>2
    <3>2. CASE i = Len(a) + 1 - MaxRequests
      <4>1. i + MaxRequests = Len(a) + 1 /\ i \in 1..gone
        <5>1. Len(kept) < MaxRequests
          BY <1>3, <1>7
        <5> QED BY <1>1, <1>2, <1>6, <3>0, <3>2, <5>1
      <4>2. b[i] = a[i] /\ a[i] < vClock - Window /\ a[i] \in Nat
        BY <1>2, <2>2, <2>4, <3>0, <4>1
      <4> QED BY <1>1, <2>2, <3>0, <4>1, <4>2
    <3>3. i \in 1..(Len(a) - MaxRequests) \/ i = Len(a) + 1 - MaxRequests
      BY <1>1, <2>2, <3>0
    <3> QED BY <3>1, <3>2, <3>3
  <2>10. LimitHolds(r)'
    BY <1>2, <2>1, <2>3, <2>5, <2>6, <2>7, <2>8, <2>9 DEF LimitHolds
  <2>11. /\ timestamps' \in [Requesters -> Seq(Nat)] /\ admitted' \in [Requesters -> Seq(Nat)]
    BY <1>1, <1>3, <1>7, <2>1 DEF b, u
  <2> QED BY <1>5, <2>10, <2>11
<1>8. CASE ~pass
  <2>1. timestamps'[r] = kept /\ admitted'[r] = a
    BY <1>1, <1>3, <1>8
  <2>2. LimitHolds(r)'
    BY <1>2, <1>4, <2>1 DEF LimitHolds
  <2>3. /\ timestamps' \in [Requesters -> Seq(Nat)] /\ admitted' \in [Requesters -> Seq(Nat)]
    BY <1>1, <1>2, <1>3, <1>8
  <2> QED BY <1>5, <2>2, <2>3
<1> QED BY <1>7, <1>8

-----------------------------------------------------------------------------
(* The checks, one by one: what makes each of them fail.                     *)

LEMMA BuildFails ==
  ASSUME NEW q \in Requests
  PROVE  /\ BuildProvenance(q) \in {"skip", "fail"}
         /\ BuildProvenance(q) = "fail" <=>
               /\ "bundle" \in q.has
               /\ \E d \in q.bad : d \in BundleDefects \cup CertificateDefects \cup DsseDefects
                                         \cup {"unsigned", "digest", "issuer", "identity"}
BY DEF BuildProvenance, parseSigstoreBundle, extractP256PublicKey, verifyDsseSignature

LEMMA SignatureFails ==
  ASSUME NEW q \in Requests
  PROVE  /\ SealSignature(q) \in {"skip", "fail", "pass", "error"}
         /\ SealSignature(q) \in {"fail", "error"} <=>
               /\ "seal" \in q.has
               /\ \/ \E d \in q.bad : d \in {"operatorId", "issuedAt", "scopeMode"}
                  \/ /\ "envelope" \in q.has /\ "key" \in q.has
                     /\ \E d \in q.bad : d \in EnvelopeDefects \cup {"malformed key", "forged"}
BY DEF SealSignature, Matches, verifyEd25519Signature, Fails

LEMMA SignaturePasses ==
  ASSUME NEW q \in Requests
  PROVE  SealSignature(q) = "pass" <=>
            /\ {"seal", "envelope", "key"} \subseteq q.has
            /\ \A d \in q.bad : d \notin {"operatorId", "issuedAt", "scopeMode"}
                                    \cup EnvelopeDefects \cup {"malformed key", "forged"}
BY DEF SealSignature, Matches, verifyEd25519Signature, Fails

LEMMA ChainFails ==
  ASSUME NEW q \in Requests
  PROVE  /\ SealChain(q) \in {"skip", "fail", "pass"}
         /\ SealChain(q) = "skip" <=>
               \/ "seal" \notin q.has
               \/ /\ "envelope" \notin q.has
                  /\ \A d \in q.bad : d \notin {"sealId", "chatId", "operatorId", "credentialId"}
         /\ SealChain(q) = "fail" <=>
               /\ "seal" \in q.has
               /\ \/ \E d \in q.bad : d \in {"sealId", "chatId", "operatorId", "credentialId"}
                  \/ /\ "envelope" \in q.has
                     /\ \E d \in q.bad :
                           d \in EnvelopeDefects \cup ChainDefects \cup {"wrong delta"}
BY DEF SealChain, Matches, validateSealChain, verifyChainDelta, Fails

LEMMA SchemaFails ==
  ASSUME NEW q \in Requests
  PROVE  /\ SchemaCompliance(q) \in {"skip", "fail", "pass"}
         /\ SchemaCompliance(q) = "skip" <=> "seal" \notin q.has
         /\ SchemaCompliance(q) = "fail" <=>
               "seal" \in q.has /\ \E d \in q.bad : d \in SealDefects
BY DEF SchemaCompliance, Fails


\* A verdict is rejected with a fail, partial without one but with a skip.
LEMMA VerdictOf ==
  ASSUME NEW v
  PROVE  determineVerdict(v) = "verified" <=> ("fail" \notin v /\ "skip" \notin v)
BY DEF determineVerdict

\* The local checks of every request, whatever it brings and whatever is wrong
\* with it (checks/*.ts, verdict.ts, seal-verify of seal-actions.ts).
LEMMA ChecksAreSound == ChecksSound
<1> SUFFICES ASSUME NEW q \in Requests
             PROVE  /\ (ShownDefects(q) # {}) <=>
                           ("fail" \in Locally(q) \/ "error" \in Locally(q))
                    /\ determineVerdict(Locally(q)) # "verified"
                    /\ {"seal", "envelope"} \subseteq q.has =>
                          (SealVerify(q) = "verified" <=>
                             "key" \in q.has /\ ShownDefects(q) \intersect
                               (Defects \ (BundleDefects \union CertificateDefects
                                 \union DsseDefects
                                 \union {"unsigned", "digest", "issuer", "identity"})) = {})
  BY DEF ChecksSound
<1> DEFINE build == BundleDefects \cup CertificateDefects \cup DsseDefects
                    \cup {"unsigned", "digest", "issuer", "identity"}
           enveloped == EnvelopeDefects \cup ChainDefects \cup {"wrong delta"}
           keyed == {"malformed key", "forged"}
<1>1. \A d : d \in ShownDefects(q) <=>
         /\ d \in q.bad
         /\ \/ "bundle" \in q.has /\ d \in build
            \/ "seal" \in q.has /\ d \in SealDefects
            \/ "seal" \in q.has /\ "envelope" \in q.has /\ d \in enveloped
            \/ "seal" \in q.has /\ "envelope" \in q.has /\ "key" \in q.has /\ d \in keyed
  BY DEF ShownDefects
<1>2. "fail" \in Locally(q) \/ "error" \in Locally(q) <=>
         \/ BuildProvenance(q) = "fail" \/ SealSignature(q) \in {"fail", "error"}
         \/ SealChain(q) = "fail" \/ SchemaCompliance(q) = "fail"
  BY BuildFails, SignatureFails, ChainFails, SchemaFails DEF Locally
<1>3. /\ {"operatorId", "issuedAt", "scopeMode"} \subseteq SealDefects
      /\ {"sealId", "chatId", "operatorId", "credentialId"} \subseteq SealDefects
      /\ EnvelopeDefects \subseteq enveloped
  BY DEF SealDefects
<1>4. ShownDefects(q) # {} <=> ("fail" \in Locally(q) \/ "error" \in Locally(q))
  <2>1. ASSUME NEW d \in ShownDefects(q)
        PROVE  "fail" \in Locally(q) \/ "error" \in Locally(q)
    <3>1. CASE "bundle" \in q.has /\ d \in build
      BY <1>1, <1>2, <3>1, BuildFails
    <3>2. CASE "seal" \in q.has /\ d \in SealDefects
      BY <1>1, <1>2, <3>2, SchemaFails
    <3>3. CASE "seal" \in q.has /\ "envelope" \in q.has /\ d \in enveloped
      BY <1>1, <1>2, <3>3, ChainFails
    <3>4. CASE "seal" \in q.has /\ "envelope" \in q.has /\ "key" \in q.has /\ d \in keyed
      BY <1>1, <1>2, <3>4, SignatureFails
    <3> QED BY <1>1, <3>1, <3>2, <3>3, <3>4
  <2>2. ASSUME "fail" \in Locally(q) \/ "error" \in Locally(q) PROVE ShownDefects(q) # {}
    <3>1. CASE BuildProvenance(q) = "fail"
      <4>1. "bundle" \in q.has /\ \E d \in q.bad : d \in build
        BY <3>1, BuildFails
      <4> QED BY <1>1, <4>1
    <3>2. CASE SealSignature(q) \in {"fail", "error"}
      <4>1. /\ "seal" \in q.has
            /\ \/ \E d \in q.bad : d \in {"operatorId", "issuedAt", "scopeMode"}
               \/ /\ "envelope" \in q.has /\ "key" \in q.has
                  /\ \E d \in q.bad : d \in EnvelopeDefects \cup keyed
        BY <3>2, SignatureFails
      <4> HIDE DEF build, enveloped, keyed
      <4> QED BY <1>1, <1>3, <4>1
    <3>3. CASE SealChain(q) = "fail"
      <4>1. /\ "seal" \in q.has
            /\ \/ \E d \in q.bad : d \in {"sealId", "chatId", "operatorId", "credentialId"}
               \/ "envelope" \in q.has /\ \E d \in q.bad : d \in enveloped
        BY <3>3, ChainFails
      <4> HIDE DEF build, enveloped, keyed
      <4> QED BY <1>1, <1>3, <4>1
    <3>4. CASE SchemaCompliance(q) = "fail"
      <4>1. "seal" \in q.has /\ \E d \in q.bad : d \in SealDefects
        BY <3>4, SchemaFails
      <4> HIDE DEF build, enveloped, keyed
      <4> QED BY <1>1, <4>1
    <3> QED BY <1>2, <2>2, <3>1, <3>2, <3>3, <3>4
  <2> QED BY <2>1, <2>2
<1>5. determineVerdict(Locally(q)) # "verified"
  BY BuildFails, VerdictOf DEF Locally
<1>6. ASSUME "seal" \in q.has, "envelope" \in q.has
      PROVE  SealVerify(q) = "verified" <=>
                "key" \in q.has /\ ShownDefects(q) \intersect (Defects \ build) = {}
  <2> DEFINE sealed == SealDefects \cup enveloped \cup keyed
  <2>1. \A d : d \in Defects \ build <=> d \in sealed
    BY DEF Defects, BundleDefects, CertificateDefects, DsseDefects, SealDefects,
       EnvelopeDefects, ChainDefects
  <2>2. SealVerify(q) = "verified" <=>
           /\ SealSignature(q) = "pass" /\ SealChain(q) = "pass" /\ SchemaCompliance(q) = "pass"
    <3> DEFINE v == {SealSignature(q), SealChain(q), SchemaCompliance(q)}
    <3>1. SealVerify(q) = IF "error" \in v THEN "error" ELSE determineVerdict(v)
      BY DEF SealVerify
    <3>2. determineVerdict(v) = "verified" <=> ("fail" \notin v /\ "skip" \notin v)
      BY VerdictOf
    <3>3. /\ SealSignature(q) \in {"skip", "fail", "pass", "error"}
          /\ SealChain(q) \in {"skip", "fail", "pass"}
          /\ SchemaCompliance(q) \in {"skip", "fail", "pass"}
      BY SignatureFails, ChainFails, SchemaFails
    <3> QED BY <3>1, <3>2, <3>3
  <2>3. SealSignature(q) = "pass" <=>
           /\ "key" \in q.has
           /\ \A d \in q.bad : d \notin {"operatorId", "issuedAt", "scopeMode"}
                                  \cup EnvelopeDefects \cup keyed
    BY <1>6, SignaturePasses
  <2>4. SealChain(q) = "pass" <=>
           \A d \in q.bad : d \notin {"sealId", "chatId", "operatorId", "credentialId"}
                               \cup enveloped
    BY <1>6, ChainFails
  <2>5. SchemaCompliance(q) = "pass" <=> \A d \in q.bad : d \notin SealDefects
    BY <1>6, SchemaFails
  <2> HIDE DEF build, enveloped, keyed
  <2>6. SealVerify(q) = "verified" <=> "key" \in q.has /\ \A d \in q.bad : d \notin sealed
    BY <1>3, <2>2, <2>3, <2>4, <2>5
  <2>7. ASSUME "key" \in q.has
        PROVE  ShownDefects(q) \intersect (Defects \ build) = {} <=>
              \A d \in q.bad : d \notin sealed
    <3>1. \A d : d \in sealed /\ d \in q.bad => d \in ShownDefects(q)
      BY <1>1, <1>6, <2>7
    <3>2. \A d : d \in ShownDefects(q) => d \in q.bad
      BY <1>1
    <3> QED BY <2>1, <3>1, <3>2
  <2> QED BY <2>6, <2>7
<1> QED BY <1>4, <1>5, <1>6

LEMMA VerifierStart == ASSUME VerifierInit PROVE VerifierInv
<1>1. VerifierTypes
  BY DEF VerifierInit, VerifierTypes, VCall, VIdle
<1>2. ASSUME NEW r \in Requesters PROVE LimitHolds(r)
  <2>1. timestamps[r] = <<>> /\ admitted[r] = <<>> /\ vClock = 0
    BY DEF VerifierInit
  <2>2. Len(<<>>) = 0 /\ 1..0 = {} /\ Len(<<>>) - Len(<<>>) = 0 /\ 1..(Len(<<>>) - MaxRequests) = {}
    BY VerifierBounds
  <2> QED BY <2>1, <2>2 DEF LimitHolds
<1> QED BY <1>1, <1>2 DEF VerifierInv, VerifierInit, VIdle, NoneSoFar

LEMMA VerifierRest ==
  ASSUME VerifierInv, UNCHANGED <<vClock, timestamps, admitted>>
  PROVE  (\A r \in Requesters : LimitHolds(r)') /\ timestamps' \in [Requesters -> Seq(Nat)]
         /\ admitted' \in [Requesters -> Seq(Nat)] /\ vClock' \in Nat
BY DEF VerifierInv, LimitHolds, VerifierTypes

\* A step of one call.
LEMMA VerifierCall ==
  ASSUME VerifierInv, NEW c \in VCallers, NEW v \in VCall, vCall' = [vCall EXCEPT ![c] = v],
         v.at = "checks" => ("fail" \in v.verdicts \/ "skip" \in v.verdicts),
         v.at = "signs" => cachedSelfSeal' = "signing",
         cachedSelfSeal' = cachedSelfSeal \/ (cachedSelfSeal #
               "signed" /\ cachedSelfSeal' = "signing"),
         UNCHANGED <<vClock, selfSeals>>,
         \A r \in Requesters : LimitHolds(r)',
         timestamps' \in [Requesters -> Seq(Nat)], admitted' \in [Requesters -> Seq(Nat)],
         statement'.tier = "unverified" /\ statement'.verdict # "verified"
  PROVE  VerifierInv'
<1>1. VerifierTypes'
  BY DEF VerifierInv, VerifierTypes
<1>2. ASSUME NEW d \in VCallers
      PROVE  /\ vCall'[d].at = "checks" =>
                   ("fail" \in vCall'[d].verdicts \/ "skip" \in vCall'[d].verdicts)
             /\ vCall'[d].at = "signs" => cachedSelfSeal' = "signing"
  <2>1. CASE d = c
    BY <2>1 DEF VerifierInv, VerifierTypes
  <2>2. CASE d # c
    BY <2>2 DEF VerifierInv, VerifierTypes
  <2> QED BY <2>1, <2>2
<1>3. selfSeals' = IF cachedSelfSeal' = "signed" THEN 1 ELSE 0
  BY DEF VerifierInv
<1> QED BY <1>1, <1>2, <1>3 DEF VerifierInv

LEMMA StartedCalls ==
  ASSUME NEW v \in Started
  PROVE  /\ v \in VCall /\ v.at = "checks"
         /\ "fail" \in v.verdicts \/ "skip" \in v.verdicts
<1>1. PICK q \in Requests :
         v = [at |-> "checks", verdicts |-> Locally(q), waiting |-> Fetches(q)]
  BY DEF Started
<1>2. Locally(q) \subseteq {"pass", "fail", "skip", "error"}
  BY BuildFails, SignatureFails, ChainFails, SchemaFails DEF Locally
<1>3. Fetches(q) \subseteq {"source", "release"}
  BY DEF Fetches
<1>4. "fail" \in Locally(q) \/ "skip" \in Locally(q)
  BY BuildFails DEF Locally
<1> QED BY <1>1, <1>2, <1>3, <1>4 DEF VCall

LEMMA HandleRequestVerifier ==
  ASSUME VerifierInv, NEW c \in VCallers, NEW r \in Requesters, HandleRequest(c, r)
  PROVE  VerifierInv'
<1>1. /\ UNCHANGED <<vClock, cachedSelfSeal, statement, selfSeals>>
      /\ statement.tier = "unverified" /\ statement.verdict # "verified"
  BY DEF HandleRequest, VerifierInv
<1>2. CASE Limiter(r, TRUE) /\ \E begun \in Started : VSet(c, begun)
  <2>1. PICK v \in Started : vCall' = [vCall EXCEPT ![c] = v]
    BY <1>2 DEF VSet
  <2>2. /\ timestamps' \in [Requesters -> Seq(Nat)] /\ admitted' \in [Requesters -> Seq(Nat)]
        /\ \A q \in Requesters : LimitHolds(q)'
    BY <1>1, <1>2, LimiterHolds
  <2>3. v \in VCall /\ v.at = "checks" /\ ("fail" \in v.verdicts \/ "skip" \in v.verdicts)
    BY StartedCalls
  <2> QED BY <1>1, <2>1, <2>2, <2>3, VerifierCall
<1>3. CASE Limiter(r, FALSE) /\ VSet(c, [VIdle EXCEPT !.at = "limited"])
  <2> DEFINE v == [VIdle EXCEPT !.at = "limited"]
  <2>1. vCall' = [vCall EXCEPT ![c] = v] /\ v \in VCall /\ v.at = "limited"
    BY <1>3 DEF VSet, VIdle, VCall
  <2>2. /\ timestamps' \in [Requesters -> Seq(Nat)] /\ admitted' \in [Requesters -> Seq(Nat)]
        /\ \A q \in Requesters : LimitHolds(q)'
    BY <1>1, <1>3, LimiterHolds
  <2> HIDE DEF v
  <2> QED BY <1>1, <2>1, <2>2, VerifierCall
<1> QED BY <1>2, <1>3 DEF HandleRequest

LEMMA FetchedVerifier ==
  ASSUME VerifierInv, NEW c \in VCallers, SourceFetched(c) \/ ReleaseFetched(c)
  PROVE  VerifierInv'
<1>1. PICK w \in {"source", "release"}, verdict \in {"pass", "fail", "skip"} :
         CheckSettles(c, w, verdict)
  BY DEF SourceFetched, ReleaseFetched, SourceAvailable, ReleaseSigning, SourceAnswers,
     ReleaseAnswers, Fails
<1> DEFINE v == [vCall[c] EXCEPT !.waiting = @ \ {w}, !.verdicts = @ \union {verdict}]
<1>2. vCall[c] \in VCall /\ vCall' = [vCall EXCEPT ![c] = v]
  BY <1>1 DEF CheckSettles, VSet, VerifierInv, VerifierTypes
<1>3. v \in VCall /\ v.at = vCall[c].at /\ v.verdicts = vCall[c].verdicts \cup {verdict}
  BY <1>2 DEF VCall
<1> HIDE DEF v
<1>4. /\ v.at = "checks" => ("fail" \in v.verdicts \/ "skip" \in v.verdicts)
      /\ v.at = "signs" => cachedSelfSeal = "signing"
  BY <1>3 DEF VerifierInv
<1>5. UNCHANGED <<vClock, timestamps, cachedSelfSeal, statement, vOps, admitted, selfSeals>>
  BY <1>1 DEF CheckSettles
<1>6. statement'.tier = "unverified" /\ statement'.verdict # "verified"
  BY <1>5 DEF VerifierInv
<1> QED BY <1>2, <1>3, <1>4, <1>5, <1>6, VerifierRest, VerifierCall

LEMMA AnswerVerifier ==
  ASSUME VerifierInv, NEW c \in VCallers, NEW tier \in TrustTiers, Answer(c, tier)
  PROVE  VerifierInv'
<1>1. /\ vCall' = [vCall EXCEPT ![c] = VIdle]
      /\ UNCHANGED <<vClock, timestamps, cachedSelfSeal, admitted, selfSeals>>
  BY DEF Answer, VSet
<1>2. VIdle \in VCall /\ VIdle.at = "idle"
  BY DEF VIdle, VCall
<1>3. statement'.tier = "unverified" /\ statement'.verdict # "verified"
  <2>1. CASE statement' = NoneSoFar
    BY <2>1 DEF NoneSoFar
  <2>2. CASE vCall[c].at = "limited" /\ statement' # NoneSoFar
    BY <2>2 DEF Answer, determineVerifiedTier
  <2>3. CASE vCall[c].at = "checks" /\ statement' # NoneSoFar
    <3>1. determineVerdict(vCall[c].verdicts) # "verified"
      BY <2>3, VerdictOf DEF VerifierInv
    <3> QED BY <2>3, <3>1 DEF Answer, determineVerifiedTier
  <2> QED BY <2>1, <2>2, <2>3 DEF Answer
<1> QED BY <1>1, <1>2, <1>3, VerifierRest, VerifierCall

LEMMA SelfSealVerifier ==
  ASSUME VerifierInv, NEW c \in VCallers, SelfSeal(c)
  PROVE  VerifierInv'
<1> DEFINE v == [VIdle EXCEPT !.at = IF cachedSelfSeal = "none" THEN "signs" ELSE "shares"]
<1>1. /\ vCall' = [vCall EXCEPT ![c] = v] /\ cachedSelfSeal # "signed"
      /\ cachedSelfSeal' = "signing"
      /\ UNCHANGED <<vClock, timestamps, statement, admitted, selfSeals>>
  BY DEF SelfSeal, VSet
<1>2. v \in VCall /\ v.at \in {"signs", "shares"}
  BY DEF VIdle, VCall
<1> HIDE DEF v
<1>3. statement'.tier = "unverified" /\ statement'.verdict # "verified"
  BY <1>1 DEF VerifierInv
<1> QED BY <1>1, <1>2, <1>3, VerifierRest, VerifierCall

LEMMA SelfSealDoneVerifier ==
  ASSUME VerifierInv, NEW c \in VCallers, NEW ok \in BOOLEAN, SelfSealDone(c, ok)
  PROVE  VerifierInv'
<1>1. /\ vCall[c].at = "signs"
      /\ cachedSelfSeal' = IF ok THEN "signed" ELSE "none"
      /\ selfSeals' = selfSeals + (IF ok THEN 1 ELSE 0)
      /\ vCall' = [d \in VCallers |->
                      IF vCall[d].at \in {"signs", "shares"} THEN VIdle ELSE vCall[d]]
      /\ UNCHANGED <<vClock, timestamps, statement, admitted>>
  BY DEF SelfSealDone
<1>2. selfSeals = 0
  BY <1>1 DEF VerifierInv
<1>3. VIdle \in VCall /\ VIdle.at = "idle"
  BY DEF VIdle, VCall
<1>4. ASSUME NEW d \in VCallers
      PROVE  /\ vCall'[d] \in VCall /\ vCall'[d].at # "signs"
             /\ vCall'[d].at = "checks" =>
                   ("fail" \in vCall'[d].verdicts \/ "skip" \in vCall'[d].verdicts)
  BY <1>1, <1>3 DEF VerifierInv, VerifierTypes
<1>5. vCall' \in [VCallers -> VCall]
  BY <1>1, <1>4
<1>6. VerifierTypes'
  BY <1>1, <1>2, <1>5, VerifierRest DEF VerifierTypes
<1>7. selfSeals' = IF cachedSelfSeal' = "signed" THEN 1 ELSE 0
  BY <1>1, <1>2
<1>8. statement'.tier = "unverified" /\ statement'.verdict # "verified"
  BY <1>1 DEF VerifierInv
<1> QED BY <1>1, <1>4, <1>6, <1>7, <1>8, VerifierRest DEF VerifierInv

LEMMA VTickVerifier == ASSUME VerifierInv, VTick PROVE VerifierInv'
<1>1. /\ vClock' = vClock + 1 /\ vClock \in Nat /\ Window \in Nat
      /\ UNCHANGED <<timestamps, vCall, cachedSelfSeal, statement, admitted, selfSeals>>
  BY VerifierBounds DEF VTick, VerifierInv, VerifierTypes
<1>2. ASSUME NEW r \in Requesters PROVE LimitHolds(r)'
  <2>1. LimitHolds(r) /\ admitted[r] \in Seq(Nat) /\ timestamps[r] \in Seq(Nat)
    BY DEF VerifierInv, VerifierTypes
  <2>2. \A i \in 1..Len(admitted[r]) : admitted[r][i] \in Nat /\ admitted[r][i] <= vClock'
    BY <1>1, <2>1 DEF LimitHolds
  <2>3. \A i \in 1..(Len(admitted[r]) - Len(timestamps[r])) : admitted[r][i] < vClock' - Window
    <3>1. ASSUME NEW i \in 1..(Len(admitted[r]) - Len(timestamps[r]))
          PROVE  admitted[r][i] < vClock' - Window
      <4>1. i \in 1..Len(admitted[r])
        BY <2>1
      <4>2. admitted[r][i] < vClock - Window
        BY <2>1, <3>1 DEF LimitHolds
      <4> QED BY <1>1, <2>2, <4>1, <4>2
    <3> QED BY <3>1
  <2> QED BY <1>1, <2>1, <2>2, <2>3 DEF LimitHolds
<1>3. VerifierTypes'
  BY <1>1 DEF VerifierInv, VerifierTypes
<1> QED BY <1>1, <1>2, <1>3 DEF VerifierInv

LEMMA VerifierStep == ASSUME VerifierInv, [VerifierNext]_verifierVars PROVE VerifierInv'
<1>1. ASSUME NEW c \in VCallers, NEW r \in Requesters, HandleRequest(c, r) PROVE VerifierInv'
  BY <1>1, HandleRequestVerifier
<1>2. ASSUME NEW c \in VCallers, SourceFetched(c) \/ ReleaseFetched(c) \/ SelfSeal(c)
      PROVE  VerifierInv'
  BY <1>2, FetchedVerifier, SelfSealVerifier
<1>3. ASSUME NEW c \in VCallers, NEW tier \in TrustTiers, Answer(c, tier) PROVE VerifierInv'
  BY <1>3, AnswerVerifier
<1>4. ASSUME NEW c \in VCallers, NEW ok \in BOOLEAN, SelfSealDone(c, ok) PROVE VerifierInv'
  BY <1>4, SelfSealDoneVerifier
<1>5. CASE VTick
  BY <1>5, VTickVerifier
<1>6. CASE UNCHANGED verifierVars
  <2>1. UNCHANGED <<vClock, timestamps, vCall, cachedSelfSeal, statement, admitted, selfSeals>>
    BY <1>6 DEF verifierVars
  <2> QED BY <2>1, VerifierRest DEF VerifierInv, VerifierTypes
<1> QED BY <1>1, <1>2, <1>3, <1>4, <1>5, <1>6 DEF VerifierNext

\* For every limit, window and number of requesters and callers, no requester
\* gets more than its limit past the limiter in any window, one self seal is
\* signed, no statement vouches for a tier, and the checks find exactly what a
\* request shows to be wrong (rate-limiter.ts, service.ts, checks of the verifier).
THEOREM VerifierIsSound == VerifierSpec => []VerifierSound
<1>1. VerifierInit => VerifierInv
  BY VerifierStart
<1>2. VerifierInv /\ [VerifierNext]_verifierVars => VerifierInv'
  BY VerifierStep
<1>3. VerifierInv => VerifierSound
  <2> SUFFICES ASSUME VerifierInv PROVE VerifierSound
    OBVIOUS
  <2>1. selfSeals <= 1
    BY DEF VerifierInv
  <2>2. \A r \in Requesters : \A i \in 1..(Len(admitted[r]) - MaxRequests) :
           admitted[r][i + MaxRequests] - admitted[r][i] > Window
    BY DEF VerifierInv, LimitHolds
  <2> QED BY <2>1, <2>2, ChecksAreSound DEF VerifierInv, VerifierSound
<1> QED BY <1>1, <1>2, <1>3, PTL DEF VerifierSpec

-----------------------------------------------------------------------------
(* Wallets: while the calls on a wallet do not overlap, its accounts on file *)
(* are numbered from 0 without gaps and memory agrees with the file.         *)

CallFields == {"at", "op", "wallet", "key", "index", "accounts"}
OnWallet   == {"newfile", "bind", "deleted", "load", "ensured", "update", "updated", "chain",
               "keyfile"}

WalletTypes ==
    /\ DOMAIN walletFile = WalletIds /\ DOMAIN walletState = WalletIds
    /\ DOMAIN apiFile = ApiKeys /\ DOMAIN walletCall = WalletCallers
    /\ \A a \in ApiKeys : apiFile[a] # NoFile => apiFile[a] \in WalletIds \cap used
    /\ \A c \in WalletCallers : DOMAIN walletCall[c] = CallFields
    /\ \A d \in derived : d.wallet \in WalletIds \cap used
    /\ contested \subseteq used
    /\ bound # NoFile => bound \in used

\* A call is on a wallet that was created.
WalletCallHolds(r) ==
    /\ r.at \in OnWallet \cup {"idle", "scan"}
    /\ r.at \in OnWallet => r.wallet \in WalletIds \cap used
    /\ r.at \in {"idle", "scan"} => r.wallet = NoFile
    /\ r.at \in {"scan", "keyfile"} => r.key \in ApiKeys

\* Two calls on one wallet are an overlap.
OneCallEach ==
    \A c, d \in WalletCallers :
        c # d /\ walletCall[c].wallet = walletCall[d].wallet =>
            walletCall[c].wallet \in contested \cup {NoFile}

\* Nothing exists of a wallet before its file is written.
Unborn(w) ==
    /\ ~OnDisk(w) /\ ~Loaded(w) /\ w \notin contested
    /\ \A d \in derived : d.wallet # w
    /\ \A a \in ApiKeys : apiFile[a] # w

NewWallets ==
    /\ \A w \in WalletIds \ used : Unborn(w)
    /\ \A c \in WalletCallers : walletCall[c].at = "newfile" => Unborn(walletCall[c].wallet)

Numbered(accounts) ==
    accounts \in Seq(Nat) /\ \A i \in 1..Len(accounts) : accounts[i] = i - 1

Changing(w) == \E c \in WalletCallers :
                  walletCall[c].wallet = w /\ walletCall[c].at \in {"updated", "deleted"}

\* The accounts of a wallet whose calls never overlapped.
CalmWallet(w) ==
    /\ Numbered(walletFile[w].accounts)
    /\ Loaded(w) /\ ~Changing(w) =>
          /\ OnDisk(w) /\ walletState[w].accounts = walletFile[w].accounts
          /\ walletState[w].next = Len(walletFile[w].accounts)
    /\ \A d \in derived : d.wallet = w /\ OnDisk(w) =>
          d.fresh /\ d.index \in Nat /\ d.index < Len(walletFile[w].accounts)

\* A derivation under way, before and after the file is written.
CalmCall(r) ==
    /\ r.at = "update" =>
          /\ r.index = Len(walletFile[r.wallet].accounts)
          /\ r.accounts = Append(walletFile[r.wallet].accounts, r.index)
    /\ r.at = "updated" =>
          /\ OnDisk(r.wallet) /\ r.accounts = walletFile[r.wallet].accounts
          /\ r.index + 1 = Len(r.accounts) /\ r.index \in Nat
          /\ \A d \in derived : d.wallet = r.wallet => d.index # r.index

Calm ==
    /\ \A w \in WalletIds \ contested : CalmWallet(w)
    /\ \A c \in WalletCallers : walletCall[c].wallet \in WalletIds \ contested =>
                                   CalmCall(walletCall[c])

WalletsInv ==
    /\ WalletTypes
    /\ \A c \in WalletCallers : WalletCallHolds(walletCall[c])
    /\ OneCallEach /\ NewWallets /\ Calm
    /\ \A s \in signedBy : s.gone => s.wallet \in contested

LEMMA WalletsStart == ASSUME WalletsInit PROVE WalletsInv
<1>1. /\ WalletTypes /\ NewWallets /\ OneCallEach
      /\ \A c \in WalletCallers : walletCall[c] = WalletIdle
      /\ \A w \in WalletIds : walletFile[w] = Absent /\ walletState[w] = Absent
  BY WalletNames DEF WalletsInit, WalletTypes, NewWallets, Unborn, OneCallEach, OnDisk, Loaded,
     Absent, WalletIdle, CallFields
<1>2. \A c \in WalletCallers : WalletCallHolds(walletCall[c])
  BY <1>1 DEF WalletCallHolds, WalletIdle, OnWallet
<1>3. Calm
  <2>1. Numbered(<<>>)
    BY DEF Numbered
  <2>2. \A w \in WalletIds : CalmWallet(w)
    BY <1>1, <2>1 DEF CalmWallet, Loaded, OnDisk, Absent
  <2>3. \A c \in WalletCallers : CalmCall(walletCall[c])
    BY <1>1 DEF CalmCall, WalletIdle
  <2> QED BY <2>2, <2>3 DEF Calm
<1> QED BY <1>1, <1>2, <1>3 DEF WalletsInv, WalletsInit

\* A step of call c, which touches no wallet but w.
LEMMA WalletStep ==
  ASSUME WalletsInv, NEW c \in WalletCallers, NEW w,
         DOMAIN walletCall' = WalletCallers, DOMAIN walletCall'[c] = CallFields,
         \A d \in WalletCallers : d # c => walletCall'[d] = walletCall[d],
         WalletCallHolds(walletCall[c])',
         walletCall[c].wallet \in {w, NoFile}, walletCall'[c].wallet \in {w, NoFile},
         DOMAIN walletFile' = WalletIds, DOMAIN walletState' = WalletIds,
         \A v \in WalletIds : v # w => walletFile'[v] = walletFile[v]
               /\ walletState'[v] = walletState[v],
         used \subseteq used', contested \subseteq contested',
         contested' \subseteq contested \cup {w}, w \in contested' => w \in used,
         \A d \in derived' : d \in derived \/ (d.wallet = w /\ w \in WalletIds \cap used),
         DOMAIN apiFile' = ApiKeys,
         \A a \in ApiKeys : apiFile'[a] = apiFile[a] \/ apiFile'[a] = NoFile
                            \/ (apiFile'[a] = w /\ w \in WalletIds \cap used),
         bound' # NoFile => bound' \in used,
         \A s \in signedBy' : s.gone => s.wallet \in contested',
         \A d \in WalletCallers : d # c /\ walletCall[d].wallet = w =>
               w \in contested' \cup {NoFile},
         \A d \in WalletCallers : d # c /\ walletCall[d].at = "newfile" => walletCall[d].wallet # w,
         w \in WalletIds /\ w \notin used' => Unborn(w)',
         walletCall'[c].at = "newfile" => Unborn(w)',
         w \in WalletIds \ contested' => CalmWallet(w)' /\ CalmCall(walletCall[c])'
  PROVE  WalletsInv'
<1>1. WalletTypes'
  <2>1. \A d \in WalletCallers : DOMAIN walletCall'[d] = CallFields
    BY DEF WalletsInv, WalletTypes
  <2>2. \A a \in ApiKeys : apiFile'[a] # NoFile => apiFile'[a] \in WalletIds \cap used'
    BY DEF WalletsInv, WalletTypes
  <2> QED BY <2>1, <2>2 DEF WalletsInv, WalletTypes
<1>2. \A d \in WalletCallers : WalletCallHolds(walletCall[d])'
  BY DEF WalletsInv, WalletCallHolds
<1>3. OneCallEach'
  BY DEF WalletsInv, OneCallEach
<1>4. ASSUME NEW v \in WalletIds, v # w, Unborn(v) PROVE Unborn(v)'
  BY <1>4, WalletNames DEF Unborn, OnDisk, Loaded
<1>5. NewWallets'
  <2>1. ASSUME NEW v \in WalletIds \ used' PROVE Unborn(v)'
    BY <1>4, <2>1 DEF WalletsInv, NewWallets
  <2>2. ASSUME NEW d \in WalletCallers, walletCall'[d].at = "newfile"
        PROVE  Unborn(walletCall[d].wallet)'
    <3>1. CASE d = c
      <4>1. walletCall'[c].wallet = w
        BY <2>2, <3>1, WalletNames DEF WalletCallHolds, OnWallet
      <4> QED BY <2>2, <3>1, <4>1
    <3>2. CASE d # c
      <4>1. PICK v : v = walletCall[d].wallet
        OBVIOUS
      <4>2. walletCall'[d].wallet = v /\ v # w /\ Unborn(v) /\ v \in WalletIds
        BY <2>2, <3>2, <4>1 DEF WalletsInv, NewWallets, WalletCallHolds, OnWallet
      <4>3. Unborn(v)'
        BY <1>4, <4>2
      <4> QED BY <4>2, <4>3
    <3> QED BY <3>1, <3>2
  <2> QED BY <2>1, <2>2 DEF NewWallets
<1>6. ASSUME NEW v \in WalletIds \ contested', v # w PROVE CalmWallet(v)'
  <2>1. CalmWallet(v) /\ walletFile'[v] = walletFile[v] /\ walletState'[v] = walletState[v]
    BY <1>6 DEF WalletsInv, Calm
  <2>2. \A d \in derived' : d.wallet = v => d \in derived
    BY <1>6
  <2>3. Changing(v) => Changing(v)'
    <3>1. v # NoFile
      BY <1>6, WalletNames
    <3> QED BY <1>6, <3>1 DEF Changing
  <2> QED BY <2>1, <2>2, <2>3 DEF CalmWallet, Loaded, OnDisk
<1>7. ASSUME NEW d \in WalletCallers, walletCall'[d].wallet \in WalletIds \ contested'
      PROVE  CalmCall(walletCall[d])'
  <2>1. CASE d = c
    <3>1. walletCall'[c].wallet = w
      BY <1>7, <2>1, WalletNames
    <3> QED BY <1>7, <2>1, <3>1
  <2>2. CASE d # c
    <3>1. PICK v : v = walletCall[d].wallet
      OBVIOUS
    <3>2. /\ walletCall'[d] = walletCall[d] /\ v \in WalletIds \ contested /\ v # w
          /\ CalmCall(walletCall[d])
      BY <1>7, <2>2, <3>1, WalletNames DEF WalletsInv, Calm
    <3>3. walletFile'[v] = walletFile[v] /\ \A e \in derived' : e.wallet = v => e \in derived
      BY <3>2
    <3> QED BY <3>1, <3>2, <3>3 DEF CalmCall, OnDisk
  <2> QED BY <2>1, <2>2
<1>8. Calm'
  BY <1>6, <1>7 DEF Calm
<1> QED BY <1>1, <1>2, <1>3, <1>5, <1>8 DEF WalletsInv

\* The beginning of a call on a wallet that is on disk.
LEMMA BeginFacts ==
  ASSUME WalletsInv, NEW c \in WalletCallers, NEW w \in WalletIds, OnDisk(w), NEW op, NEW at, NEW a,
         at \in OnWallet \ {"newfile"}, at = "keyfile" => a \in ApiKeys,
         BeginWallet(c, op, at, w, a), used \subseteq used'
  PROVE  /\ DOMAIN walletCall' = WalletCallers /\ DOMAIN walletCall'[c] = CallFields
         /\ \A d \in WalletCallers : d # c => walletCall'[d] = walletCall[d]
         /\ walletCall[c].wallet = NoFile /\ walletCall'[c].wallet = w /\ walletCall'[c].at = at
         /\ WalletCallHolds(walletCall[c])'
         /\ contested \subseteq contested' /\ contested' \subseteq contested \cup {w} /\ w \in used
         /\ \A d \in WalletCallers : d # c /\ walletCall[d].wallet = w => w \in contested'
         /\ \A d \in WalletCallers : walletCall[d].at = "newfile" => walletCall[d].wallet # w
<1> DEFINE r == [WalletIdle EXCEPT !.at = at, !.op = op, !.wallet = w, !.key = a]
<1>1. /\ walletCall[c] = WalletIdle /\ walletCall' = [walletCall EXCEPT ![c] = r]
      /\ contested' = contested \cup Contested(w)
  BY DEF BeginWallet, Put
<1>2. DOMAIN r = CallFields /\ r.at = at /\ r.wallet = w /\ r.key = a
  BY DEF WalletIdle, CallFields
<1> HIDE DEF r
<1>3. w \in used
  BY DEF WalletsInv, NewWallets, Unborn
<1>4. /\ DOMAIN walletCall' = WalletCallers /\ walletCall'[c] = r
      /\ \A d \in WalletCallers : d # c => walletCall'[d] = walletCall[d]
  BY <1>1 DEF WalletsInv, WalletTypes
<1>5. WalletCallHolds(walletCall[c])'
  BY <1>2, <1>3, <1>4 DEF WalletCallHolds, OnWallet
<1>6. Contested(w) \subseteq {w} /\ \A d \in WalletCallers : walletCall[d].wallet = w =>
          w \in Contested(w)
  BY WalletNames DEF Contested
<1>7. \A d \in WalletCallers : walletCall[d].at = "newfile" => walletCall[d].wallet # w
  BY DEF WalletsInv, NewWallets, Unborn
<1> QED BY <1>1, <1>2, <1>3, <1>4, <1>5, <1>6, <1>7 DEF WalletIdle

LEMMA BeginQuiet ==
  ASSUME WalletsInv, NEW c \in WalletCallers, NEW w \in WalletIds, OnDisk(w), NEW op, NEW at, NEW a,
         at \in {"bind", "load", "ensured", "keyfile"}, at = "keyfile" => a \in ApiKeys,
         BeginWallet(c, op, at, w, a), used \subseteq used',
         UNCHANGED <<walletFile, walletState, apiFile, bound, derived, signedBy>>
  PROVE  WalletsInv'
<1>0. at \in OnWallet \ {"newfile"}
  BY DEF OnWallet
<1>1. /\ DOMAIN walletCall' = WalletCallers /\ DOMAIN walletCall'[c] = CallFields
      /\ \A d \in WalletCallers : d # c => walletCall'[d] = walletCall[d]
      /\ walletCall[c].wallet = NoFile /\ walletCall'[c].wallet = w /\ walletCall'[c].at = at
      /\ WalletCallHolds(walletCall[c])'
      /\ contested \subseteq contested' /\ contested' \subseteq contested \cup {w} /\ w \in used
      /\ \A d \in WalletCallers : d # c /\ walletCall[d].wallet = w => w \in contested'
      /\ \A d \in WalletCallers : walletCall[d].at = "newfile" => walletCall[d].wallet # w
  BY <1>0, BeginFacts
<1>2. ASSUME w \notin contested' PROVE CalmWallet(w)' /\ CalmCall(walletCall[c])'
  <2>1. CalmWallet(w)
    BY <1>1, <1>2 DEF WalletsInv, Calm
  <2>2. Changing(w) => Changing(w)'
    BY <1>1, WalletNames DEF Changing
  <2>3. CalmWallet(w)'
    BY <2>1, <2>2 DEF CalmWallet, Loaded, OnDisk
  <2> QED BY <1>1, <2>3 DEF CalmCall
<1>3. /\ bound' # NoFile => bound' \in used
      /\ \A s \in signedBy' : s.gone => s.wallet \in contested'
      /\ DOMAIN walletFile' = WalletIds /\ DOMAIN walletState' = WalletIds
      /\ DOMAIN apiFile' = ApiKeys
  BY <1>1 DEF WalletsInv, WalletTypes
<1> QED BY <1>1, <1>2, <1>3, WalletStep

LEMMA BeginningsSound ==
  ASSUME WalletsInv, NEW c \in WalletCallers, NEW w \in WalletIds,
         \/ InitExisting(c, w)
         \/ \E op \in {"derive", "list"} : Ensure(c, op, w)
         \/ \E a \in ApiKeys : CreateApiKey(c, a, w)
  PROVE  WalletsInv'
<1>1. CASE InitExisting(c, w)
  BY <1>1, BeginQuiet DEF InitExisting
<1>2. ASSUME NEW op \in {"derive", "list"}, Ensure(c, op, w) PROVE WalletsInv'
  <2>1. PICK at \in {"load", "ensured"} : BeginWallet(c, op, at, w, NoFile)
    BY <1>2 DEF Ensure
  <2> QED BY <1>2, <2>1, BeginQuiet DEF Ensure
<1>3. ASSUME NEW a \in ApiKeys, CreateApiKey(c, a, w) PROVE WalletsInv'
  BY <1>3, BeginQuiet DEF CreateApiKey
<1> QED BY <1>1, <1>2, <1>3

LEMMA DeleteSound ==
  ASSUME WalletsInv, NEW c \in WalletCallers, NEW w \in WalletIds, DeleteWallet(c, w)
  PROVE  WalletsInv'
<1>0. /\ OnDisk(w) /\ BeginWallet(c, "delete", "deleted", w, NoFile)
      /\ walletFile' = [walletFile EXCEPT ![w] = Absent]
      /\ UNCHANGED <<walletState, apiFile, bound, derived, signedBy, used>>
  BY DEF DeleteWallet
<1>1. /\ DOMAIN walletCall' = WalletCallers /\ DOMAIN walletCall'[c] = CallFields
      /\ \A d \in WalletCallers : d # c => walletCall'[d] = walletCall[d]
      /\ walletCall[c].wallet = NoFile /\ walletCall'[c].wallet = w /\ walletCall'[c].at = "deleted"
      /\ WalletCallHolds(walletCall[c])'
      /\ contested \subseteq contested' /\ contested' \subseteq contested \cup {w} /\ w \in used
      /\ \A d \in WalletCallers : d # c /\ walletCall[d].wallet = w => w \in contested'
      /\ \A d \in WalletCallers : walletCall[d].at = "newfile" => walletCall[d].wallet # w
  <2>1. "deleted" \in OnWallet \ {"newfile"} /\ used \subseteq used'
    BY <1>0 DEF OnWallet
  <2> QED BY <1>0, <2>1, BeginFacts
<1>2. CalmWallet(w)' /\ CalmCall(walletCall[c])'
  <2>1. walletFile'[w] = Absent /\ ~Absent.there /\ Absent.accounts = <<>>
    BY <1>0 DEF WalletsInv, WalletTypes, Absent
  <2>2. Numbered(<<>>)
    BY DEF Numbered
  <2>3. Changing(w)'
    BY <1>1 DEF Changing
  <2>4. CalmWallet(w)'
    BY <2>1, <2>2, <2>3 DEF CalmWallet, OnDisk
  <2> QED BY <1>1, <2>4 DEF CalmCall
<1>3. /\ bound' # NoFile => bound' \in used
      /\ \A s \in signedBy' : s.gone => s.wallet \in contested'
      /\ DOMAIN walletFile' = WalletIds /\ DOMAIN walletState' = WalletIds
      /\ DOMAIN apiFile' = ApiKeys
      /\ \A v \in WalletIds : v # w => walletFile'[v] = walletFile[v]
  BY <1>0, <1>1 DEF WalletsInv, WalletTypes
<1> QED BY <1>0, <1>1, <1>2, <1>3, WalletStep

LEMMA CreateSound ==
  ASSUME WalletsInv, NEW c \in WalletCallers, NEW w \in WalletIds, NEW op \in {"create", "init"},
         CreateWallet(c, w, op)
  PROVE  WalletsInv'
<1> DEFINE r == [WalletIdle EXCEPT !.at = "newfile", !.op = op, !.wallet = w, !.key = NoFile]
<1>1. /\ walletCall[c] = WalletIdle /\ walletCall' = [walletCall EXCEPT ![c] = r]
      /\ contested' = contested \cup Contested(w) /\ w \notin used /\ used' = used \cup {w}
      /\ UNCHANGED <<walletFile, walletState, apiFile, bound, derived, signedBy>>
  BY DEF CreateWallet, BeginWallet, Put
<1>2. DOMAIN r = CallFields /\ r.at = "newfile" /\ r.wallet = w
  BY DEF WalletIdle, CallFields
<1> HIDE DEF r
<1>3. /\ DOMAIN walletCall' = WalletCallers /\ walletCall'[c] = r
      /\ \A d \in WalletCallers : d # c => walletCall'[d] = walletCall[d]
  BY <1>1 DEF WalletsInv, WalletTypes
<1>4. \A d \in WalletCallers : walletCall[d].wallet # w
  BY <1>1, WalletNames DEF WalletsInv, WalletCallHolds
<1>5. contested' = contested
  BY <1>1, <1>4 DEF Contested
<1>6. WalletCallHolds(walletCall[c])'
  BY <1>1, <1>2, <1>3 DEF WalletCallHolds, OnWallet
<1>7. Unborn(w)'
  BY <1>1, <1>5 DEF WalletsInv, NewWallets, Unborn, OnDisk, Loaded
<1>8. ASSUME w \notin contested' PROVE CalmWallet(w)' /\ CalmCall(walletCall[c])'
  <2>1. CalmWallet(w)
    BY <1>5, <1>8 DEF WalletsInv, Calm
  <2>2. CalmWallet(w)'
    BY <1>1, <1>7, <2>1 DEF CalmWallet, Unborn, OnDisk, Loaded
  <2> QED BY <1>2, <1>3, <2>2 DEF CalmCall
<1>9. /\ bound' # NoFile => bound' \in used
      /\ \A s \in signedBy' : s.gone => s.wallet \in contested'
      /\ DOMAIN walletFile' = WalletIds /\ DOMAIN walletState' = WalletIds
      /\ DOMAIN apiFile' = ApiKeys
  BY <1>1, <1>5 DEF WalletsInv, WalletTypes
<1>10. walletCall[c].wallet = NoFile /\ w \notin contested
  BY <1>1 DEF WalletIdle, WalletsInv, NewWallets, Unborn
<1> QED BY <1>1, <1>2, <1>3, <1>4, <1>5, <1>6, <1>7, <1>8, <1>9, <1>10, WalletStep

LEMMA ReadKeySound ==
  ASSUME WalletsInv, NEW c \in WalletCallers, NEW a \in ApiKeys, ReadApiKey(c, a)
  PROVE  WalletsInv'
<1> DEFINE r == [WalletIdle EXCEPT !.at = "scan", !.op = "apisign", !.wallet = NoFile, !.key = a]
<1>1. /\ walletCall[c] = WalletIdle /\ walletCall' = [walletCall EXCEPT ![c] = r]
      /\ contested' = contested \cup Contested(NoFile)
      /\ UNCHANGED <<walletFile, walletState, apiFile, bound, derived, signedBy, used>>
  BY DEF ReadApiKey, BeginWallet, Put
<1>2. DOMAIN r = CallFields /\ r.at = "scan" /\ r.wallet = NoFile /\ r.key = a
  BY DEF WalletIdle, CallFields
<1> HIDE DEF r
<1>3. /\ DOMAIN walletCall' = WalletCallers /\ walletCall'[c] = r
      /\ \A d \in WalletCallers : d # c => walletCall'[d] = walletCall[d]
  BY <1>1 DEF WalletsInv, WalletTypes
<1>4. contested' = contested
  BY <1>1 DEF Contested
<1>5. WalletCallHolds(walletCall[c])'
  BY <1>2, <1>3 DEF WalletCallHolds, OnWallet
<1>6. /\ bound' # NoFile => bound' \in used
      /\ \A s \in signedBy' : s.gone => s.wallet \in contested'
      /\ DOMAIN walletFile' = WalletIds /\ DOMAIN walletState' = WalletIds
      /\ DOMAIN apiFile' = ApiKeys
      /\ NoFile \in contested' => NoFile \in used
  BY <1>1, <1>4 DEF WalletsInv, WalletTypes
<1>7. walletCall[c].wallet = NoFile
  BY <1>1 DEF WalletIdle
<1>8. \A d \in WalletCallers : walletCall[d].at = "newfile" => walletCall[d].wallet # NoFile
  BY WalletNames DEF WalletsInv, WalletCallHolds, OnWallet
<1> QED BY <1>1, <1>2, <1>3, <1>4, <1>5, <1>6, <1>7, <1>8, WalletNames, WalletStep

\* The next step of a call that is on a wallet.
LEMMA OwnWallet ==
  ASSUME WalletsInv, NEW c \in WalletCallers, walletCall[c].at \in OnWallet
  PROVE  /\ walletCall[c].wallet \in WalletIds \cap used
         /\ \A d \in WalletCallers : d # c /\ walletCall[d].wallet = walletCall[c].wallet =>
               walletCall[c].wallet \in contested
         /\ \A d \in WalletCallers : d # c /\ walletCall[d].at = "newfile" =>
               walletCall[d].wallet # walletCall[c].wallet
         /\ DOMAIN walletCall[c] = CallFields
<1>1. walletCall[c].wallet \in WalletIds \cap used /\ DOMAIN walletCall[c] = CallFields
  BY DEF WalletsInv, WalletCallHolds, WalletTypes
<1>2. \A d \in WalletCallers : d # c /\ walletCall[d].wallet = walletCall[c].wallet =>
         walletCall[c].wallet \in contested
  BY <1>1, WalletNames DEF WalletsInv, OneCallEach
<1>3. \A d \in WalletCallers : d # c /\ walletCall[d].at = "newfile" =>
         walletCall[d].wallet # walletCall[c].wallet
  BY <1>2 DEF WalletsInv, NewWallets, Unborn
<1> QED BY <1>1, <1>2, <1>3

\* A step that leaves the files and the memory of the wallets alone.
LEMMA WalletQuiet ==
  ASSUME WalletsInv, NEW c \in WalletCallers,
         walletCall[c].at \in OnWallet \ {"newfile", "updated", "deleted"},
         NEW r, walletCall' = [walletCall EXCEPT ![c] = r], DOMAIN r = CallFields,
         WalletCallHolds(r), r.wallet \in {walletCall[c].wallet, NoFile}, r.at # "newfile",
         walletCall[c].wallet \notin contested => CalmCall(r),
         DOMAIN apiFile' = ApiKeys,
         \A a \in ApiKeys : apiFile'[a] = apiFile[a] \/ apiFile'[a] = walletCall[c].wallet,
         bound' # NoFile => bound' \in used,
         \A s \in signedBy' : s.gone => s.wallet \in contested,
         UNCHANGED <<walletFile, walletState, derived, contested, used>>
  PROVE  WalletsInv'
<1>0. PICK w : w = walletCall[c].wallet
  OBVIOUS
<1>1. /\ w \in WalletIds \cap used
      /\ \A d \in WalletCallers : d # c /\ walletCall[d].wallet = w => w \in contested
      /\ \A d \in WalletCallers : d # c /\ walletCall[d].at = "newfile" => walletCall[d].wallet # w
  BY <1>0, OwnWallet
<1>2. /\ DOMAIN walletCall' = WalletCallers /\ walletCall'[c] = r
      /\ \A d \in WalletCallers : d # c => walletCall'[d] = walletCall[d]
      /\ DOMAIN walletFile' = WalletIds /\ DOMAIN walletState' = WalletIds
  BY DEF WalletsInv, WalletTypes
<1>3. WalletCallHolds(walletCall[c])'
  BY <1>2 DEF WalletCallHolds
<1>4. ASSUME w \notin contested' PROVE CalmWallet(w)' /\ CalmCall(walletCall[c])'
  <2>1. CalmWallet(w) /\ CalmCall(r)
    BY <1>0, <1>1, <1>4 DEF WalletsInv, Calm
  <2>2. Changing(w) => Changing(w)'
    BY <1>2 DEF Changing
  <2>3. CalmWallet(w)'
    BY <2>1, <2>2 DEF CalmWallet, Loaded, OnDisk
  <2>4. CalmCall(walletCall[c])'
    BY <1>2, <2>1 DEF CalmCall, OnDisk
  <2> QED BY <2>3, <2>4
<1>5. /\ walletCall[c].wallet \in {w, NoFile} /\ walletCall'[c].wallet \in {w, NoFile}
      /\ walletCall'[c].at # "newfile" /\ DOMAIN walletCall'[c] = CallFields
  BY <1>0, <1>2
<1>6. /\ used \subseteq used' /\ contested \subseteq contested'
          /\ contested' \subseteq contested \cup {w}
      /\ w \in contested' => w \in used
      /\ \A d \in derived' : d \in derived \/ (d.wallet = w /\ w \in WalletIds \cap used)
      /\ w \in WalletIds /\ w \notin used' => Unborn(w)'
      /\ \A d \in WalletCallers : d # c /\ walletCall[d].wallet = w =>
            w \in contested' \cup {NoFile}
  BY <1>1
<1>7. \A a \in ApiKeys : apiFile'[a] = apiFile[a] \/ apiFile'[a] = NoFile
                         \/ (apiFile'[a] = w /\ w \in WalletIds \cap used)
  BY <1>0, <1>1
<1> QED BY <1>1, <1>2, <1>3, <1>4, <1>5, <1>6, <1>7, WalletStep

LEMMA IdleCall ==
  /\ DOMAIN WalletIdle = CallFields /\ WalletCallHolds(WalletIdle) /\ CalmCall(WalletIdle)
  /\ WalletIdle.wallet = NoFile /\ WalletIdle.at = "idle"
BY DEF WalletIdle, CallFields, WalletCallHolds, OnWallet, CalmCall

\* The call ends.
LEMMA CallEnds ==
  ASSUME WalletsInv, NEW c \in WalletCallers,
         walletCall[c].at \in OnWallet \ {"newfile", "updated", "deleted"},
         walletCall' = [walletCall EXCEPT ![c] = WalletIdle],
         DOMAIN apiFile' = ApiKeys,
         \A a \in ApiKeys : apiFile'[a] = apiFile[a] \/ apiFile'[a] = walletCall[c].wallet,
         bound' # NoFile => bound' \in used,
         \A s \in signedBy' : s.gone => s.wallet \in contested,
         UNCHANGED <<walletFile, walletState, derived, contested, used>>
  PROVE  WalletsInv'
BY IdleCall, WalletQuiet

LEMMA BindSound ==
  ASSUME WalletsInv, NEW c \in WalletCallers, BindWallet(c) \/ ApiKeyWritten(c) PROVE WalletsInv'
<1>1. /\ walletCall' = [walletCall EXCEPT ![c] = WalletIdle]
      /\ walletCall[c].at \in {"bind", "keyfile"}
      /\ bound' \in {bound, walletCall[c].wallet}
      /\ UNCHANGED <<walletFile, walletState, derived, contested, used, signedBy>>
  BY DEF BindWallet, ApiKeyWritten, At, Put
<1>2. walletCall[c].wallet \in used
  BY <1>1, OwnWallet DEF OnWallet
<1>3. bound' # NoFile => bound' \in used
  BY <1>1, <1>2 DEF WalletsInv, WalletTypes
<1>4. /\ DOMAIN apiFile' = ApiKeys
      /\ \A a \in ApiKeys : apiFile'[a] = apiFile[a] \/ apiFile'[a] = walletCall[c].wallet
  BY DEF BindWallet, ApiKeyWritten, WalletsInv, WalletTypes
<1>5. \A s \in signedBy' : s.gone => s.wallet \in contested
  BY <1>1 DEF WalletsInv
<1>6. walletCall[c].at \in OnWallet \ {"newfile", "updated", "deleted"}
  BY <1>1 DEF OnWallet
<1> QED BY <1>1, <1>3, <1>4, <1>5, <1>6, CallEnds

LEMMA ApiSignSound == ASSUME WalletsInv, NEW c \in WalletCallers, ApiSign(c) PROVE WalletsInv'
<1>1. /\ walletCall' = [walletCall EXCEPT ![c] = WalletIdle] /\ walletCall[c].at = "chain"
      /\ UNCHANGED <<walletFile, walletState, derived, contested, used, apiFile, bound>>
  BY DEF ApiSign, At, Put
<1>2. walletCall[c].at \in OnWallet \ {"newfile", "updated", "deleted"}
  BY <1>1 DEF OnWallet
<1>3. PICK w : w = walletCall[c].wallet
  OBVIOUS
<1>4. /\ w \in WalletIds
      /\ \A d \in WalletCallers : d # c /\ walletCall[d].wallet = w => w \in contested
  BY <1>2, <1>3, OwnWallet
<1>5. ASSUME w \notin contested, Loaded(w) PROVE OnDisk(w)
  <2>1. ~Changing(w)
    BY <1>1, <1>4, <1>5 DEF Changing
  <2> QED BY <1>4, <1>5, <2>1 DEF WalletsInv, Calm, CalmWallet
<1>6. \A s \in signedBy' : s.gone => s.wallet \in contested
  <2> DEFINE s0 == [wallet |-> w, gone |-> ~OnDisk(w)]
  <2>1. \A s \in signedBy' : s \in signedBy \/ (Loaded(w) /\ s = s0)
    BY <1>3 DEF ApiSign, ChainKnown
  <2>2. s0.gone = ~OnDisk(w) /\ s0.wallet = w
    OBVIOUS
  <2> HIDE DEF s0
  <2>3. Loaded(w) => (s0.gone => s0.wallet \in contested)
    BY <1>5, <2>2
  <2> QED BY <2>1, <2>3 DEF WalletsInv
<1>7. DOMAIN apiFile' = ApiKeys /\ (bound' # NoFile => bound' \in used)
  BY <1>1 DEF WalletsInv, WalletTypes
<1> QED BY <1>1, <1>2, <1>6, <1>7, CallEnds

LEMMA EnsuredSound == ASSUME WalletsInv, NEW c \in WalletCallers, Ensured(c) PROVE WalletsInv'
<1>1. /\ walletCall[c].at = "ensured"
      /\ UNCHANGED <<walletFile, walletState, apiFile, bound, derived, contested, signedBy, used>>
  BY DEF Ensured, At
<1>2. walletCall[c].at \in OnWallet \ {"newfile", "updated", "deleted"}
  BY <1>1 DEF OnWallet
<1>3. /\ DOMAIN apiFile' = ApiKeys /\ (bound' # NoFile => bound' \in used)
      /\ \A s \in signedBy' : s.gone => s.wallet \in contested
  BY <1>1 DEF WalletsInv, WalletTypes
<1>4. PICK w : w = walletCall[c].wallet
  OBVIOUS
<1>5. CASE walletCall' = [walletCall EXCEPT ![c] = WalletIdle]
  BY <1>1, <1>2, <1>3, <1>5, CallEnds
<1>6. CASE ~(walletCall' = [walletCall EXCEPT ![c] = WalletIdle])
  <2>1. PICK r : r = [walletCall[c] EXCEPT !.at = "update", !.index = walletState[w].next,
                         !.accounts = Append(walletState[w].accounts, walletState[w].next)]
    OBVIOUS
  <2>2. Loaded(w) /\ walletCall' = [walletCall EXCEPT ![c] = r]
    BY <1>4, <1>6, <2>1 DEF Ensured, Put
  <2>3. /\ DOMAIN walletCall[c] = CallFields /\ w \in WalletIds \cap used
        /\ \A d \in WalletCallers : d # c /\ walletCall[d].wallet = w => w \in contested
    BY <1>2, <1>4, OwnWallet
  <2>4. /\ DOMAIN r = CallFields /\ r.at = "update" /\ r.wallet = w /\ r.index = walletState[w].next
        /\ r.accounts = Append(walletState[w].accounts, walletState[w].next)
    BY <1>4, <2>1, <2>3 DEF CallFields
  <2>5. WalletCallHolds(r)
    BY <2>3, <2>4 DEF WalletCallHolds, OnWallet
  <2>6. ASSUME w \notin contested PROVE CalmCall(r)
    <3>1. ~Changing(w)
      BY <1>1, <2>3, <2>6 DEF Changing
    <3>2. /\ walletState[w].accounts = walletFile[w].accounts
          /\ walletState[w].next = Len(walletFile[w].accounts)
      BY <2>2, <2>3, <2>6, <3>1 DEF WalletsInv, Calm, CalmWallet
    <3> QED BY <2>4, <3>2 DEF CalmCall
  <2> QED BY <1>1, <1>2, <1>3, <1>4, <2>2, <2>4, <2>5, <2>6, WalletQuiet
<1> QED BY <1>5, <1>6

\* The largest account index of a numbered list is the last one.
LEMMA NextOfNumbered ==
  ASSUME NEW accounts, Numbered(accounts)
  PROVE  NextIndex(accounts) = Len(accounts)
<1> DEFINE S == {-1} \union {accounts[i] : i \in DOMAIN accounts}  n == Len(accounts)
<1>1. n \in Nat /\ DOMAIN accounts = 1..n /\ \A i \in 1..n : accounts[i] = i - 1
  BY DEF Numbered
<1>2. n - 1 \in S
  <2>1. CASE n = 0
    BY <2>1
  <2>2. CASE n # 0
    <3>1. n \in DOMAIN accounts /\ accounts[n] = n - 1
      BY <1>1, <2>2
    <3> QED BY <3>1
  <2> QED BY <2>1, <2>2
<1>3. \A y \in S : y \in Int /\ n - 1 >= y
  BY <1>1
<1> HIDE DEF S, n
<1>4. Max(S) = n - 1
  BY <1>1, <1>2, <1>3 DEF Max
<1> QED BY <1>1, <1>4 DEF NextIndex, S, n

LEMMA LoadSound == ASSUME WalletsInv, NEW c \in WalletCallers, Load(c) PROVE WalletsInv'
<1>1. /\ walletCall[c].at = "load"
      /\ UNCHANGED <<walletFile, apiFile, bound, derived, contested, signedBy, used>>
  BY DEF Load, At
<1>2. walletCall[c].at \in OnWallet \ {"newfile", "updated", "deleted"}
  BY <1>1 DEF OnWallet
<1>3. /\ DOMAIN apiFile' = ApiKeys /\ (bound' # NoFile => bound' \in used)
      /\ \A s \in signedBy' : s.gone => s.wallet \in contested
      /\ DOMAIN walletFile' = WalletIds
  BY <1>1 DEF WalletsInv, WalletTypes
<1>4. PICK w : w = walletCall[c].wallet
  OBVIOUS
<1>5. CASE ~OnDisk(w)
  <2>1. walletCall' = [walletCall EXCEPT ![c] = WalletIdle] /\ UNCHANGED walletState
    BY <1>4, <1>5 DEF Load, Put
  <2> QED BY <1>1, <1>2, <1>3, <2>1, CallEnds
<1>6. CASE OnDisk(w)
  <2>1. PICK r : r = [walletCall[c] EXCEPT !.at = "ensured"]
    OBVIOUS
  <2>2. /\ walletCall' = [walletCall EXCEPT ![c] = r]
        /\ walletState' = [walletState EXCEPT ![w] =
              Holds(NextIndex(walletFile[w].accounts), walletFile[w].accounts)]
    BY <1>4, <1>6, <2>1 DEF Load, Put
  <2>3. /\ DOMAIN walletCall[c] = CallFields /\ w \in WalletIds \cap used
        /\ \A d \in WalletCallers : d # c /\ walletCall[d].wallet = w => w \in contested
        /\ \A d \in WalletCallers : d # c /\ walletCall[d].at = "newfile" =>
              walletCall[d].wallet # w
    BY <1>2, <1>4, OwnWallet
  <2>4. DOMAIN r = CallFields /\ r.at = "ensured" /\ r.wallet = w
    BY <1>4, <2>1, <2>3 DEF CallFields
  <2>5. /\ DOMAIN walletCall' = WalletCallers /\ walletCall'[c] = r
        /\ \A d \in WalletCallers : d # c => walletCall'[d] = walletCall[d]
        /\ DOMAIN walletState' = WalletIds
        /\ \A v \in WalletIds : v # w => walletState'[v] = walletState[v]
    BY <2>2 DEF WalletsInv, WalletTypes
  <2>6. WalletCallHolds(walletCall[c])' /\ CalmCall(walletCall[c])'
    BY <1>1, <2>3, <2>4, <2>5 DEF WalletCallHolds, OnWallet, CalmCall
  <2>7. ASSUME w \notin contested' PROVE CalmWallet(w)'
    <3>1. CalmWallet(w)
      BY <1>1, <2>3, <2>7 DEF WalletsInv, Calm
    <3>2. NextIndex(walletFile[w].accounts) = Len(walletFile[w].accounts)
      BY <3>1, NextOfNumbered DEF CalmWallet
    <3>3. /\ walletState'[w].accounts = walletFile[w].accounts
          /\ walletState'[w].next = Len(walletFile[w].accounts)
      BY <2>2, <2>3, <3>2 DEF WalletsInv, WalletTypes, Holds
    <3> QED BY <1>1, <1>6, <3>1, <3>3 DEF CalmWallet, OnDisk
  <2> QED BY <1>1, <1>3, <1>4, <2>3, <2>4, <2>5, <2>6, <2>7, WalletStep
<1> QED BY <1>5, <1>6

LEMMA UpdateSound == ASSUME WalletsInv, NEW c \in WalletCallers, UpdateAccounts(c) PROVE WalletsInv'
<1>1. /\ walletCall[c].at = "update"
      /\ UNCHANGED <<walletState, apiFile, bound, derived, contested, signedBy, used>>
  BY DEF UpdateAccounts, At
<1>2. walletCall[c].at \in OnWallet \ {"newfile", "updated", "deleted"}
  BY <1>1 DEF OnWallet
<1>3. /\ DOMAIN apiFile' = ApiKeys /\ (bound' # NoFile => bound' \in used)
      /\ \A s \in signedBy' : s.gone => s.wallet \in contested
      /\ DOMAIN walletState' = WalletIds
  BY <1>1 DEF WalletsInv, WalletTypes
<1>4. PICK w : w = walletCall[c].wallet
  OBVIOUS
<1>5. CASE ~OnDisk(w)
  <2>1. walletCall' = [walletCall EXCEPT ![c] = WalletIdle] /\ UNCHANGED walletFile
    BY <1>4, <1>5 DEF UpdateAccounts, Put
  <2> QED BY <1>1, <1>2, <1>3, <2>1, CallEnds
<1>6. CASE OnDisk(w)
  <2>1. PICK r : r = [walletCall[c] EXCEPT !.at = "updated"]
    OBVIOUS
  <2>2. /\ walletCall' = [walletCall EXCEPT ![c] = r]
        /\ walletFile' = [walletFile EXCEPT ![w] = Holds(0, walletCall[c].accounts)]
    BY <1>4, <1>6, <2>1 DEF UpdateAccounts, Put
  <2>3. /\ DOMAIN walletCall[c] = CallFields /\ w \in WalletIds \cap used
        /\ \A d \in WalletCallers : d # c /\ walletCall[d].wallet = w => w \in contested
        /\ \A d \in WalletCallers : d # c /\ walletCall[d].at = "newfile" =>
              walletCall[d].wallet # w
    BY <1>2, <1>4, OwnWallet
  <2>4. /\ DOMAIN r = CallFields /\ r.at = "updated" /\ r.wallet = w
        /\ r.index = walletCall[c].index /\ r.accounts = walletCall[c].accounts
    BY <1>4, <2>1, <2>3 DEF CallFields
  <2>5. /\ DOMAIN walletCall' = WalletCallers /\ walletCall'[c] = r
        /\ \A d \in WalletCallers : d # c => walletCall'[d] = walletCall[d]
        /\ DOMAIN walletFile' = WalletIds
        /\ \A v \in WalletIds : v # w => walletFile'[v] = walletFile[v]
        /\ walletFile'[w].there /\ walletFile'[w].accounts = r.accounts
    BY <2>2, <2>3, <2>4 DEF WalletsInv, WalletTypes, Holds
  <2>6. WalletCallHolds(walletCall[c])'
    BY <1>1, <2>3, <2>4, <2>5 DEF WalletCallHolds, OnWallet
  <2>7. ASSUME w \notin contested' PROVE CalmWallet(w)' /\ CalmCall(walletCall[c])'
    <3> DEFINE old == walletFile[w].accounts
    <3>1. CalmWallet(w) /\ CalmCall(walletCall[c])
      BY <1>1, <1>4, <2>3, <2>7 DEF WalletsInv, Calm
    <3>2. /\ old \in Seq(Nat) /\ Len(old) \in Nat /\ \A i \in 1..Len(old) : old[i] = i - 1
          /\ r.index = Len(old) /\ r.accounts = Append(old, Len(old))
      <4>1. old \in Seq(Nat) /\ \A i \in 1..Len(old) : old[i] = i - 1
        BY <3>1 DEF CalmWallet, Numbered
      <4>2. Len(old) \in Nat
        BY <4>1
      <4>3. r.index = Len(old) /\ r.accounts = Append(old, Len(old))
        BY <1>1, <1>4, <2>4, <3>1 DEF CalmCall
      <4> QED BY <4>1, <4>2, <4>3
    <3>3. /\ r.accounts \in Seq(Nat) /\ Len(r.accounts) = Len(old) + 1
          /\ \A i \in 1..Len(old) : r.accounts[i] = old[i]
          /\ r.accounts[Len(old) + 1] = Len(old)
      BY <3>2
    <3>4. Numbered(r.accounts)
      <4>1. \A i \in 1..(Len(old) + 1) : i \in 1..Len(old) \/ i = Len(old) + 1
        BY <3>2
      <4>2. ASSUME NEW i \in 1..(Len(old) + 1) PROVE r.accounts[i] = i - 1
        <5>1. CASE i \in 1..Len(old)
          BY <3>2, <3>3, <5>1
        <5>2. CASE i = Len(old) + 1
          BY <3>2, <3>3, <5>2
        <5> QED BY <4>1, <5>1, <5>2
      <4> QED BY <3>3, <4>2 DEF Numbered
    <3>5. Changing(w)'
      BY <2>4, <2>5 DEF Changing
    <3>6. \A d \in derived : d.wallet = w => d.fresh /\ d.index \in Nat /\ d.index < Len(old)
      BY <1>6, <3>1 DEF CalmWallet
    <3> HIDE DEF old
    <3>7. CalmWallet(w)'
      <4>1. \A d \in derived' : d.wallet = w => d.fresh /\ d.index \in Nat
                                                /\ d.index < Len(r.accounts)
        BY <1>1, <3>2, <3>3, <3>6
      <4> QED BY <2>5, <3>4, <3>5, <4>1 DEF CalmWallet
    <3>8. CalmCall(walletCall[c])'
      <4>1. \A d \in derived' : d.wallet = w => d.index # r.index
        BY <1>1, <3>2, <3>6
      <4>2. r.index + 1 = Len(r.accounts) /\ r.index \in Nat
        BY <3>2, <3>3
      <4> QED BY <2>4, <2>5, <4>1, <4>2 DEF CalmCall, OnDisk
    <3> QED BY <3>7, <3>8
  <2>8. walletCall[c].wallet \in {w, NoFile} /\ walletCall'[c].wallet \in {w, NoFile}
    BY <1>4, <2>4, <2>5
  <2> QED BY <1>1, <1>3, <2>3, <2>4, <2>5, <2>6, <2>7, <2>8, WalletStep
<1> QED BY <1>5, <1>6

LEMMA DerivedSound == ASSUME WalletsInv, NEW c \in WalletCallers, Derived(c) PROVE WalletsInv'
<1>1. /\ walletCall[c].at = "updated" /\ walletCall' = [walletCall EXCEPT ![c] = WalletIdle]
      /\ UNCHANGED <<walletFile, apiFile, bound, contested, signedBy, used>>
  BY DEF Derived, At, Put
<1>2. PICK w, r : w = walletCall[c].wallet /\ r = walletCall[c]
  OBVIOUS
<1>3. /\ w \in WalletIds \cap used
      /\ \A d \in WalletCallers : d # c /\ walletCall[d].wallet = w => w \in contested
      /\ \A d \in WalletCallers : d # c /\ walletCall[d].at = "newfile" => walletCall[d].wallet # w
  BY <1>1, <1>2, OwnWallet DEF OnWallet
<1>4. PICK new : new = [wallet |-> w, index |-> r.index,
                        fresh |-> [wallet |-> w, index |-> r.index] \notin
                            {[wallet |-> d.wallet, index |-> d.index] : d \in derived}]
  OBVIOUS
<1>5. /\ walletState' = IF ~Loaded(w) THEN walletState
                        ELSE [walletState EXCEPT ![w] = Holds(r.index + 1, r.accounts)]
      /\ derived' = derived \cup {new}
  BY <1>2, <1>4 DEF Derived
<1>6. /\ new.wallet = w /\ new.index = r.index
      /\ (\A d \in derived : d.wallet = w => d.index # r.index) => new.fresh
  <2>1. new.wallet = w /\ new.index = r.index
    BY <1>4
  <2>2. ASSUME \A d \in derived : d.wallet = w => d.index # r.index PROVE new.fresh
    <3>1. \A d \in derived : [wallet |-> d.wallet, index |-> d.index] # [wallet |-> w,
              index |-> r.index]
      <4>1. ASSUME NEW d \in derived,
                   [wallet |-> d.wallet, index |-> d.index] = [wallet |-> w, index |-> r.index]
            PROVE  FALSE
        <5>1. d.wallet = w /\ d.index = r.index
          BY <4>1
        <5> QED BY <2>2, <5>1
      <4> QED BY <4>1
    <3>2. [wallet |-> w, index |-> r.index] \notin
             {[wallet |-> d.wallet, index |-> d.index] : d \in derived}
      BY <3>1
    <3>3. new.fresh = ([wallet |-> w, index |-> r.index] \notin
             {[wallet |-> d.wallet, index |-> d.index] : d \in derived})
      BY <1>4
    <3> QED BY <3>2, <3>3
  <2> QED BY <2>1, <2>2
<1>7. /\ DOMAIN apiFile' = ApiKeys /\ (bound' # NoFile => bound' \in used)
      /\ \A s \in signedBy' : s.gone => s.wallet \in contested'
      /\ DOMAIN walletFile' = WalletIds /\ DOMAIN walletState' = WalletIds
      /\ \A v \in WalletIds : v # w => walletState'[v] = walletState[v]
      /\ DOMAIN walletCall' = WalletCallers /\ walletCall'[c] = WalletIdle
      /\ \A d \in WalletCallers : d # c => walletCall'[d] = walletCall[d]
  BY <1>1, <1>5 DEF WalletsInv, WalletTypes
<1>8. WalletCallHolds(walletCall[c])' /\ CalmCall(walletCall[c])'
  BY <1>7 DEF WalletCallHolds, CalmCall, OnWallet, WalletIdle
<1>9. ASSUME w \notin contested' PROVE CalmWallet(w)'
  <2>1. CalmWallet(w) /\ CalmCall(walletCall[c])
    BY <1>1, <1>2, <1>3, <1>9 DEF WalletsInv, Calm
  <2>2. /\ OnDisk(w) /\ r.accounts = walletFile[w].accounts
        /\ r.index + 1 = Len(r.accounts) /\ r.index \in Nat
        /\ \A d \in derived : d.wallet = w => d.index # r.index
    BY <1>1, <1>2, <2>1 DEF CalmCall
  <2>3. Loaded(w)' => /\ walletState'[w].accounts = r.accounts
                      /\ walletState'[w].next = r.index + 1
    <3>1. CASE Loaded(w)
      BY <1>3, <1>5, <3>1 DEF WalletsInv, WalletTypes, Holds
    <3>2. CASE ~Loaded(w)
      BY <1>5, <3>2 DEF Loaded
    <3> QED BY <3>1, <3>2
  <2>4. ASSUME NEW d \in derived', d.wallet = w
        PROVE  d.fresh /\ d.index \in Nat /\ d.index < Len(walletFile[w].accounts)
    <3>1. CASE d \in derived
      BY <2>1, <2>2, <2>4, <3>1 DEF CalmWallet
    <3>2. CASE d = new
      <4>1. d.index < Len(r.accounts)
        BY <1>6, <2>2, <3>2
      <4> QED BY <1>6, <2>2, <3>2, <4>1
    <3> QED BY <1>5, <3>1, <3>2
  <2> QED BY <1>1, <2>1, <2>2, <2>3, <2>4 DEF CalmWallet, OnDisk
<1>10. /\ walletCall[c].wallet \in {w, NoFile} /\ walletCall'[c].wallet \in {w, NoFile}
       /\ walletCall'[c].at # "newfile" /\ DOMAIN walletCall'[c] = CallFields
  BY <1>2, <1>7 DEF WalletIdle, CallFields
<1>11. \A d \in derived' : d \in derived \/ (d.wallet = w /\ w \in WalletIds \cap used)
  BY <1>3, <1>5, <1>6
<1> QED BY <1>1, <1>3, <1>7, <1>8, <1>9, <1>10, <1>11, WalletStep

LEMMA WrittenSound == ASSUME WalletsInv, NEW c \in WalletCallers, WalletWritten(c) PROVE WalletsInv'
<1>1. /\ walletCall[c].at = "newfile"
      /\ UNCHANGED <<apiFile, bound, derived, contested, signedBy, used>>
  BY DEF WalletWritten, At
<1>2. PICK w : w = walletCall[c].wallet
  OBVIOUS
<1>3. /\ DOMAIN walletCall[c] = CallFields /\ w \in WalletIds \cap used
      /\ \A d \in WalletCallers : d # c /\ walletCall[d].wallet = w => w \in contested
      /\ \A d \in WalletCallers : d # c /\ walletCall[d].at = "newfile" => walletCall[d].wallet # w
  BY <1>1, <1>2, OwnWallet DEF OnWallet
<1>4. PICK r : r = IF walletCall[c].op = "init" THEN [walletCall[c] EXCEPT !.at = "bind"]
                   ELSE WalletIdle
  OBVIOUS
<1>5. /\ walletCall' = [walletCall EXCEPT ![c] = r]
      /\ walletFile' = [walletFile EXCEPT ![w] = Holds(0, <<>>)]
      /\ walletState' = [walletState EXCEPT ![w] = Holds(0, <<>>)]
  BY <1>2, <1>4 DEF WalletWritten, Put
<1>6. (r.at = "bind" /\ r.wallet = w) \/ (r.at = "idle" /\ r.wallet = NoFile)
  BY <1>2, <1>3, <1>4 DEF CallFields, WalletIdle
<1>6a. DOMAIN r = CallFields
  BY <1>2, <1>3, <1>4 DEF CallFields, WalletIdle
<1>7. /\ DOMAIN walletCall' = WalletCallers /\ walletCall'[c] = r
      /\ \A d \in WalletCallers : d # c => walletCall'[d] = walletCall[d]
      /\ DOMAIN walletFile' = WalletIds /\ DOMAIN walletState' = WalletIds
      /\ \A v \in WalletIds : v # w => walletFile'[v] = walletFile[v]
            /\ walletState'[v] = walletState[v]
      /\ walletFile'[w] = Holds(0, <<>>) /\ walletState'[w] = Holds(0, <<>>)
  BY <1>3, <1>5 DEF WalletsInv, WalletTypes
<1>8. WalletCallHolds(walletCall[c])' /\ CalmCall(walletCall[c])'
  BY <1>1, <1>3, <1>6, <1>7 DEF WalletCallHolds, OnWallet, CalmCall
<1>9. CalmWallet(w)'
  <2>1. Numbered(<<>>) /\ Len(<<>>) = 0
    BY DEF Numbered
  <2>2. \A d \in derived' : d.wallet # w
    BY <1>1, <1>2 DEF WalletsInv, NewWallets, Unborn
  <2>3. walletFile'[w].there /\ walletFile'[w].accounts = <<>>
        /\ walletState'[w].accounts = <<>> /\ walletState'[w].next = 0
    BY <1>7 DEF Holds
  <2> QED BY <2>1, <2>2, <2>3 DEF CalmWallet, OnDisk
<1>10. /\ DOMAIN apiFile' = ApiKeys /\ (bound' # NoFile => bound' \in used)
       /\ \A s \in signedBy' : s.gone => s.wallet \in contested'
  BY <1>1 DEF WalletsInv, WalletTypes
<1>11. /\ walletCall[c].wallet \in {w, NoFile} /\ walletCall'[c].wallet \in {w, NoFile}
       /\ walletCall'[c].at # "newfile" /\ DOMAIN walletCall'[c] = CallFields
  BY <1>2, <1>6, <1>6a, <1>7
<1> QED BY <1>1, <1>3, <1>7, <1>8, <1>9, <1>10, <1>11, WalletStep

LEMMA ForgetSound == ASSUME WalletsInv, NEW c \in WalletCallers, ForgetWallet(c) PROVE WalletsInv'
<1>1. /\ walletCall[c].at = "deleted" /\ walletCall' = [walletCall EXCEPT ![c] = WalletIdle]
      /\ UNCHANGED <<walletFile, apiFile, bound, derived, contested, signedBy, used>>
  BY DEF ForgetWallet, At, Put
<1>2. PICK w : w = walletCall[c].wallet
  OBVIOUS
<1>3. /\ w \in WalletIds \cap used
      /\ \A d \in WalletCallers : d # c /\ walletCall[d].wallet = w => w \in contested
      /\ \A d \in WalletCallers : d # c /\ walletCall[d].at = "newfile" => walletCall[d].wallet # w
  BY <1>1, <1>2, OwnWallet DEF OnWallet
<1>4. walletState' = [walletState EXCEPT ![w] = Absent]
  BY <1>2 DEF ForgetWallet
<1>5. /\ DOMAIN apiFile' = ApiKeys /\ (bound' # NoFile => bound' \in used)
      /\ \A s \in signedBy' : s.gone => s.wallet \in contested'
      /\ DOMAIN walletFile' = WalletIds /\ DOMAIN walletState' = WalletIds
      /\ walletState'[w] = Absent
      /\ \A v \in WalletIds : v # w => walletState'[v] = walletState[v]
      /\ DOMAIN walletCall' = WalletCallers /\ walletCall'[c] = WalletIdle
      /\ \A d \in WalletCallers : d # c => walletCall'[d] = walletCall[d]
  BY <1>1, <1>3, <1>4 DEF WalletsInv, WalletTypes
<1>6. WalletCallHolds(walletCall[c])' /\ CalmCall(walletCall[c])'
  BY <1>5 DEF WalletCallHolds, CalmCall, OnWallet, WalletIdle
<1>7. ASSUME w \notin contested' PROVE CalmWallet(w)'
  <2>1. CalmWallet(w)
    BY <1>1, <1>3, <1>7 DEF WalletsInv, Calm
  <2>2. ~Loaded(w)'
    BY <1>5 DEF Loaded, Absent
  <2> QED BY <1>1, <2>1, <2>2 DEF CalmWallet, OnDisk
<1>8. /\ walletCall[c].wallet \in {w, NoFile} /\ walletCall'[c].wallet \in {w, NoFile}
      /\ walletCall'[c].at # "newfile" /\ DOMAIN walletCall'[c] = CallFields
  BY <1>2, <1>5 DEF WalletIdle, CallFields
<1> QED BY <1>1, <1>3, <1>5, <1>6, <1>7, <1>8, WalletStep

LEMMA ScanSound == ASSUME WalletsInv, NEW c \in WalletCallers, ScanApiKeys(c) PROVE WalletsInv'
<1>1. /\ walletCall[c].at = "scan"
      /\ UNCHANGED <<walletFile, walletState, apiFile, bound, derived, signedBy, used>>
  BY DEF ScanApiKeys, At
<1>2. /\ walletCall[c].wallet = NoFile /\ walletCall[c].key \in ApiKeys
      /\ DOMAIN walletCall[c] = CallFields
  BY <1>1 DEF WalletsInv, WalletCallHolds, WalletTypes
<1>3. PICK w : w = apiFile[walletCall[c].key]
  OBVIOUS
<1>4. /\ DOMAIN apiFile' = ApiKeys /\ (bound' # NoFile => bound' \in used)
      /\ DOMAIN walletFile' = WalletIds /\ DOMAIN walletState' = WalletIds
  BY <1>1 DEF WalletsInv, WalletTypes
<1>5. CASE w = NoFile
  <2>1. walletCall' = [walletCall EXCEPT ![c] = WalletIdle] /\ UNCHANGED contested
    BY <1>3, <1>5 DEF ScanApiKeys, Put
  <2>2. /\ DOMAIN walletCall' = WalletCallers /\ walletCall'[c] = WalletIdle
        /\ \A d \in WalletCallers : d # c => walletCall'[d] = walletCall[d]
        /\ NoFile \in contested' => NoFile \in used
        /\ \A s \in signedBy' : s.gone => s.wallet \in contested'
    BY <1>1, <2>1 DEF WalletsInv, WalletTypes
  <2>3. WalletCallHolds(walletCall[c])' /\ DOMAIN walletCall'[c] = CallFields
        /\ walletCall'[c].wallet = NoFile /\ walletCall'[c].at # "newfile"
    BY <2>2 DEF WalletCallHolds, OnWallet, WalletIdle, CallFields
  <2>4. \A d \in WalletCallers : walletCall[d].at = "newfile" => walletCall[d].wallet # NoFile
    BY WalletNames DEF WalletsInv, WalletCallHolds, OnWallet
  <2> QED BY <1>1, <1>2, <1>4, <2>1, <2>2, <2>3, <2>4, WalletNames, WalletStep
<1>6. CASE w # NoFile
  <2>1. PICK r : r = [walletCall[c] EXCEPT !.at = "chain", !.wallet = w]
    OBVIOUS
  <2>2. walletCall' = [walletCall EXCEPT ![c] = r] /\ contested' = contested \cup Contested(w)
    BY <1>3, <1>6, <2>1 DEF ScanApiKeys, Put
  <2>3. DOMAIN r = CallFields /\ r.at = "chain" /\ r.wallet = w
    BY <1>2, <2>1 DEF CallFields
  <2>4. /\ DOMAIN walletCall' = WalletCallers /\ walletCall'[c] = r
        /\ \A d \in WalletCallers : d # c => walletCall'[d] = walletCall[d]
        /\ w \in WalletIds \cap used
    BY <1>2, <1>3, <1>6, <2>2 DEF WalletsInv, WalletTypes
  <2>5. /\ Contested(w) \subseteq {w}
        /\ \A d \in WalletCallers : walletCall[d].wallet = w => w \in Contested(w)
    BY <1>6 DEF Contested
  <2>6. \A d \in WalletCallers : walletCall[d].at = "newfile" => walletCall[d].wallet # w
    BY <1>2, <1>3 DEF WalletsInv, NewWallets, Unborn
  <2>7. WalletCallHolds(walletCall[c])' /\ CalmCall(walletCall[c])'
    BY <1>1, <2>3, <2>4 DEF WalletCallHolds, OnWallet, CalmCall
  <2>8. ASSUME w \notin contested' PROVE CalmWallet(w)'
    <3>1. CalmWallet(w)
      BY <2>2, <2>4, <2>8 DEF WalletsInv, Calm
    <3>2. Changing(w) => Changing(w)'
      BY <1>1, <2>4 DEF Changing
    <3> QED BY <1>1, <3>1, <3>2 DEF CalmWallet, Loaded, OnDisk
  <2>9. \A s \in signedBy' : s.gone => s.wallet \in contested'
    BY <1>1, <2>2 DEF WalletsInv
  <2> QED BY <1>1, <1>2, <1>4, <2>2, <2>3, <2>4, <2>5, <2>6, <2>7, <2>8, <2>9, WalletStep
<1> QED BY <1>5, <1>6

LEMMA RevokeSound == ASSUME WalletsInv, NEW a \in ApiKeys, Revoke(a) PROVE WalletsInv'
<1>1. /\ apiFile' = [apiFile EXCEPT ![a] = NoFile]
      /\ UNCHANGED <<walletFile, walletState, bound, walletCall, derived, contested, signedBy,
            used>>
  BY DEF Revoke
<1>2. WalletTypes'
  BY <1>1 DEF WalletsInv, WalletTypes
<1>3. \A w \in WalletIds : Unborn(w) => Unborn(w)'
  BY <1>1, WalletNames DEF WalletsInv, WalletTypes, Unborn, OnDisk, Loaded
<1>4. NewWallets'
  <2>1. \A c \in WalletCallers : walletCall[c].at = "newfile" => walletCall[c].wallet \in WalletIds
    BY DEF WalletsInv, WalletCallHolds, OnWallet
  <2>2. ASSUME NEW c \in WalletCallers, walletCall'[c].at = "newfile"
        PROVE  Unborn(walletCall[c].wallet)'
    <3>1. PICK w : w = walletCall[c].wallet
      OBVIOUS
    <3>2. Unborn(w)' /\ walletCall'[c].wallet = w
      BY <1>1, <1>3, <2>1, <2>2, <3>1 DEF WalletsInv, NewWallets
    <3> QED BY <3>2
  <2> QED BY <1>1, <1>3, <2>2 DEF WalletsInv, NewWallets
<1>5. Calm'
  BY <1>1 DEF WalletsInv, Calm, CalmWallet, CalmCall, Changing, Loaded, OnDisk
<1>6. OneCallEach' /\ \A c \in WalletCallers : WalletCallHolds(walletCall[c])'
  BY <1>1 DEF WalletsInv, OneCallEach, WalletCallHolds
<1> QED BY <1>1, <1>2, <1>4, <1>5, <1>6 DEF WalletsInv

LEMMA WalletRestart == ASSUME WalletsInv, RestartWallets PROVE WalletsInv'
<1>1. /\ walletState' = [w \in WalletIds |-> Absent]
      /\ walletCall' = [c \in WalletCallers |-> WalletIdle]
      /\ UNCHANGED <<walletFile, apiFile, bound, derived, contested, signedBy, used>>
  BY DEF RestartWallets
<1>2. \A c \in WalletCallers : /\ walletCall'[c].at = "idle" /\ walletCall'[c].wallet = NoFile
                               /\ DOMAIN walletCall'[c] = CallFields
  BY <1>1 DEF WalletIdle, CallFields
<1>3. \A w \in WalletIds : ~Loaded(w)'
  BY <1>1 DEF Loaded, Absent
<1>4. WalletTypes'
  BY <1>1, <1>2 DEF WalletsInv, WalletTypes
<1>5. NewWallets' /\ OneCallEach' /\ \A c \in WalletCallers : WalletCallHolds(walletCall[c])'
  BY <1>1, <1>2, <1>3 DEF WalletsInv, NewWallets, Unborn, OnDisk, OneCallEach, WalletCallHolds,
        OnWallet
<1>6. Calm'
  <2>1. \A w \in WalletIds \ contested : CalmWallet(w)'
    BY <1>1, <1>3 DEF WalletsInv, Calm, CalmWallet, OnDisk
  <2> QED BY <1>1, <1>2, <2>1, WalletNames DEF Calm
<1> QED BY <1>1, <1>4, <1>5, <1>6 DEF WalletsInv

LEMMA WalletsStep == ASSUME WalletsInv, [WalletsNext]_walletVars PROVE WalletsInv'
<1>1. ASSUME NEW c \in WalletCallers, NEW w \in WalletIds, NEW op \in {"create", "init"},
             CreateWallet(c, w, op)
      PROVE  WalletsInv'
  BY <1>1, CreateSound
<1>2. ASSUME NEW c \in WalletCallers, NEW w \in WalletIds,
             \/ InitExisting(c, w) \/ DeleteWallet(c, w)
             \/ \E op \in {"derive", "list"} : Ensure(c, op, w)
             \/ \E a \in ApiKeys : CreateApiKey(c, a, w)
      PROVE  WalletsInv'
  BY <1>2, BeginningsSound, DeleteSound
<1>3. ASSUME NEW c \in WalletCallers,
             \/ WalletWritten(c) \/ BindWallet(c) \/ ForgetWallet(c) \/ Load(c) \/ Ensured(c)
             \/ UpdateAccounts(c) \/ Derived(c) \/ ApiKeyWritten(c) \/ ScanApiKeys(c) \/ ApiSign(c)
      PROVE  WalletsInv'
  BY <1>3, WrittenSound, BindSound, ForgetSound, LoadSound, EnsuredSound, UpdateSound,
     DerivedSound, ScanSound, ApiSignSound
<1>4. ASSUME NEW c \in WalletCallers, NEW a \in ApiKeys, ReadApiKey(c, a) PROVE WalletsInv'
  BY <1>4, ReadKeySound
<1>5. ASSUME NEW a \in ApiKeys, Revoke(a) PROVE WalletsInv'
  BY <1>5, RevokeSound
<1>6. CASE RestartWallets
  BY <1>6, WalletRestart
<1>7. CASE UNCHANGED walletVars
  BY <1>7 DEF walletVars, WalletsInv, WalletTypes, WalletCallHolds, OneCallEach, NewWallets,
     Unborn, Calm, CalmWallet, CalmCall, Changing, Loaded, OnDisk
<1> QED BY <1>1, <1>2, <1>3, <1>4, <1>5, <1>6, <1>7 DEF WalletsNext

\* For every number of wallets, callers and API keys and across restarts, an
\* index of a wallet is handed out once and stays on file, a wallet that is gone
\* signs nothing, and an operator is bound to a wallet that existed, unless calls
\* on the wallet overlapped (key-manager.ts, vault.ts).
THEOREM WalletsAreSound == WalletsSpec => []WalletsSound
<1>1. WalletsInit => WalletsInv
  BY WalletsStart
<1>2. WalletsInv /\ [WalletsNext]_walletVars => WalletsInv'
  BY WalletsStep
<1>3. WalletsInv => WalletsSound
  <2> SUFFICES ASSUME WalletsInv PROVE WalletsSound
    OBVIOUS
  <2>1. ASSUME NEW d \in derived, d.wallet \notin contested, OnDisk(d.wallet)
        PROVE  d.fresh /\ \E i \in DOMAIN walletFile[d.wallet].accounts :
                             walletFile[d.wallet].accounts[i] = d.index
    <3>1. d.wallet \in WalletIds
      BY DEF WalletsInv, WalletTypes
    <3>2. PICK acc : acc = walletFile[d.wallet].accounts
      OBVIOUS
    <3>3. d.fresh /\ d.index \in Nat /\ d.index < Len(acc) /\ Numbered(acc)
      BY <2>1, <3>1, <3>2 DEF WalletsInv, Calm, CalmWallet
    <3>4. /\ acc \in Seq(Nat) /\ d.index + 1 \in 1..Len(acc)
          /\ acc[d.index + 1] = (d.index + 1) - 1
      BY <3>3 DEF Numbered
    <3>5. DOMAIN acc = 1..Len(acc)
      BY <3>4
    <3>6. d.index + 1 \in DOMAIN acc /\ acc[d.index + 1] = d.index
      BY <3>3, <3>4, <3>5
    <3> QED BY <3>2, <3>3, <3>6
  <2> QED BY <2>1 DEF WalletsInv, WalletsSound, AccountsDistinct, DeletedWalletIsDead, WalletTypes
<1> QED BY <1>1, <1>2, <1>3, PTL DEF WalletsSpec

-----------------------------------------------------------------------------
(* KeyStore.                                                                *)

CallSteps == {"idle", "legacy", "read", "migrate", "migrated", "write", "written", "unlink",
              "unlinked"}
CallOps   == {"none", "initpub", "initpriv", "createpriv", "createpub", "dbkey", "get", "set",
              "delete"}
KeyCall   == [at: CallSteps, op: CallOps, name: Names \cup {"none"}, val: Nat]

ProcType  == [at: {"down", "resolve", "write", "init", "ready"},
              kind: {"none", "software", "enclave"}, cached: Int]

KeyTypes ==
    /\ secretFile \in Int /\ sealedBox \in Int
    /\ proc \in ProcType
    /\ entry \in [Names -> [val: Int, under: Int]]
    /\ legacy \in [Names -> Nat]
    /\ mem \in [pub: Nat, priv: Nat]
    /\ call \in [Calls -> KeyCall]
    /\ fresh \in Nat /\ fresh > 0
    /\ acked \in [Names -> Nat] /\ excused \subseteq Names

Reading == {"legacy", "read", "migrate", "migrated"}
Storing == {"write", "written"}

\* What each operation is about, the steps it takes, and who runs it.
CallShape(c, r) ==
    \/ r.at = "idle" /\ r = NoCall
    \/ c = Boot /\ r.op = "initpub" /\ r.name = "pub" /\ r.at \in Reading
    \/ c = Boot /\ r.op = "initpriv" /\ r.name = "priv" /\ r.at \in Reading
    \/ c = Boot /\ r.op = "createpriv" /\ r.name = "priv" /\ r.at \in Storing
    \/ c = Boot /\ r.op = "createpub" /\ r.name = "pub" /\ r.at \in Storing
    \/ c # Boot /\ r.op = "dbkey" /\ r.name = "db" /\ r.at \in Reading \cup Storing
    \/ c # Boot /\ r.op = "get" /\ r.name = "secret" /\ r.at \in Reading
    \/ c # Boot /\ r.op = "set" /\ r.name = "secret" /\ r.at \in Storing
    \/ c # Boot /\ r.op = "delete" /\ r.name = "secret" /\ r.at \in {"unlink", "unlinked"}

CallHolds(c, r) ==
    /\ CallShape(c, r)
    /\ r.at # "idle" => proc.at \in {"init", "ready"}
    /\ r.at \in {"write", "written", "migrate", "migrated"} => r.val > 0

\* An entry is under the one secret of the directory.
EntryHolds(e) == e = NoEntry \/ (e.val # None /\ e.under = DirSecret /\ DirSecret # None)

\* An open vault holds the directory's secret; before one is chosen there is none.
SecretHolds ==
    /\ proc.at \in {"init", "ready"} => proc.cached = DirSecret /\ DirSecret # None
    /\ proc.at \in {"resolve", "write"} =>
          /\ proc.kind = "software" => (secretFile # None \/ sealedBox = None)
          /\ proc.kind = "enclave" => secretFile = None
          /\ proc.kind # "none"
    /\ proc.at = "write" => DirSecret = None /\ proc.cached > 0

SecretInv ==
    /\ KeyTypes /\ SecretHolds
    /\ \A c \in Calls : CallHolds(c, call[c])
    /\ \A n \in Names : EntryHolds(entry[n])

\* What a name holds for its next reader: the entry, or what will be migrated.
Held(n) == IF entry[n] = NoEntry THEN legacy[n] ELSE entry[n].val

\* A read, migration or write of the admin pair under way, and what it has
\* established so far.
BootHolds(r) ==
    /\ r.op = "initpub" => proc.at = "init"
    /\ r.at \in {"legacy", "migrate"} => entry[r.name] = NoEntry
    /\ r.at = "read" => entry[r.name] # NoEntry
    /\ r.at = "migrate" => r.val = legacy[r.name]
    /\ r.at \in {"written", "migrated"} => entry[r.name].val = r.val
    /\ r.op \in {"createpriv", "createpub"} => mem.pub # None

\* The pair matches wherever its halves are; a create runs only when no public
\* key is held, and its second half follows its first.
PairHolds(r) ==
    /\ (Held("pub") > 0 /\ Held("priv") > 0) => Held("pub") = Held("priv")
    /\ ((r.op = "initpriv" \/ proc.at = "ready") /\ mem.pub = None) => Held("pub") <= 0
    /\ r.op = "createpriv" => Held("pub") <= 0
    /\ r.op = "createpub" => Held("priv") = r.val /\ entry["priv"] # NoEntry
    /\ r.op = "createpub" /\ r.at = "write" => Held("pub") <= 0

PairInv == BootHolds(call[Boot]) /\ ("pub" \notin excused => PairHolds(call[Boot]))

\* The calls on a name.
On(n) == {c \in KeyCallers : call[c].name = n}

\* A call on a name nothing else is using, and what it has established so far.
SoleHolds(n, r) ==
    /\ r.at \in {"legacy", "migrate", "unlinked"} => entry[n] = NoEntry
    /\ r.at = "migrate" => r.val = acked[n]
    /\ r.at \in {"written", "migrated"} => entry[n].val = r.val
    /\ r.at = "migrated" => r.val = acked[n]
    /\ r.op = "dbkey" /\ r.at \in Storing => acked[n] = None
    /\ r.op = "dbkey" /\ r.at = "write" => entry[n] = NoEntry

\* What a name without overlapping calls holds is what was acknowledged last,
\* except for a write that is about to be, and a database key that never was.
NameHolds(n) ==
    /\ \A c, d \in On(n) : c = d
    /\ \A c \in On(n) : SoleHolds(n, call[c])
    /\ entry[n].val > 0 => \/ entry[n].val = acked[n] \/ (n = "db" /\ acked[n] = None)
                           \/ \E c \in On(n) : call[c].at = "written"
    /\ entry[n] = NoEntry => \/ legacy[n] = acked[n]
                             \/ \E c \in On(n) : call[c].at = "unlinked"

ReadInv ==
    /\ \A n \in {"db", "secret"} \ excused : NameHolds(n)
    /\ ReadsLastWrite


LEMMA SecretStart == ASSUME KeysInit PROVE SecretInv
<1>1. KeyTypes
  BY DEF KeysInit, KeyTypes, ProcType, Down, NoEntry, NoMem, NoCall, None, KeyCall, CallSteps,
        CallOps
<1>2. SecretHolds
  BY DEF KeysInit, SecretHolds, Down
<1>3. \A c \in Calls : CallHolds(c, call[c])
  BY DEF KeysInit, CallHolds, CallShape, NoCall
<1>4. \A n \in Names : EntryHolds(entry[n])
  BY DEF KeysInit, EntryHolds
<1> QED BY <1>1, <1>2, <1>3, <1>4 DEF SecretInv

\* A step of one call of an open vault.
LEMMA SecretCall ==
  ASSUME SecretInv, KeyTypes', UNCHANGED secretVars, NEW c \in Calls,
         proc.at \in {"init", "ready"}, proc'.at \in {"init", "ready"},
         proc'.cached = proc.cached,
         \A d \in Calls : d # c => call'[d] = call[d],
         CallShape(c, call'[c]),
         call'[c].at \in {"write", "written", "migrate", "migrated"} => call'[c].val > 0,
         \A n \in Names : \/ entry'[n] = entry[n] \/ entry'[n] = NoEntry
                          \/ entry'[n].val # None /\ entry'[n].under = proc.cached
  PROVE  SecretInv'
<1>1. DirSecret' = DirSecret /\ proc.cached = DirSecret /\ DirSecret # None
  BY DEF SecretInv, SecretHolds, DirSecret, secretVars
<1>2. SecretHolds'
  BY <1>1 DEF SecretHolds
<1>3. ASSUME NEW d \in Calls PROVE CallHolds(d, call[d])'
  <2>1. CASE d = c
    BY <2>1 DEF CallHolds, CallShape
  <2>2. CASE d # c
    BY <2>2 DEF SecretInv, CallHolds, CallShape
  <2> QED BY <2>1, <2>2
<1>4. ASSUME NEW n \in Names PROVE EntryHolds(entry[n])'
  BY <1>1 DEF SecretInv, EntryHolds
<1> QED BY <1>2, <1>3, <1>4 DEF SecretInv

\* The four ways a read goes on.
LEMMA ReturnForms ==
  ASSUME SecretInv, NEW c \in Calls, call[c].at \in Reading, NEW v, Return(c, v)
  PROVE  \/ /\ c = Boot /\ call[c].op = "initpub" /\ call[c].name = "pub"
            /\ mem' = [mem EXCEPT !.pub = IF v > 0 THEN v ELSE None]
            /\ call' = [call EXCEPT ![c] = [at |-> Look("priv"), op |-> "initpriv",
                                            name |-> "priv", val |-> None]]
            /\ UNCHANGED <<proc, fresh, acked, answers>>
         \/ /\ c = Boot /\ call[c].op = "initpriv" /\ call[c].name = "priv"
            /\ mem' = [mem EXCEPT !.priv = IF v > 0 THEN v ELSE None]
            /\ call' = [call EXCEPT ![c] = NoCall] /\ proc' = [proc EXCEPT !.at = "ready"]
            /\ UNCHANGED <<fresh, acked, answers>>
         \/ /\ c # Boot /\ call[c].op = "dbkey" /\ call[c].name = "db" /\ v = None
            /\ call' = [call EXCEPT ![c] = [call[c] EXCEPT !.at = "write", !.val = fresh]]
            /\ fresh' = fresh + 1
            /\ UNCHANGED <<proc, mem, acked, answers>>
         \/ /\ c # Boot /\ call' = [call EXCEPT ![c] = NoCall]
            /\ \/ call[c].op = "get" /\ call[c].name = "secret"
               \/ call[c].op = "dbkey" /\ call[c].name = "db" /\ v # None
            /\ answers' = IF call[c].name \in excused \/ v = Torn
                             \/ (call[c].op = "dbkey" /\ acked["db"] = None) THEN answers
                          ELSE answers \cup {<<call[c].name, v, acked[call[c].name]>>}
            /\ acked' = IF call[c].op = "dbkey" /\ v # Torn THEN [acked EXCEPT !["db"] = v]
                        ELSE acked
            /\ UNCHANGED <<proc, mem, fresh>>
<1>1. CallShape(c, call[c]) /\ call[c].at # "idle"
  BY DEF SecretInv, CallHolds, Reading
<1>2. CASE c = Boot /\ call[c].op = "initpub" /\ call[c].name = "pub"
  BY <1>2 DEF Return, Set
<1>3. CASE c = Boot /\ call[c].op = "initpriv" /\ call[c].name = "priv"
  BY <1>3 DEF Return, Set
<1>4. CASE c # Boot /\ call[c].op = "dbkey" /\ call[c].name = "db"
  <2>1. CASE v = None
    BY <1>4, <2>1 DEF Return, Set
  <2>2. CASE v # None
    BY <1>4, <2>2 DEF Return, Set
  <2> QED BY <2>1, <2>2
<1>5. CASE c # Boot /\ call[c].op = "get" /\ call[c].name = "secret"
  BY <1>5 DEF Return, Set
<1> QED BY <1>1, <1>2, <1>3, <1>4, <1>5 DEF CallShape, Reading, Storing

LEMMA LookSteps == \A n \in Names : Look(n) \in {"legacy", "read"}
  BY DEF Look

\* A read that returns, with what its action leaves of the files.
LEMMA ReturnSecret ==
  ASSUME SecretInv, NEW c \in Calls, call[c].at \in Reading, NEW v \in Int, v >= -1, Return(c, v),
         UNCHANGED <<secretVars, entry>>, legacy' \in [Names -> Nat], excused' \subseteq Names
  PROVE  SecretInv'
<1>1. /\ KeyTypes /\ proc.at \in {"init", "ready"} /\ call[c] \in KeyCall
  BY DEF SecretInv, CallHolds, KeyTypes, Reading
<1>2. /\ KeyTypes' /\ proc'.at \in {"init", "ready"} /\ proc'.cached = proc.cached
      /\ \A d \in Calls : d # c => call'[d] = call[d]
      /\ CallShape(c, call'[c])
      /\ call'[c].at \in {"write", "written", "migrate", "migrated"} => call'[c].val > 0
  <2>1. CASE /\ c = Boot /\ call[c].op = "initpub" /\ call[c].name = "pub"
             /\ mem' = [mem EXCEPT !.pub = IF v > 0 THEN v ELSE None]
             /\ call' = [call EXCEPT ![c] = [at |-> Look("priv"), op |-> "initpriv",
                                             name |-> "priv", val |-> None]]
             /\ UNCHANGED <<proc, fresh, acked, answers>>
    <3>0. PICK r : r = [at |-> Look("priv"), op |-> "initpriv", name |-> "priv", val |-> None]
      OBVIOUS
    <3>1. r \in KeyCall /\ CallShape(c, r) /\ r.at \in {"legacy", "read"}
      BY <2>1, <3>0, LookSteps DEF KeyCall, CallSteps, CallOps, Names, None, CallShape, Reading
    <3>2. call' = [call EXCEPT ![c] = r]
      BY <2>1, <3>0
    <3>3. KeyTypes'
      BY <1>1, <2>1, <3>1, <3>2 DEF KeyTypes, secretVars, None
    <3> QED BY <1>1, <2>1, <3>1, <3>2, <3>3 DEF KeyTypes
  <2>2. CASE /\ c = Boot /\ call[c].op = "initpriv" /\ call[c].name = "priv"
             /\ mem' = [mem EXCEPT !.priv = IF v > 0 THEN v ELSE None]
             /\ call' = [call EXCEPT ![c] = NoCall] /\ proc' = [proc EXCEPT !.at = "ready"]
             /\ UNCHANGED <<fresh, acked, answers>>
    <3>1. NoCall \in KeyCall /\ CallShape(c, NoCall) /\ NoCall.at = "idle"
      BY DEF KeyCall, CallSteps, CallOps, NoCall, None, CallShape
    <3>2. KeyTypes'
      BY <1>1, <2>2, <3>1 DEF KeyTypes, ProcType, secretVars, None
    <3> QED BY <1>1, <2>2, <3>1, <3>2 DEF KeyTypes
  <2>3. CASE /\ c # Boot /\ call[c].op = "dbkey" /\ call[c].name = "db" /\ v = None
             /\ call' = [call EXCEPT ![c] = [call[c] EXCEPT !.at = "write", !.val = fresh]]
             /\ fresh' = fresh + 1
             /\ UNCHANGED <<proc, mem, acked, answers>>
    <3>0. PICK r : r = [call[c] EXCEPT !.at = "write", !.val = fresh]
      OBVIOUS
    <3>1. r \in KeyCall /\ CallShape(c, r) /\ r.val > 0
      BY <1>1, <2>3, <3>0 DEF KeyCall, CallSteps, KeyTypes, CallShape, Storing
    <3>2. call' = [call EXCEPT ![c] = r]
      BY <2>3, <3>0
    <3>3. KeyTypes'
      BY <1>1, <2>3, <3>1, <3>2 DEF KeyTypes, secretVars
    <3> QED BY <1>1, <2>3, <3>1, <3>2, <3>3 DEF KeyTypes
  <2>4. CASE /\ c # Boot /\ call' = [call EXCEPT ![c] = NoCall]
             /\ acked' = IF call[c].op = "dbkey" /\ v # Torn THEN [acked EXCEPT !["db"] = v]
                         ELSE acked
             /\ UNCHANGED <<proc, mem, fresh>>
    <3>1. NoCall \in KeyCall /\ CallShape(c, NoCall) /\ NoCall.at = "idle"
      BY DEF KeyCall, CallSteps, CallOps, NoCall, None, CallShape
    <3>2. acked' \in [Names -> Nat]
      BY <1>1, <2>4 DEF KeyTypes, Torn, Names
    <3>3. KeyTypes'
      BY <1>1, <2>4, <3>1, <3>2 DEF KeyTypes, secretVars
    <3> QED BY <1>1, <2>4, <3>1, <3>3 DEF KeyTypes
  <2> QED BY <2>1, <2>2, <2>3, <2>4, ReturnForms
<1> QED BY <1>1, <1>2, SecretCall

LEMMA OpenSecret ==
  ASSUME SecretInv, \/ \E k \in {"software", "enclave"} : Open(k)
                    \/ ReadSecret \/ NewSecret \/ WriteSecret \/ SecretFails
  PROVE  SecretInv'
<1>0. proc.at \in {"down", "resolve", "write"}
  BY DEF Open, ReadSecret, NewSecret, WriteSecret, SecretFails
<1>1. \A c \in Calls : call[c] = NoCall
  BY <1>0 DEF SecretInv, CallHolds, CallShape, Reading, Storing
<1>2. UNCHANGED <<entry, call>>
  BY DEF Open, ReadSecret, NewSecret, WriteSecret, SecretFails
<1>3. \A c \in Calls : CallHolds(c, call[c])'
  BY <1>1, <1>2 DEF CallHolds, CallShape, NoCall
<1>4. KeyTypes' /\ SecretHolds' /\ (DirSecret # None => DirSecret' = DirSecret)
  <2>1. CASE \E k \in {"software", "enclave"} : Open(k)
    <3>1. PICK k \in {"software", "enclave"} : Open(k)
      BY <2>1
    <3>2. KeyTypes'
      BY <3>1 DEF SecretInv, Open, KeyTypes, ProcType, None, secretVars, historyVars
    <3>3. SecretHolds'
      BY <3>1 DEF SecretInv, Open, SecretHolds, KeyTypes, DirSecret, Providers, HasArtifact,
         Existing, secretVars
    <3> QED BY <3>1, <3>2, <3>3 DEF Open, DirSecret, secretVars
  <2>2. CASE ReadSecret
    <3>0. PICK s : s = IF proc.kind = "software" THEN secretFile ELSE sealedBox
      OBVIOUS
    <3>a. /\ proc' = [proc EXCEPT !.at = "init", !.cached = s] \/ proc' = Down
          /\ s # None /\ proc.at = "resolve"
          /\ UNCHANGED <<secretFile, sealedBox, entry, legacy, mem, call, fresh, acked, excused>>
      BY <2>2, <3>0 DEF ReadSecret, Opened, secretVars, historyVars
    <3>b. s \in Int /\ s = DirSecret /\ DirSecret' = DirSecret
      BY <3>0, <3>a DEF SecretInv, KeyTypes, ProcType, SecretHolds, DirSecret
    <3>d. proc \in ProcType
      BY DEF SecretInv, KeyTypes
    <3>e. Down \in ProcType
      BY DEF ProcType, Down, None
    <3>f. s \in Int
      BY <3>b
    <3>c. [proc EXCEPT !.at = "init", !.cached = s] \in ProcType
      BY <3>d, <3>f DEF ProcType
    <3>1. KeyTypes'
      BY <3>a, <3>c, <3>e DEF SecretInv, KeyTypes
    <3>2. SecretHolds'
      <4>1. CASE proc' = Down
        BY <4>1 DEF SecretHolds, Down
      <4>2. CASE proc' = [proc EXCEPT !.at = "init", !.cached = s]
        <5>1. proc'.at = "init" /\ proc'.cached = s
          BY <4>2 DEF SecretInv, KeyTypes
        <5> QED BY <3>a, <3>b, <5>1 DEF SecretHolds
      <4> QED BY <3>a, <4>1, <4>2
    <3> QED BY <2>2, <3>1, <3>2 DEF ReadSecret, DirSecret, secretVars
  <2>3. CASE NewSecret
    <3>0. /\ proc' = [proc EXCEPT !.at = "write", !.cached = fresh] /\ fresh' = fresh + 1
          /\ UNCHANGED <<secretFile, sealedBox, entry, legacy, mem, call, acked, excused>>
      BY <2>3 DEF NewSecret, secretVars, historyVars
    <3>a. KeyTypes /\ SecretHolds
      BY DEF SecretInv
    <3>d. fresh' \in Nat /\ fresh' > 0 /\ fresh \in Int
      BY <3>0, <3>a DEF KeyTypes
    <3>b. proc' \in ProcType
      BY <3>0, <3>a, <3>d DEF KeyTypes, ProcType
    <3>1. KeyTypes'
      BY <3>0, <3>a, <3>b, <3>d DEF KeyTypes
    <3>c. /\ proc'.at = "write" /\ proc'.kind = proc.kind /\ proc'.cached = fresh
          /\ DirSecret' = DirSecret /\ DirSecret = None /\ proc.at = "resolve"
      BY <2>3, <3>0, <3>a DEF KeyTypes, ProcType, NewSecret, SecretHolds, DirSecret
    <3>2. SecretHolds'
      BY <3>0, <3>a, <3>c DEF SecretHolds, KeyTypes
    <3> QED BY <2>3, <3>1, <3>2 DEF NewSecret, DirSecret, secretVars
  <2>4. CASE WriteSecret
    <3>1. KeyTypes'
      BY <2>4 DEF SecretInv, WriteSecret, KeyTypes, ProcType, Opened, historyVars
    <3>0. KeyTypes /\ SecretHolds /\ proc.at = "write"
      BY <2>4 DEF SecretInv, WriteSecret
    <3>2. SecretHolds'
      <4>a. CASE UNCHANGED <<secretFile, sealedBox, proc>>
        BY <3>0, <4>a DEF SecretHolds, DirSecret
      <4>b. CASE Opened(proc.cached) /\ secretFile' = proc.cached
        <5>1. proc'.at = "init" /\ proc'.cached = proc.cached
          BY <3>0, <4>b DEF KeyTypes, Opened
        <5>2. DirSecret' = proc.cached /\ proc.cached # None
          BY <3>0, <4>b DEF SecretHolds, DirSecret, None, KeyTypes
        <5> QED BY <5>1, <5>2 DEF SecretHolds
      <4>c. CASE Opened(proc.cached) /\ sealedBox' = proc.cached /\ UNCHANGED secretFile
        <5>1. proc'.at = "init" /\ proc'.cached = proc.cached
          BY <3>0, <4>c DEF KeyTypes, Opened
        <5>2. DirSecret' = proc.cached /\ proc.cached # None
          BY <3>0, <4>c DEF SecretHolds, DirSecret, None, KeyTypes
        <5> QED BY <5>1, <5>2 DEF SecretHolds
      <4> QED BY <2>4, <4>a, <4>b, <4>c DEF WriteSecret
    <3>3. DirSecret = None
      BY <2>4 DEF SecretInv, SecretHolds, WriteSecret
    <3> QED BY <3>1, <3>2, <3>3
  <2>5. CASE SecretFails
    <3>1. KeyTypes'
      BY <2>5 DEF SecretInv, SecretFails, KeyTypes, ProcType, Down, None, secretVars, historyVars
    <3>2. SecretHolds'
      BY <2>5 DEF SecretFails, SecretHolds, Down
    <3> QED BY <2>5, <3>1, <3>2 DEF SecretFails, DirSecret, secretVars
  <2> QED BY <2>1, <2>2, <2>3, <2>4, <2>5
<1>5. \A n \in Names : EntryHolds(entry[n])'
  BY <1>2, <1>4 DEF SecretInv, EntryHolds
<1> QED BY <1>3, <1>4, <1>5 DEF SecretInv

\* A new call of an open vault.
LEMMA NewCallSecret ==
  ASSUME SecretInv, NEW c \in Calls, NEW r \in KeyCall, CallShape(c, r),
         r.at \in {"write", "written", "migrate", "migrated"} => r.val > 0,
         proc.at \in {"init", "ready"}, call' = [call EXCEPT ![c] = r],
         UNCHANGED <<secretVars, proc, entry, legacy>>, mem' \in [pub: Nat, priv: Nat],
         fresh' \in Nat, fresh' > 0, acked' \in [Names -> Nat], excused' \subseteq Names
  PROVE  SecretInv'
<1>1. KeyTypes'
  BY DEF SecretInv, KeyTypes, secretVars
<1>2. call'[c] = r /\ \A d \in Calls : d # c => call'[d] = call[d]
  BY DEF SecretInv, KeyTypes
<1> QED BY <1>1, <1>2, SecretCall

LEMMA BeginSecret ==
  ASSUME SecretInv, NEW c \in KeyCallers, NEW op, NEW name,
         \/ op = "dbkey" /\ name = "db"
         \/ op \in {"get", "set", "delete"} /\ name = "secret",
         Begin(c, op, name)
  PROVE  SecretInv'
<1>1. PICK r : r = [at |-> CASE op = "set" -> "write" [] op = "delete" -> "unlink"
                             [] OTHER -> Look(name),
                    op |-> op, name |-> name, val |-> IF op = "set" THEN fresh ELSE None]
  OBVIOUS
<1>2. /\ call' = [call EXCEPT ![c] = r] /\ proc.at = "ready"
      /\ fresh' = IF op = "set" THEN fresh + 1 ELSE fresh
      /\ excused' = excused \cup Overlaps(name)
      /\ UNCHANGED <<secretVars, proc, entry, legacy, mem, acked>>
  BY <1>1 DEF Begin, Set
<1>3. KeyTypes /\ c \in Calls /\ c # Boot /\ name \in Names /\ Look(name) \in {"legacy", "read"}
  BY LookSteps, BootCaller DEF SecretInv, Calls, Names
<1>4. r.at = (IF op = "set" THEN "write" ELSE IF op = "delete" THEN "unlink" ELSE Look(name))
  BY <1>1
<1>5. r.op = op /\ r.name = name /\ r.val = (IF op = "set" THEN fresh ELSE None)
  BY <1>1
<1>6. r \in KeyCall
  BY <1>1, <1>3, <1>4, <1>5 DEF KeyCall, CallSteps, CallOps, KeyTypes, None
<1>7. CallShape(c, r) /\ (r.at \in {"write", "written", "migrate", "migrated"} => r.val > 0)
  BY <1>3, <1>4, <1>5 DEF CallShape, Reading, Storing, KeyTypes
<1>8. Overlaps(name) \subseteq Names
  BY <1>3 DEF Overlaps
<1>9. /\ mem' \in [pub: Nat, priv: Nat] /\ fresh' \in Nat /\ fresh' > 0
      /\ acked' \in [Names -> Nat] /\ excused' \subseteq Names
  BY <1>2, <1>3, <1>8 DEF KeyTypes
<1> QED BY <1>2, <1>3, <1>6, <1>7, <1>9, NewCallSecret

LEMMA BootSecret == ASSUME SecretInv, Initialize \/ CreateAdmin PROVE SecretInv'
<1>1. KeyTypes /\ Boot \in Calls
  BY DEF SecretInv, Calls
<1>2. CASE Initialize
  <2>1. PICK r : r = [at |-> Look("pub"), op |-> "initpub", name |-> "pub", val |-> None]
    OBVIOUS
  <2>2. r \in KeyCall /\ CallShape(Boot, r) /\ r.at \in {"legacy", "read"}
    BY <2>1, LookSteps DEF KeyCall, CallSteps, CallOps, CallShape, Reading, Names, None
  <2>3. /\ call' = [call EXCEPT ![Boot] = r] /\ proc.at = "init"
        /\ UNCHANGED <<secretVars, proc, entry, legacy, mem, fresh, acked, excused>>
    BY <1>2, <2>1 DEF Initialize, Set, historyVars
  <2> QED BY <1>1, <2>2, <2>3, NewCallSecret DEF KeyTypes
<1>3. CASE CreateAdmin
  <2>1. PICK r : r = [at |-> "write", op |-> "createpriv", name |-> "priv", val |-> fresh]
    OBVIOUS
  <2>2. r \in KeyCall /\ CallShape(Boot, r) /\ r.val > 0
    BY <1>1, <2>1 DEF KeyCall, CallSteps, CallOps, CallShape, Storing, Names, KeyTypes
  <2>3. /\ call' = [call EXCEPT ![Boot] = r] /\ proc.at = "ready" /\ fresh' = fresh + 1
        /\ mem' = [pub |-> fresh, priv |-> fresh]
        /\ UNCHANGED <<secretVars, proc, entry, legacy, acked, excused>>
    BY <1>3, <2>1 DEF CreateAdmin, Set, historyVars
  <2>4. mem' \in [pub: Nat, priv: Nat]
    BY <1>1, <2>3 DEF KeyTypes
  <2>5. /\ fresh' \in Nat /\ fresh' > 0 /\ acked' \in [Names -> Nat] /\ excused' \subseteq Names
    BY <1>1, <2>3 DEF KeyTypes
  <2> QED BY <1>1, <2>2, <2>3, <2>4, <2>5, NewCallSecret
<1> QED BY <1>2, <1>3

\* Reads, migrations and writes.
LEMMA RemovedLegacy ==
  ASSUME KeyTypes, NEW n \in Names, RemoveLegacy(n)
  PROVE  /\ legacy' \in [Names -> Nat] /\ excused' \subseteq Names /\ excused \subseteq excused'
         /\ \A m \in Names \ {n} : legacy'[m] = legacy[m] /\ (m \in excused' <=> m \in excused)
         /\ n \notin excused' => legacy'[n] = None
  BY DEF KeyTypes, RemoveLegacy, None

LEMMA StepSecret ==
  ASSUME SecretInv, NEW c \in Calls,
         \/ Read(c) \/ ReadLegacy(c) \/ VaultSet(c) \/ SetDone(c) \/ SetFails(c)
         \/ VaultDelete(c) \/ DeleteDone(c)
  PROVE  SecretInv'
<1>1. /\ KeyTypes /\ call[c] \in KeyCall /\ CallShape(c, call[c])
      /\ call[c].at # "idle" => proc.at \in {"init", "ready"} /\ call[c].name \in Names
  BY DEF SecretInv, CallHolds, CallShape, KeyTypes, Names
<1>2. PICK n : n = call[c].name
  OBVIOUS
<1>3. CASE Read(c)
  <2>1. PICK v : /\ v = Torn \/ (entry[n].val > 0 /\ v = entry[n].val)
                 /\ Return(c, v)
                 /\ excused' = IF v = Torn /\ entry[n].val > 0 /\ call[c].op = "initpub"
                               THEN excused \cup {"pub"} ELSE excused
    BY <1>2, <1>3 DEF Read
  <2>2. v \in Int /\ v >= -1 /\ call[c].at \in Reading
    BY <1>1, <1>2, <1>3, <2>1 DEF Torn, KeyTypes, Read, Reading
  <2>3. UNCHANGED <<secretVars, entry, legacy>> /\ excused' \subseteq Names
    BY <1>1, <1>3, <2>1 DEF Read, KeyTypes, Names
  <2> QED BY <1>1, <2>1, <2>2, <2>3, ReturnSecret DEF KeyTypes
<1>4. CASE ReadLegacy(c)
  <2>1. /\ UNCHANGED <<secretVars, entry, legacy, excused>> /\ call[c].at = "legacy"
        /\ n \in Names /\ legacy[n] \in Nat
    BY <1>1, <1>2, <1>4 DEF ReadLegacy, KeyTypes
  <2>2. CASE legacy[n] = None
    <3>1. Return(c, None)
      BY <1>2, <1>4, <2>2 DEF ReadLegacy
    <3> QED BY <1>1, <2>1, <3>1, ReturnSecret DEF None, Reading, KeyTypes
  <2>3. CASE legacy[n] # None
    <3>1. PICK r : r = [call[c] EXCEPT !.at = "migrate", !.val = legacy[n]]
      OBVIOUS
    <3>2. call' = [call EXCEPT ![c] = r] /\ UNCHANGED <<proc, mem, fresh, acked, answers>>
      BY <1>2, <1>4, <2>3, <3>1 DEF ReadLegacy, Set
    <3>6. "migrate" \in CallSteps /\ legacy[n] > 0
      BY <2>1, <2>3 DEF CallSteps, None
    <3>3. r \in KeyCall /\ r.val > 0
      BY <1>1, <2>1, <3>1, <3>6 DEF KeyCall
    <3>4. r.at = "migrate" /\ r.op = call[c].op /\ r.name = call[c].name
      BY <1>1, <3>1 DEF KeyCall
    <3>5. CallShape(c, r)
      BY <1>1, <2>1, <3>4 DEF CallShape, Reading, Storing
    <3> QED BY <1>1, <2>1, <3>2, <3>3, <3>5, NewCallSecret DEF KeyTypes
  <2> QED BY <2>2, <2>3
<1>5. CASE VaultSet(c)
  <2>1. PICK r : r = [call[c] EXCEPT !.at = IF @ = "write" THEN "written" ELSE "migrated"]
    OBVIOUS
  <2>2. /\ call[c].at \in {"write", "migrate"} /\ call' = [call EXCEPT ![c] = r]
        /\ entry' = [entry EXCEPT ![n] = [val |-> call[c].val, under |-> proc.cached]]
        /\ UNCHANGED <<secretVars, proc, legacy, mem, fresh, acked, excused>>
    BY <1>2, <1>5, <2>1 DEF VaultSet, Set, historyVars
  <2>3. call[c].val > 0 /\ call[c].val \in Nat /\ n \in Names /\ proc.at \in {"init", "ready"}
    BY <1>1, <1>2, <2>2 DEF SecretInv, CallHolds, KeyCall
  <2>4. r \in KeyCall /\ CallShape(c, r) /\ r.val = call[c].val
    BY <1>1, <2>1, <2>2 DEF KeyCall, CallSteps, CallShape, Reading, Storing
  <2>5. [val |-> call[c].val, under |-> proc.cached] \in [val: Int, under: Int]
    BY <1>1, <2>3 DEF KeyTypes, ProcType
  <2>6. KeyTypes'
    BY <1>1, <2>2, <2>3, <2>4, <2>5 DEF KeyTypes, secretVars
  <2>7. /\ call'[c] = r /\ \A d \in Calls : d # c => call'[d] = call[d]
        /\ \A m \in Names : \/ entry'[m] = entry[m] \/ entry'[m] = NoEntry
                            \/ entry'[m].val # None /\ entry'[m].under = proc.cached
    BY <1>1, <2>2, <2>3 DEF KeyTypes, None
  <2> QED BY <2>2, <2>3, <2>4, <2>6, <2>7, SecretCall
<1>6. CASE SetDone(c)
  <2>1. /\ call[c].at \in {"written", "migrated"} /\ RemoveLegacy(n) /\ n \in Names
        /\ UNCHANGED <<secretVars, entry>>
    BY <1>1, <1>2, <1>6 DEF SetDone
  <2>2. legacy' \in [Names -> Nat] /\ excused' \subseteq Names
    BY <1>1, <2>1, RemovedLegacy
  <2>3. CASE call[c].at = "migrated"
    <3>1. Return(c, call[c].val)
      <4>1. call[c].op # "createpriv"
        BY <1>1, <2>3 DEF CallShape, Storing
      <4> QED BY <1>6, <2>3, <4>1 DEF SetDone
    <3>2. call[c].val \in Int /\ call[c].val >= -1
      BY <1>1 DEF KeyCall
    <3> QED BY <1>1, <2>1, <2>2, <2>3, <3>1, <3>2, ReturnSecret DEF Reading
  <2>4. CASE call[c].at = "written"
    <3>1. PICK r : r = IF call[c].op = "createpriv"
                       THEN [at |-> "write", op |-> "createpub", name |-> "pub",
                             val |-> call[c].val]
                       ELSE NoCall
      OBVIOUS
    <3>2. /\ call' = [call EXCEPT ![c] = r] /\ UNCHANGED <<proc, mem, fresh>>
          /\ acked' = [acked EXCEPT ![n] = call[c].val]
      <4>1. CASE call[c].op = "createpriv"
        <5>1. n = "priv"
          BY <1>1, <1>2, <2>4, <4>1 DEF CallShape
        <5> QED BY <1>6, <2>4, <3>1, <4>1, <5>1 DEF SetDone, Set
      <4>2. CASE call[c].op # "createpriv"
        BY <1>2, <1>6, <2>4, <3>1, <4>2 DEF SetDone, Set
      <4> QED BY <4>1, <4>2
    <3>3. call[c].val \in Nat /\ call[c].val > 0
      BY <1>1, <2>4 DEF SecretInv, CallHolds, KeyCall
    <3>4. r \in KeyCall /\ CallShape(c, r) /\ (r.at # "idle" => r.val > 0)
      BY <1>1, <2>4, <3>1, <3>3 DEF KeyCall, CallSteps, CallOps, CallShape, Storing, NoCall,
         None, Names, Reading
    <3>5. acked' \in [Names -> Nat]
      BY <1>1, <3>2, <3>3 DEF KeyTypes
    <3>6. KeyTypes'
      BY <1>1, <2>1, <2>2, <3>2, <3>4, <3>5 DEF KeyTypes, secretVars
    <3>7. call'[c] = r /\ \A d \in Calls : d # c => call'[d] = call[d]
      BY <1>1, <3>2 DEF KeyTypes
    <3>8. proc.at \in {"init", "ready"}
      BY <1>1, <2>4
    <3> QED BY <2>1, <3>2, <3>4, <3>6, <3>7, <3>8, SecretCall
  <2> QED BY <2>1, <2>3, <2>4
<1>7. CASE SetFails(c)
  <2>1. /\ call[c].at \in {"write", "migrate"} /\ UNCHANGED <<secretVars, entry, legacy>>
        /\ excused' \subseteq Names
    BY <1>1, <1>7 DEF SetFails, KeyTypes, Names
  <2>2. CASE call[c].at = "migrate"
    <3>1. Return(c, Torn)
      BY <1>7, <2>2 DEF SetFails
    <3> QED BY <1>1, <2>1, <2>2, <3>1, ReturnSecret DEF Reading, Torn, KeyTypes
  <2>3. CASE call[c].at = "write"
    <3>1. call' = [call EXCEPT ![c] = NoCall] /\ UNCHANGED <<proc, mem, fresh, acked>>
      BY <1>7, <2>3 DEF SetFails, Set
    <3>2. NoCall \in KeyCall /\ CallShape(c, NoCall) /\ NoCall.at = "idle"
      BY DEF KeyCall, CallSteps, CallOps, NoCall, None, CallShape
    <3> QED BY <1>1, <2>1, <2>3, <3>1, <3>2, NewCallSecret DEF KeyTypes
  <2> QED BY <2>1, <2>2, <2>3
<1>8. CASE VaultDelete(c)
  <2>1. PICK r : r = [call[c] EXCEPT !.at = "unlinked"]
    OBVIOUS
  <2>2. /\ call[c].at = "unlink" /\ call' = [call EXCEPT ![c] = r]
        /\ entry' = [entry EXCEPT ![n] = NoEntry]
        /\ UNCHANGED <<secretVars, proc, legacy, mem, fresh, acked, excused>>
    BY <1>2, <1>8, <2>1 DEF VaultDelete, Set, historyVars
  <2>3. r \in KeyCall /\ CallShape(c, r) /\ r.at = "unlinked"
    BY <1>1, <2>1, <2>2 DEF KeyCall, CallSteps, CallShape, Reading, Storing
  <2>0. NoEntry \in [val: Int, under: Int]
    BY DEF NoEntry, None
  <2>4. KeyTypes'
    BY <1>1, <2>0, <2>2, <2>3 DEF KeyTypes, secretVars
  <2>5. /\ call'[c] = r /\ \A d \in Calls : d # c => call'[d] = call[d]
        /\ \A m \in Names : entry'[m] = entry[m] \/ entry'[m] = NoEntry
    BY <1>1, <2>2 DEF KeyTypes
  <2>6. proc.at \in {"init", "ready"}
    BY <1>1, <2>2
  <2> QED BY <2>2, <2>3, <2>4, <2>5, <2>6, SecretCall
<1>9. CASE DeleteDone(c)
  <2>1. /\ call[c].at = "unlinked" /\ RemoveLegacy(n) /\ n \in Names
        /\ call' = [call EXCEPT ![c] = NoCall] /\ acked' = [acked EXCEPT ![n] = None]
        /\ UNCHANGED <<secretVars, proc, entry, mem, fresh>>
    BY <1>1, <1>2, <1>9 DEF DeleteDone, Set
  <2>2. legacy' \in [Names -> Nat] /\ excused' \subseteq Names
    BY <1>1, <2>1, RemovedLegacy
  <2>3. NoCall \in KeyCall /\ CallShape(c, NoCall) /\ NoCall.at = "idle"
    BY DEF KeyCall, CallSteps, CallOps, NoCall, None, CallShape
  <2>4. KeyTypes'
    BY <1>1, <2>1, <2>2, <2>3 DEF KeyTypes, secretVars, None
  <2>5. call'[c] = NoCall /\ \A d \in Calls : d # c => call'[d] = call[d]
    BY <1>1, <2>1 DEF KeyTypes
  <2>6. proc.at \in {"init", "ready"}
    BY <1>1, <2>1
  <2> QED BY <2>1, <2>3, <2>4, <2>5, <2>6, SecretCall
<1> QED BY <1>3, <1>4, <1>5, <1>6, <1>7, <1>8, <1>9

LEMMA CrashSecret == ASSUME SecretInv, CrashKeys PROVE SecretInv'
<1>1. PICK torn \in SUBSET Writing :
          entry' = [n \in Names |-> IF n \in torn THEN [val |-> Torn, under |-> proc.cached]
                                    ELSE entry[n]]
  BY DEF CrashKeys
<1>2. /\ proc' = Down /\ mem' = NoMem /\ call' = [c \in Calls |-> NoCall]
      /\ excused' = excused \cup
           {call[c].name : c \in {d \in Calls : call[d].at # "idle"
                                                /\ call[d].op \in {"set", "delete"}}}
      /\ UNCHANGED <<keyRef, legacy, fresh, acked>>
  BY DEF CrashKeys
<1>3. \A c \in Calls : call[c].at # "idle" => call[c].name \in Names
  BY DEF SecretInv, CallHolds, CallShape, Names
<1>4. excused' \subseteq Names
  BY <1>2, <1>3 DEF SecretInv, KeyTypes
<1>5. KeyTypes'
  <2>1. [val |-> Torn, under |-> proc.cached] \in [val: Int, under: Int]
    BY DEF SecretInv, KeyTypes, ProcType, Torn
  <2>2. entry' \in [Names -> [val: Int, under: Int]]
    BY <1>1, <2>1 DEF SecretInv, KeyTypes
  <2>3. secretFile' \in Int /\ sealedBox' \in Int
    BY DEF CrashKeys, SecretInv, KeyTypes, Torn
  <2>4. NoCall \in KeyCall
    BY DEF KeyCall, CallSteps, CallOps, NoCall, None
  <2> QED BY <1>2, <1>4, <2>2, <2>3, <2>4 DEF SecretInv, KeyTypes, ProcType, Down, NoMem, None
<1>6. SecretHolds'
  BY <1>2 DEF SecretHolds, Down
<1>7. ASSUME NEW c \in Calls PROVE CallHolds(c, call[c])'
  BY <1>2 DEF CallHolds, CallShape, NoCall
<1>8. DirSecret # None => DirSecret' = DirSecret
  BY DEF CrashKeys, SecretInv, SecretHolds, DirSecret, None
<1>9. Writing # {} => proc.cached = DirSecret /\ DirSecret # None
  BY DEF Writing, SecretInv, CallHolds, SecretHolds
<1>10. ASSUME NEW n \in Names PROVE EntryHolds(entry[n])'
  <2>1. CASE n \in torn
    BY <1>1, <1>8, <1>9, <2>1 DEF EntryHolds, Torn, None
  <2>2. CASE n \notin torn
    BY <1>1, <1>8, <2>2 DEF SecretInv, EntryHolds
  <2> QED BY <2>1, <2>2
<1> QED BY <1>5, <1>6, <1>7, <1>10 DEF SecretInv

LEMMA SecretStep == ASSUME SecretInv, [KeysNext]_keyVars PROVE SecretInv'
<1>1. CASE UNCHANGED keyVars
  BY <1>1 DEF keyVars, SecretInv, KeyTypes, SecretHolds, CallHolds, CallShape, EntryHolds, DirSecret
<1>2. ASSUME NEW c \in KeyCallers,
             \/ Begin(c, "dbkey", "db")
             \/ \E op \in {"get", "set", "delete"} : Begin(c, op, "secret")
      PROVE  SecretInv'
  BY <1>2, BeginSecret
<1> QED BY <1>1, <1>2, OpenSecret, BootSecret, CrashSecret, StepSecret DEF KeysNext

\* For every number of callers and any number of crashes: no entry of the vault
\* is under a secret other than the directory's (vault-secret-provider.ts,
\* vault.ts), whichever provider each start resolves.
THEOREM SecretIsKept == KeysSpec => []SecretKept
<1>1. KeysInit => SecretInv
  BY SecretStart
<1>2. SecretInv /\ [KeysNext]_keyVars => SecretInv'
  BY SecretStep
<1>3. SecretInv => SecretKept
  BY DEF SecretInv, EntryHolds, SecretKept
<1> QED BY <1>1, <1>2, <1>3, PTL DEF KeysSpec

\* One step of a call: what it can touch is the name it is about.
CallAction(c) ==
    \/ Read(c) \/ ReadLegacy(c) \/ VaultSet(c) \/ SetDone(c) \/ SetFails(c)
    \/ VaultDelete(c) \/ DeleteDone(c)

LEMMA CallFrame ==
  ASSUME SecretInv, NEW c \in Calls, CallAction(c)
  PROVE  /\ call[c].at # "idle" /\ call[c].name \in Names
         /\ \A n \in Names \ {call[c].name} : entry'[n] = entry[n] /\ legacy'[n] = legacy[n]
         /\ \A d \in Calls : d # c => call'[d] = call[d]
         /\ excused \subseteq excused'
         /\ c # Boot => /\ proc' = proc /\ mem' = mem /\ call[c].name \in {"db", "secret"}
                        /\ \A n \in Names \ {call[c].name} : acked'[n] = acked[n]
         /\ c = Boot => /\ answers' = answers /\ call[c].name \in {"pub", "priv"}
                        /\ acked'["db"] = acked["db"] /\ acked'["secret"] = acked["secret"]
<1>1. KeyTypes /\ CallShape(c, call[c])
  BY DEF SecretInv, CallHolds
<1>2. call[c].at # "idle"
  BY DEF CallAction, Read, ReadLegacy, VaultSet, SetDone, SetFails, VaultDelete, DeleteDone
<1>3. /\ call[c].name \in Names
      /\ c # Boot => call[c].name \in {"db", "secret"}
      /\ c = Boot => call[c].name \in {"pub", "priv"}
  BY <1>1, <1>2 DEF CallShape, Names
<1>4. PICK n : n = call[c].name
  OBVIOUS
<1>5. /\ \A m \in Names \ {n} : entry'[m] = entry[m] /\ legacy'[m] = legacy[m]
      /\ excused \subseteq excused'
  <2>1. CASE Read(c) \/ ReadLegacy(c) \/ SetFails(c)
    BY <2>1 DEF Read, ReadLegacy, SetFails
  <2>2. CASE VaultSet(c) \/ VaultDelete(c)
    BY <1>1, <1>4, <2>2 DEF VaultSet, VaultDelete, historyVars, KeyTypes
  <2>3. CASE SetDone(c) \/ DeleteDone(c)
    BY <1>1, <1>3, <1>4, <2>3, RemovedLegacy DEF SetDone, DeleteDone
  <2> QED BY <2>1, <2>2, <2>3 DEF CallAction
<1>6. ASSUME NEW v, Return(c, v), call[c].at \in Reading
      PROVE  /\ \A d \in Calls : d # c => call'[d] = call[d]
             /\ c # Boot => /\ proc' = proc /\ mem' = mem
                            /\ \A m \in Names \ {n} : acked'[m] = acked[m]
             /\ c = Boot => answers' = answers /\ acked' = acked
  BY <1>1, <1>4, <1>6, ReturnForms DEF KeyTypes
<1>7. /\ \A d \in Calls : d # c => call'[d] = call[d]
      /\ c # Boot => /\ proc' = proc /\ mem' = mem
                     /\ \A m \in Names \ {n} : acked'[m] = acked[m]
      /\ c = Boot => /\ answers' = answers
                     /\ acked'["db"] = acked["db"] /\ acked'["secret"] = acked["secret"]
  <2>1. CASE Read(c)
    <3>1. (\E v : Return(c, v)) /\ call[c].at \in Reading
      BY <2>1 DEF Read, Reading
    <3> QED BY <1>6, <3>1
  <2>2. CASE ReadLegacy(c)
    <3>1. CASE legacy[n] = None
      <4>1. Return(c, None) /\ call[c].at \in Reading
        BY <1>4, <2>2, <3>1 DEF ReadLegacy, Reading
      <4> QED BY <1>6, <4>1
    <3>2. CASE legacy[n] # None
      BY <1>1, <1>4, <2>2, <3>2 DEF ReadLegacy, Set, KeyTypes
    <3> QED BY <3>1, <3>2
  <2>3. CASE VaultSet(c) \/ VaultDelete(c)
    BY <1>1, <2>3 DEF VaultSet, VaultDelete, Set, historyVars, KeyTypes
  <2>4. CASE SetDone(c)
    <3>1. CASE call[c].at = "migrated"
      <4>1. call[c].op # "createpriv"
        BY <1>1, <3>1 DEF CallShape, Storing
      <4>2. Return(c, call[c].val) /\ call[c].at \in Reading
        BY <2>4, <3>1, <4>1 DEF SetDone, Reading
      <4> QED BY <1>6, <4>2
    <3>2. CASE call[c].at = "written"
      <4>0. call[c].at # "migrated" /\ DOMAIN acked = Names /\ DOMAIN call = Calls
        BY <1>1, <3>2 DEF KeyTypes
      <4>1. CASE call[c].op = "createpriv"
        <5>1. n = "priv"
          BY <1>1, <1>4, <3>2, <4>1 DEF CallShape
        <5>2. PICK r : r = [at |-> "write", op |-> "createpub", name |-> "pub", val |-> call[c].val]
          OBVIOUS
        <5>3. /\ call' = [call EXCEPT ![c] = r] /\ acked' = [acked EXCEPT !["priv"] = call[c].val]
              /\ UNCHANGED <<proc, mem, answers>>
          BY <2>4, <4>0, <4>1, <5>2 DEF SetDone, Set
        <5> QED BY <1>3, <1>4, <4>0, <5>1, <5>3 DEF Names
      <4>2. CASE call[c].op # "createpriv"
        <5>1. /\ call' = [call EXCEPT ![c] = NoCall] /\ acked' = [acked EXCEPT ![n] = call[c].val]
              /\ UNCHANGED <<proc, mem, answers>>
          BY <1>4, <2>4, <4>0, <4>2 DEF SetDone, Set
        <5> QED BY <1>3, <1>4, <4>0, <5>1
      <4> QED BY <4>1, <4>2
    <3> QED BY <2>4, <3>1, <3>2 DEF SetDone
  <2>5. CASE SetFails(c)
    <3>1. CASE call[c].at = "migrate"
      <4>1. Return(c, Torn) /\ call[c].at \in Reading
        BY <2>5, <3>1 DEF SetFails, Reading
      <4> QED BY <1>6, <4>1
    <3>2. CASE call[c].at # "migrate"
      BY <1>1, <2>5, <3>2 DEF SetFails, Set, KeyTypes
    <3> QED BY <3>1, <3>2
  <2>6. CASE DeleteDone(c)
    BY <1>1, <1>3, <1>4, <2>6 DEF DeleteDone, Set, KeyTypes
  <2> QED BY <2>1, <2>2, <2>3, <2>4, <2>5, <2>6 DEF CallAction
<1> QED BY <1>2, <1>3, <1>4, <1>5, <1>7

\* A step that leaves the admin pair alone.
LEMMA PairFrame ==
  ASSUME PairInv, \A n \in {"pub", "priv"} : entry'[n] = entry[n] /\ legacy'[n] = legacy[n],
         SecretInv, call'[Boot] = call[Boot], proc' = proc, mem' = mem, excused \subseteq excused'
  PROVE  PairInv'
<1>1. call[Boot].at # "idle" => call[Boot].name \in {"pub", "priv"}
  BY DEF SecretInv, CallHolds, CallShape, Calls
<1>2. BootHolds(call[Boot])'
  <2>1. CASE call[Boot].at = "idle"
    BY <2>1 DEF PairInv, BootHolds
  <2>2. CASE call[Boot].at # "idle"
    BY <1>1, <2>2 DEF PairInv, BootHolds
  <2> QED BY <2>1, <2>2
<1>3. PairHolds(call[Boot]) => PairHolds(call[Boot])'
  BY DEF PairHolds, Held
<1> QED BY <1>2, <1>3 DEF PairInv

LEMMA PairStart == ASSUME KeysInit PROVE PairInv
<1>1. call[Boot] = NoCall /\ entry = [n \in Names |-> NoEntry] /\ proc = Down
  BY DEF KeysInit, Calls
<1>2. BootHolds(call[Boot])
  BY <1>1 DEF BootHolds, NoCall
<1>3. legacy["pub"] = legacy["priv"]
  BY DEF KeysInit, Names
<1>4. PairHolds(call[Boot])
  BY <1>1, <1>3 DEF PairHolds, NoCall, Down, Held, Names
<1> QED BY <1>2, <1>4 DEF PairInv

\* A read of the admin pair that returns v: nothing held is lost on the way.
LEMMA ReturnPair ==
  ASSUME SecretInv, PairInv, call[Boot].at \in Reading, NEW v \in Int, Return(Boot, v),
         \A n \in {"pub", "priv"} : entry'[n] = entry[n] /\ Held(n)' = Held(n),
         excused \subseteq excused',
         (call[Boot].op = "initpub" /\ "pub" \notin excused' /\ v <= 0) => Held("pub") <= 0
  PROVE  PairInv'
<1>1. KeyTypes /\ Boot \in Calls
  BY DEF SecretInv, Calls
<1>2. CASE /\ call[Boot].op = "initpub"
           /\ mem' = [mem EXCEPT !.pub = IF v > 0 THEN v ELSE None]
           /\ call' = [call EXCEPT ![Boot] = [at |-> Look("priv"), op |-> "initpriv",
                                              name |-> "priv", val |-> None]]
           /\ UNCHANGED proc
  <2>1. PICK r : r = [at |-> Look("priv"), op |-> "initpriv", name |-> "priv", val |-> None]
    OBVIOUS
  <2>2. /\ call'[Boot] = r /\ r.op = "initpriv" /\ r.name = "priv" /\ r.at = Look("priv")
        /\ mem'.pub = IF v > 0 THEN v ELSE None
    BY <1>1, <1>2, <2>1 DEF KeyTypes
  <2>3. BootHolds(call[Boot])'
    BY <2>2 DEF BootHolds, Look
  <2>4. ASSUME "pub" \notin excused' PROVE PairHolds(call[Boot])'
    <3>1. mem'.pub = None => Held("pub") <= 0
      BY <1>2, <2>2, <2>4 DEF None
    <3>2. "pub" \notin excused
      BY <2>4
    <3> QED BY <2>2, <3>1, <3>2 DEF PairInv, PairHolds
  <2> QED BY <2>3, <2>4 DEF PairInv
<1>3. CASE /\ call[Boot].op = "initpriv"
           /\ mem' = [mem EXCEPT !.priv = IF v > 0 THEN v ELSE None]
           /\ call' = [call EXCEPT ![Boot] = NoCall] /\ proc' = [proc EXCEPT !.at = "ready"]
  <2>1. call'[Boot] = NoCall /\ mem'.pub = mem.pub
    BY <1>1, <1>3 DEF KeyTypes
  <2>2. BootHolds(call[Boot])'
    BY <2>1 DEF BootHolds, NoCall
  <2>3. ASSUME "pub" \notin excused' PROVE PairHolds(call[Boot])'
    <3>1. "pub" \notin excused
      BY <2>3
    <3> QED BY <1>3, <2>1, <3>1 DEF PairInv, PairHolds, NoCall
  <2> QED BY <2>2, <2>3 DEF PairInv
<1> QED BY <1>1, <1>2, <1>3, ReturnForms

LEMMA BootStepPair == ASSUME SecretInv, PairInv, CallAction(Boot) PROVE PairInv'
<1>1. /\ KeyTypes /\ Boot \in Calls /\ call[Boot] \in KeyCall /\ CallShape(Boot, call[Boot])
      /\ BootHolds(call[Boot])
  BY DEF SecretInv, CallHolds, KeyTypes, PairInv, Calls
<1>2. /\ call[Boot].at # "idle" /\ call[Boot].name \in {"pub", "priv"}
      /\ \A n \in Names \ {call[Boot].name} : entry'[n] = entry[n] /\ legacy'[n] = legacy[n]
      /\ excused \subseteq excused'
  BY <1>1, CallFrame
<1>3. PICK n \in {"pub", "priv"} : n = call[Boot].name
  BY <1>2
<1>4. CASE Read(Boot)
  <2>1. PICK v : /\ v = Torn \/ (entry[n].val > 0 /\ v = entry[n].val)
                 /\ Return(Boot, v)
                 /\ excused' = IF v = Torn /\ entry[n].val > 0 /\ call[Boot].op = "initpub"
                               THEN excused \cup {"pub"} ELSE excused
    BY <1>3, <1>4 DEF Read
  <2>2. UNCHANGED <<entry, legacy>> /\ call[Boot].at = "read" /\ n \in Names
    BY <1>3, <1>4 DEF Read, Names
  <2>3. v \in Int
    BY <1>1, <2>1, <2>2 DEF KeyTypes, Torn
  <2>4. \A m \in {"pub", "priv"} : entry'[m] = entry[m] /\ Held(m)' = Held(m)
    BY <2>2 DEF Held
  <2>5. ASSUME call[Boot].op = "initpub", "pub" \notin excused', v <= 0 PROVE Held("pub") <= 0
    <3>1. n = "pub" /\ entry["pub"] # NoEntry
      BY <1>1, <1>3, <2>2, <2>5 DEF CallShape, BootHolds
    <3>2. entry["pub"].val \in Int /\ ~(entry["pub"].val > 0)
      BY <1>1, <2>1, <2>2, <2>5, <3>1 DEF KeyTypes, Torn
    <3> QED BY <3>1, <3>2 DEF Held
  <2> QED BY <1>2, <2>1, <2>2, <2>3, <2>4, <2>5, ReturnPair DEF Reading
<1>5. CASE ReadLegacy(Boot)
  <2>1. UNCHANGED <<entry, legacy, excused>> /\ call[Boot].at = "legacy" /\ n \in Names
    BY <1>3, <1>5 DEF ReadLegacy, Names
  <2>2. \A m \in {"pub", "priv"} : entry'[m] = entry[m] /\ Held(m)' = Held(m)
    BY <2>1 DEF Held
  <2>3. entry[n] = NoEntry
    BY <1>1, <1>3, <2>1 DEF BootHolds
  <2>4. CASE legacy[n] = None
    <3>1. Return(Boot, None)
      BY <1>3, <1>5, <2>4 DEF ReadLegacy
    <3>2. call[Boot].op = "initpub" => Held("pub") <= 0
      BY <1>1, <1>3, <2>1, <2>3, <2>4 DEF CallShape, Held, None
    <3> QED BY <1>2, <2>1, <2>2, <3>1, <3>2, ReturnPair DEF Reading, None
  <2>5. CASE legacy[n] # None
    <3>1. PICK r : r = [call[Boot] EXCEPT !.at = "migrate", !.val = legacy[n]]
      OBVIOUS
    <3>2. call' = [call EXCEPT ![Boot] = r] /\ UNCHANGED <<proc, mem>>
      BY <1>3, <1>5, <2>5, <3>1 DEF ReadLegacy, Set
    <3>3. /\ call'[Boot] = r /\ r.at = "migrate" /\ r.val = legacy[n] /\ r.name = n
          /\ r.op = call[Boot].op /\ call[Boot].op \in {"initpub", "initpriv"}
      <4>1. call'[Boot] = r
        BY <1>1, <3>2 DEF KeyTypes
      <4>2. r.at = "migrate" /\ r.val = legacy[n] /\ r.name = n /\ r.op = call[Boot].op
        BY <1>1, <1>3, <3>1 DEF KeyCall
      <4>3. call[Boot].op \in {"initpub", "initpriv"}
        BY <1>1, <2>1 DEF CallShape, Storing
      <4> QED BY <4>1, <4>2, <4>3
    <3>4. BootHolds(call[Boot])'
      BY <1>1, <2>1, <2>3, <3>2, <3>3 DEF BootHolds
    <3>5. PairHolds(call[Boot]) => PairHolds(call[Boot])'
      BY <2>1, <2>2, <3>2, <3>3 DEF PairHolds
    <3> QED BY <2>1, <3>4, <3>5 DEF PairInv
  <2> QED BY <2>4, <2>5
<1>6. CASE VaultSet(Boot)
  <2>1. PICK r : r = [call[Boot] EXCEPT !.at = IF @ = "write" THEN "written" ELSE "migrated"]
    OBVIOUS
  <2>2. /\ call[Boot].at \in {"write", "migrate"} /\ call' = [call EXCEPT ![Boot] = r]
        /\ entry' = [entry EXCEPT ![n] = [val |-> call[Boot].val, under |-> proc.cached]]
        /\ UNCHANGED <<proc, legacy, mem, excused>>
    BY <1>3, <1>6, <2>1 DEF VaultSet, Set, historyVars
  <2>3. /\ call'[Boot] = r /\ r.val = call[Boot].val /\ r.name = n /\ r.op = call[Boot].op
        /\ r.at = IF call[Boot].at = "write" THEN "written" ELSE "migrated"
        /\ call[Boot].val \in Nat /\ call[Boot].val > 0
    <3>1. r.val = call[Boot].val /\ r.name = n /\ r.op = call[Boot].op
          /\ r.at = IF call[Boot].at = "write" THEN "written" ELSE "migrated"
      BY <1>1, <1>3, <2>1 DEF KeyCall
    <3>2. call[Boot].val \in Nat /\ call[Boot].val > 0
      BY <1>1, <2>2 DEF KeyCall, SecretInv, CallHolds
    <3>3. call'[Boot] = r
      BY <1>1, <2>2 DEF KeyTypes
    <3> QED BY <3>1, <3>2, <3>3
  <2>4. /\ entry'[n].val = r.val /\ entry'[n] # NoEntry
        /\ \A m \in {"pub", "priv"} \ {n} : entry'[m] = entry[m]
    BY <1>1, <2>2, <2>3 DEF KeyTypes, Names, NoEntry, None
  <2>5. Held(n)' = r.val /\ \A m \in {"pub", "priv"} \ {n} : Held(m)' = Held(m)
    BY <2>2, <2>4 DEF Held
  <2>6. BootHolds(call[Boot])'
    BY <1>1, <2>2, <2>3, <2>4 DEF BootHolds
  <2>7. ASSUME "pub" \notin excused' PROVE PairHolds(call[Boot])'
    <3>0. PairHolds(call[Boot])
      BY <2>2, <2>7 DEF PairInv
    <3>1. CASE call[Boot].at = "migrate"
      <4>1. r.val = Held(n)
        BY <1>1, <1>3, <2>3, <3>1 DEF BootHolds, Held
      <4>2. Held("pub")' = Held("pub") /\ Held("priv")' = Held("priv")
        BY <2>5, <4>1
      <4>3. call[Boot].op \in {"initpub", "initpriv"}
        BY <1>1, <3>1 DEF CallShape, Storing
      <4> QED BY <2>2, <2>3, <3>0, <4>2, <4>3 DEF PairHolds
    <3>2. CASE call[Boot].op = "createpriv" /\ n = "priv"
      <4>1. Held("pub")' <= 0 /\ Held("pub") \in Int
        BY <1>1, <2>5, <3>0, <3>2 DEF PairHolds, Held, KeyTypes, Names
      <4> QED BY <2>2, <2>3, <2>5, <3>2, <4>1 DEF PairHolds
    <3>3. CASE call[Boot].op = "createpub" /\ n = "pub" /\ call[Boot].at = "write"
      <4>1. /\ Held("priv")' = r.val /\ Held("pub")' = r.val /\ entry'["priv"] # NoEntry
            /\ mem'.pub # None
        BY <1>1, <2>2, <2>3, <2>4, <2>5, <3>0, <3>3 DEF PairHolds, BootHolds
      <4>2. r.at = "written" /\ r.op = "createpub"
        BY <2>3, <3>3
      <4> QED BY <2>3, <4>1, <4>2 DEF PairHolds
    <3> QED BY <1>1, <1>3, <2>2, <3>1, <3>2, <3>3 DEF CallShape, Reading, Storing
  <2> QED BY <2>6, <2>7 DEF PairInv
<1>7. CASE SetDone(Boot)
  <2>1. /\ call[Boot].at \in {"written", "migrated"} /\ UNCHANGED entry
    BY <1>7 DEF SetDone
  <2>2. entry[n].val = call[Boot].val /\ call[Boot].val > 0 /\ call[Boot].val \in Nat
    BY <1>1, <1>3, <2>1 DEF BootHolds, SecretInv, CallHolds, KeyCall
  <2>3. entry[n] # NoEntry
    BY <2>2 DEF NoEntry, None
  <2>4. \A m \in {"pub", "priv"} : entry'[m] = entry[m] /\ Held(m)' = Held(m)
    BY <1>2, <1>3, <2>1, <2>3 DEF Held, Names
  <2>5. CASE call[Boot].at = "migrated"
    <3>1. call[Boot].op # "createpriv"
      BY <1>1, <2>5 DEF CallShape, Storing
    <3>2. Return(Boot, call[Boot].val)
      BY <1>7, <2>5, <3>1 DEF SetDone
    <3> QED BY <1>2, <2>2, <2>4, <2>5, <3>2, ReturnPair DEF Reading
  <2>6. CASE call[Boot].at = "written" /\ call[Boot].op = "createpriv" /\ n = "priv"
    <3>1. PICK r : r = [at |-> "write", op |-> "createpub", name |-> "pub", val |-> call[Boot].val]
      OBVIOUS
    <3>2. call' = [call EXCEPT ![Boot] = r] /\ UNCHANGED <<proc, mem>>
      BY <1>7, <2>6, <3>1 DEF SetDone, Set
    <3>3. /\ call'[Boot] = r /\ r.at = "write" /\ r.op = "createpub" /\ r.name = "pub"
          /\ r.val = call[Boot].val
      BY <1>1, <3>1, <3>2 DEF KeyTypes
    <3>4. BootHolds(call[Boot])'
      BY <1>1, <2>6, <3>2, <3>3 DEF BootHolds
    <3>5. Held("priv") = call[Boot].val
      BY <2>2, <2>3, <2>6 DEF Held
    <3>6. ASSUME "pub" \notin excused' PROVE PairHolds(call[Boot])'
      <4>1. PairHolds(call[Boot])
        BY <1>2, <3>6 DEF PairInv
      <4> QED BY <2>1, <2>3, <2>4, <2>6, <3>2, <3>3, <3>5, <4>1 DEF PairHolds
    <3> QED BY <3>4, <3>6 DEF PairInv
  <2>7. CASE call[Boot].at = "written" /\ call[Boot].op = "createpub" /\ n = "pub"
    <3>1. call'[Boot] = NoCall /\ UNCHANGED <<proc, mem>>
      BY <1>1, <1>7, <2>7 DEF SetDone, Set, KeyTypes
    <3>2. BootHolds(call[Boot])' /\ mem'.pub # None
      BY <1>1, <2>7, <3>1 DEF BootHolds, NoCall
    <3>3. PairHolds(call[Boot]) => PairHolds(call[Boot])'
      BY <2>4, <3>1, <3>2 DEF PairHolds, NoCall
    <3> QED BY <1>2, <3>2, <3>3 DEF PairInv
  <2> QED BY <1>1, <1>3, <2>1, <2>5, <2>6, <2>7 DEF CallShape, Reading, Storing
<1>8. CASE SetFails(Boot)
  <2>1. /\ call[Boot].at \in {"write", "migrate"} /\ UNCHANGED <<entry, legacy>>
        /\ call[Boot].op = "initpub" => "pub" \in excused'
    BY <1>8 DEF SetFails
  <2>2. \A m \in {"pub", "priv"} : entry'[m] = entry[m] /\ Held(m)' = Held(m)
    BY <2>1 DEF Held
  <2>3. CASE call[Boot].at = "migrate"
    <3>1. Return(Boot, Torn)
      BY <1>8, <2>3 DEF SetFails
    <3> QED BY <1>2, <2>1, <2>2, <2>3, <3>1, ReturnPair DEF Reading, Torn
  <2>4. CASE call[Boot].at = "write"
    <3>1. call'[Boot] = NoCall /\ UNCHANGED <<proc, mem>>
      BY <1>1, <1>8, <2>4 DEF SetFails, Set, KeyTypes
    <3>2. call[Boot].op \in {"createpriv", "createpub"}
      BY <1>1, <2>4 DEF CallShape, Reading
    <3>3. BootHolds(call[Boot])' /\ mem'.pub # None
      BY <1>1, <3>1, <3>2 DEF BootHolds, NoCall
    <3>4. PairHolds(call[Boot]) => PairHolds(call[Boot])'
      BY <2>2, <3>1, <3>3 DEF PairHolds, NoCall
    <3> QED BY <1>2, <3>3, <3>4 DEF PairInv
  <2> QED BY <2>1, <2>3, <2>4
<1>9. ~VaultDelete(Boot) /\ ~DeleteDone(Boot)
  BY <1>1 DEF VaultDelete, DeleteDone, CallShape, Reading, Storing
<1> QED BY <1>4, <1>5, <1>6, <1>7, <1>8, <1>9 DEF CallAction

LEMMA CrashPair == ASSUME SecretInv, PairInv, CrashKeys PROVE PairInv'
<1>1. PICK torn \in SUBSET Writing :
          entry' = [n \in Names |-> IF n \in torn THEN [val |-> Torn, under |-> proc.cached]
                                    ELSE entry[n]]
  BY DEF CrashKeys
<1>2. /\ proc'.at = "down" /\ call'[Boot] = NoCall /\ legacy' = legacy
      /\ excused \subseteq excused'
  BY DEF CrashKeys, Down, Calls
<1>3. BootHolds(call[Boot])'
  BY <1>2 DEF BootHolds, NoCall
<1>4. ASSUME NEW n \in {"pub", "priv"} PROVE Held(n)' = Held(n) \/ Held(n)' = Torn
  <2>1. CASE n \in torn
    BY <1>1, <2>1 DEF Held, NoEntry, Torn, None, Names
  <2>2. CASE n \notin torn
    BY <1>1, <1>2, <2>2 DEF Held, Names
  <2> QED BY <2>1, <2>2
<1>5. PairHolds(call[Boot]) => PairHolds(call[Boot])'
  BY <1>2, <1>4 DEF PairHolds, NoCall, Torn
<1> QED BY <1>2, <1>3, <1>5 DEF PairInv

LEMMA OpenPair ==
  ASSUME SecretInv, PairInv, \/ \E k \in {"software", "enclave"} : Open(k)
                             \/ ReadSecret \/ NewSecret \/ WriteSecret \/ SecretFails
  PROVE  PairInv'
<1>1. proc.at \in {"down", "resolve", "write"} /\ UNCHANGED <<entry, legacy, mem, call, excused>>
  BY DEF Open, ReadSecret, NewSecret, WriteSecret, SecretFails, historyVars
<1>2. call'[Boot] = NoCall
  BY <1>1 DEF SecretInv, CallHolds, CallShape, Reading, Storing, Calls
<1>3. proc \in ProcType
  BY DEF SecretInv, KeyTypes
<1>4. proc'.at # "ready"
  <2>1. CASE \E s : proc' = [proc EXCEPT !.at = "init", !.cached = s]
    BY <1>3, <2>1 DEF ProcType
  <2>2. CASE proc' = Down \/ proc' = proc
    BY <1>1, <2>2 DEF Down
  <2>3. CASE \E k : proc' = [at |-> "resolve", kind |-> k, cached |-> None]
    BY <2>3
  <2>4. CASE proc' = [proc EXCEPT !.at = "write", !.cached = fresh]
    BY <1>3, <2>4 DEF ProcType
  <2> QED BY <2>1, <2>2, <2>3, <2>4 DEF Open, ReadSecret, NewSecret, WriteSecret, SecretFails,
            Opened
<1>5. BootHolds(call[Boot])'
  BY <1>2 DEF BootHolds, NoCall
<1>6. PairHolds(call[Boot]) => PairHolds(call[Boot])'
  BY <1>1, <1>2, <1>4 DEF PairHolds, NoCall, Held
<1> QED BY <1>1, <1>5, <1>6 DEF PairInv

LEMMA BootPair == ASSUME SecretInv, PairInv, Initialize \/ CreateAdmin PROVE PairInv'
<1>1. KeyTypes /\ Boot \in Calls /\ call[Boot] = NoCall
  BY DEF SecretInv, Calls, Initialize, CreateAdmin
<1>2. CASE Initialize
  <2>1. PICK r : r = [at |-> Look("pub"), op |-> "initpub", name |-> "pub", val |-> None]
    OBVIOUS
  <2>2. /\ call'[Boot] = r /\ proc.at = "init" /\ UNCHANGED <<proc, entry, legacy, mem, excused>>
    BY <1>1, <1>2, <2>1 DEF Initialize, Set, historyVars, KeyTypes
  <2>3. r.op = "initpub" /\ r.name = "pub" /\ r.at = Look("pub")
    BY <2>1
  <2>4. BootHolds(call[Boot])'
    BY <2>2, <2>3 DEF BootHolds, Look
  <2>5. PairHolds(call[Boot]) => PairHolds(call[Boot])'
    BY <1>1, <2>2, <2>3 DEF PairHolds, Held
  <2> QED BY <2>2, <2>4, <2>5 DEF PairInv
<1>3. CASE CreateAdmin
  <2>1. PICK r : r = [at |-> "write", op |-> "createpriv", name |-> "priv", val |-> fresh]
    OBVIOUS
  <2>2. /\ call'[Boot] = r /\ proc.at = "ready" /\ mem.pub = None
        /\ mem' = [pub |-> fresh, priv |-> fresh] /\ UNCHANGED <<proc, entry, legacy, excused>>
    BY <1>1, <1>3, <2>1 DEF CreateAdmin, Set, historyVars, KeyTypes
  <2>3. r.op = "createpriv" /\ r.name = "priv" /\ r.at = "write" /\ mem'.pub # None
    BY <1>1, <2>1, <2>2 DEF KeyTypes, None
  <2>4. BootHolds(call[Boot])'
    BY <2>2, <2>3 DEF BootHolds
  <2>5. PairHolds(call[Boot]) => PairHolds(call[Boot])'
    BY <1>1, <2>2, <2>3 DEF PairHolds, Held
  <2> QED BY <2>2, <2>4, <2>5 DEF PairInv
<1> QED BY <1>2, <1>3

LEMMA BeginFrame ==
  ASSUME SecretInv, NEW c \in KeyCallers, NEW op, NEW name, Begin(c, op, name)
  PROVE  /\ UNCHANGED <<proc, entry, legacy, mem, acked, answers>> /\ excused \subseteq excused'
         /\ \A d \in Calls : d # c => call'[d] = call[d]
         /\ call'[Boot] = call[Boot]
<1>1. KeyTypes /\ c \in Calls /\ Boot \in Calls /\ c # Boot
  BY BootCaller DEF SecretInv, Calls
<1> QED BY <1>1 DEF Begin, Set, KeyTypes

LEMMA PairStep == ASSUME SecretInv, PairInv, [KeysNext]_keyVars PROVE PairInv'
<1>1. CASE UNCHANGED keyVars
  BY <1>1 DEF keyVars, PairInv, BootHolds, PairHolds, Held
<1>2. ASSUME NEW c \in KeyCallers,
             \/ Begin(c, "dbkey", "db")
             \/ \E op \in {"get", "set", "delete"} : Begin(c, op, "secret")
      PROVE  PairInv'
  BY <1>2, BeginFrame, PairFrame
<1>3. ASSUME NEW c \in Calls, CallAction(c) PROVE PairInv'
  <2>1. CASE c = Boot
    BY <1>3, <2>1, BootStepPair
  <2>2. CASE c # Boot
    <3>1. /\ \A n \in {"pub", "priv"} : entry'[n] = entry[n] /\ legacy'[n] = legacy[n]
          /\ call'[Boot] = call[Boot] /\ proc' = proc /\ mem' = mem /\ excused \subseteq excused'
      BY <1>3, <2>2, CallFrame DEF Names, Calls
    <3> QED BY <3>1, PairFrame
  <2> QED BY <2>1, <2>2
<1>4. CASE \/ \E k \in {"software", "enclave"} : Open(k)
           \/ ReadSecret \/ NewSecret \/ WriteSecret \/ SecretFails
  BY <1>4, OpenPair
<1>5. CASE Initialize \/ CreateAdmin \/ CrashKeys
  BY <1>5, BootPair, CrashPair
<1> QED BY <1>1, <1>2, <1>3, <1>4, <1>5 DEF KeysNext, CallAction

\* Whatever crashes and failed writes interrupt a migration or a create, the two
\* halves of the admin key on disk are of one creation (key-manager-compat.ts).
THEOREM AdminPairsMatch == KeysSpec => []AdminPairMatches
<1>1. KeysInit => SecretInv /\ PairInv
  BY SecretStart, PairStart
<1>2. SecretInv /\ PairInv /\ [KeysNext]_keyVars => SecretInv' /\ PairInv'
  BY SecretStep, PairStep
<1>3. SecretInv /\ PairInv => AdminPairMatches
  <2> SUFFICES ASSUME SecretInv, PairInv, entry["pub"].val > 0, entry["priv"].val > 0,
                      "pub" \notin excused
               PROVE  entry["pub"].val = entry["priv"].val
    BY DEF AdminPairMatches
  <2>1. entry["pub"] # NoEntry /\ entry["priv"] # NoEntry
    BY DEF NoEntry, None
  <2> QED BY <2>1 DEF PairInv, PairHolds, Held
<1> QED BY <1>1, <1>2, <1>3, PTL DEF KeysSpec

-----------------------------------------------------------------------------

LEMMA ReadStart == ASSUME KeysInit PROVE ReadInv
<1>1. \A n \in {"db", "secret"} : On(n) = {} /\ entry[n] = NoEntry /\ legacy[n] = acked[n]
  BY DEF KeysInit, On, NoCall, Calls, Names
<1>2. \A n \in {"db", "secret"} : NameHolds(n)
  BY <1>1 DEF NameHolds, NoEntry, None
<1> QED BY <1>2 DEF ReadInv, ReadsLastWrite, KeysInit

\* A step that leaves a name alone.
LEMMA NameFrame ==
  ASSUME NEW n \in {"db", "secret"}, NameHolds(n), entry'[n] = entry[n],
         legacy'[n] = legacy[n], acked'[n] = acked[n],
         \A c \in KeyCallers : (call[c].name = n \/ call'[c].name = n) => call'[c] = call[c]
  PROVE  NameHolds(n)'
<1>1. On(n)' = On(n) /\ \A c \in On(n) : call'[c] = call[c]
  BY DEF On
<1>2. \A c \in On(n) : SoleHolds(n, call[c])'
  BY <1>1 DEF NameHolds, SoleHolds
<1> QED BY <1>1, <1>2 DEF NameHolds

\* The step of the one call on a name.
LEMMA NameStep ==
  ASSUME SecretInv, NEW n \in {"db", "secret"}, NameHolds(n), NEW c \in KeyCallers,
         call[c].name = n \/ On(n) = {},
         \A d \in Calls : d # c => call'[d] = call[d],
         call'[c].name \in {n, "none"},
         call'[c].name = n => SoleHolds(n, call[c])',
         entry'[n].val > 0 => \/ entry'[n].val = acked'[n] \/ (n = "db" /\ acked'[n] = None)
                              \/ (call'[c].name = n /\ call'[c].at = "written"),
         entry'[n] = NoEntry => \/ legacy'[n] = acked'[n]
                                \/ (call'[c].name = n /\ call'[c].at = "unlinked")
  PROVE  NameHolds(n)'
<1>1. On(n)' \subseteq {c}
  BY DEF NameHolds, On, Calls
<1>2. call'[c].name = n => c \in On(n)'
  BY DEF On
<1>3. \A d \in On(n)' : SoleHolds(n, call[d])'
  BY <1>1, <1>2 DEF On
<1> QED BY <1>1, <1>2, <1>3 DEF NameHolds

\* A name a call is on: the call is the only one.
LEMMA SoleCall ==
  ASSUME SecretInv, NEW c \in KeyCallers, NEW n \in {"db", "secret"}, call[c].name = n, NameHolds(n)
  PROVE  /\ On(n) = {c} /\ SoleHolds(n, call[c])
         /\ call[c].at # "written" /\ entry[n].val > 0
               => entry[n].val = acked[n] \/ (n = "db" /\ acked[n] = None)
         /\ call[c].at # "unlinked" /\ entry[n] = NoEntry => legacy[n] = acked[n]
<1>1. c \in On(n)
  BY DEF On
<1>2. On(n) = {c}
  BY <1>1 DEF NameHolds
<1> QED BY <1>1, <1>2 DEF NameHolds

\* A read of a caller that returns v.
LEMMA ReturnRead ==
  ASSUME SecretInv, ReadInv, NEW c \in KeyCallers, call[c].at \in Reading, NEW v \in Int,
         Return(c, v), NEW n \in {"db", "secret"}, n = call[c].name,
         UNCHANGED entry, excused \subseteq excused',
         legacy'[n] = legacy[n] \/ entry[n] # NoEntry,
         n \notin excused =>
             /\ v = Torn \/ v = acked[n] \/ (n = "db" /\ acked[n] = None)
             /\ v = None => entry[n] = NoEntry /\ acked[n] = None
             /\ v = Torn \/ v = None \/ entry[n].val = v
  PROVE  /\ ReadsLastWrite' /\ call'[c].name \in {n, "none"}
         /\ n \notin excused' => NameHolds(n)'
<1>1. /\ KeyTypes /\ c \in Calls /\ c # Boot /\ call[c] \in KeyCall
      /\ CallShape(c, call[c])
  BY BootCaller DEF SecretInv, CallHolds, KeyTypes, Calls
<1>2. CASE /\ call[c].op = "dbkey" /\ call[c].name = "db" /\ v = None
           /\ call' = [call EXCEPT ![c] = [call[c] EXCEPT !.at = "write", !.val = fresh]]
           /\ UNCHANGED <<acked, answers>>
  <2>1. PICK r : r = [call[c] EXCEPT !.at = "write", !.val = fresh]
    OBVIOUS
  <2>2. r.at = "write" /\ r.op = "dbkey" /\ r.name = n
    BY <1>1, <1>2, <2>1 DEF KeyCall
  <2>3. call'[c] = r /\ \A d \in Calls : d # c => call'[d] = call[d]
    BY <1>1, <1>2, <2>1 DEF KeyTypes
  <2>4. ReadsLastWrite'
    BY <1>2 DEF ReadInv, ReadsLastWrite
  <2>5. ASSUME n \notin excused' PROVE NameHolds(n)'
    <3>1. NameHolds(n) /\ entry[n] = NoEntry /\ acked[n] = None /\ entry[n].val = None
      BY <1>2, <2>5 DEF ReadInv, NoEntry
    <3>2. legacy'[n] = acked'[n]
      BY <1>2, <3>1, SoleCall DEF Reading
    <3>3. SoleHolds(n, call[c])'
      BY <1>2, <2>2, <2>3, <3>1 DEF SoleHolds
    <3> QED BY <1>2, <2>2, <2>3, <3>1, <3>2, <3>3, NameStep DEF None
  <2> QED BY <2>2, <2>3, <2>4, <2>5
<1>3. CASE /\ call' = [call EXCEPT ![c] = NoCall]
           /\ \/ call[c].op = "get" /\ call[c].name = "secret"
              \/ call[c].op = "dbkey" /\ call[c].name = "db" /\ v # None
           /\ answers' = IF call[c].name \in excused \/ v = Torn
                            \/ (call[c].op = "dbkey" /\ acked["db"] = None) THEN answers
                         ELSE answers \cup {<<call[c].name, v, acked[call[c].name]>>}
           /\ acked' = IF call[c].op = "dbkey" /\ v # Torn THEN [acked EXCEPT !["db"] = v]
                       ELSE acked
  <2>1. /\ call'[c] = NoCall /\ NoCall.name = "none" /\ NoCall.at = "idle"
        /\ \A d \in Calls : d # c => call'[d] = call[d]
    BY <1>1, <1>3 DEF KeyTypes, NoCall
  <2>2. ReadsLastWrite'
    <3>1. CASE answers' = answers
      BY <3>1 DEF ReadInv, ReadsLastWrite
    <3>2. CASE answers' # answers
      <4>1. /\ answers' = answers \cup {<<n, v, acked[n]>>} /\ n \notin excused /\ v # Torn
            /\ ~(call[c].op = "dbkey" /\ acked["db"] = None)
        BY <1>3, <3>2
      <4>2. v = acked[n]
        BY <1>3, <4>1
      <4> QED BY <4>1, <4>2 DEF ReadInv, ReadsLastWrite
    <3> QED BY <3>1, <3>2
  <2>3. ASSUME n \notin excused' PROVE NameHolds(n)'
    <3>1. NameHolds(n) /\ n \notin excused
      BY <2>3 DEF ReadInv
    <3>2. /\ entry[n].val > 0 => entry[n].val = acked[n] \/ (n = "db" /\ acked[n] = None)
          /\ entry[n] = NoEntry => legacy'[n] = acked[n]
      BY <3>1, SoleCall DEF Reading
    <3>3. CASE acked' = acked
      BY <2>1, <3>1, <3>2, <3>3, NameStep
    <3>4. CASE acked' # acked
      <4>1. /\ n = "db" /\ v # Torn /\ v # None /\ acked' = [acked EXCEPT !["db"] = v]
        BY <1>3, <3>4
      <4>2. acked'[n] = v /\ entry[n].val = v /\ entry[n] # NoEntry
        BY <1>1, <3>1, <4>1 DEF KeyTypes, Names, NoEntry
      <4> QED BY <2>1, <3>1, <4>2, NameStep
    <3> QED BY <3>3, <3>4
  <2> QED BY <2>1, <2>2, <2>3
<1> QED BY <1>1, <1>2, <1>3, ReturnForms

LEMMA CallerStep ==
  ASSUME SecretInv, ReadInv, NEW c \in KeyCallers, CallAction(c),
         NEW n \in {"db", "secret"}, n = call[c].name
  PROVE  /\ ReadsLastWrite' /\ call'[c].name \in {n, "none"}
         /\ n \notin excused' => NameHolds(n)'
<1>1. /\ KeyTypes /\ c \in Calls /\ c # Boot /\ call[c] \in KeyCall
      /\ CallShape(c, call[c]) /\ n \in Names
  BY BootCaller DEF SecretInv, CallHolds, KeyTypes, Calls, Names
<1>2. /\ excused \subseteq excused' /\ \A d \in Calls : d # c => call'[d] = call[d]
  BY <1>1, CallFrame
<1>3. n \notin excused =>
         /\ NameHolds(n) /\ SoleHolds(n, call[c])
         /\ (call[c].at # "written" /\ entry[n].val > 0)
               => (entry[n].val = acked[n] \/ (n = "db" /\ acked[n] = None))
         /\ (call[c].at # "unlinked" /\ entry[n] = NoEntry) => legacy[n] = acked[n]
  BY SoleCall DEF ReadInv
<1>4. ReadsLastWrite
  BY DEF ReadInv
<1>5. NoCall.name = "none" /\ NoCall.at = "idle"
  BY DEF NoCall
<1>6. CASE Read(c)
  <2>1. PICK v : /\ v = Torn \/ (entry[n].val > 0 /\ v = entry[n].val)
                 /\ Return(c, v)
    BY <1>6 DEF Read
  <2>2. UNCHANGED <<entry, legacy>> /\ call[c].at = "read"
    BY <1>6 DEF Read
  <2>3. v \in Int /\ v # None
    BY <1>1, <2>1 DEF KeyTypes, Torn, None
  <2>4. n \notin excused =>
             /\ v = Torn \/ v = acked[n] \/ (n = "db" /\ acked[n] = None)
             /\ v = Torn \/ entry[n].val = v
    BY <1>3, <2>1, <2>2
  <2> QED BY <1>2, <2>1, <2>2, <2>3, <2>4, ReturnRead DEF Reading
<1>7. CASE ReadLegacy(c)
  <2>1. UNCHANGED <<entry, legacy, excused>> /\ call[c].at = "legacy"
    BY <1>7 DEF ReadLegacy
  <2>2. n \notin excused => entry[n] = NoEntry /\ legacy[n] = acked[n]
    BY <1>3, <2>1 DEF SoleHolds
  <2>3. CASE legacy[n] = None
    <3>1. Return(c, None)
      BY <1>7, <2>3 DEF ReadLegacy
    <3> QED BY <2>1, <2>2, <2>3, <3>1, ReturnRead DEF Reading, None
  <2>4. CASE legacy[n] # None
    <3>1. PICK r : r = [call[c] EXCEPT !.at = "migrate", !.val = legacy[n]]
      OBVIOUS
    <3>2. call' = [call EXCEPT ![c] = r] /\ UNCHANGED <<acked, answers>>
      BY <1>7, <2>4, <3>1 DEF ReadLegacy, Set
    <3>3. r.at = "migrate" /\ r.val = legacy[n] /\ r.name = n /\ r.op = call[c].op
      BY <1>1, <3>1 DEF KeyCall
    <3>4. call'[c] = r
      BY <1>1, <3>2 DEF KeyTypes
    <3>5. ReadsLastWrite'
      BY <1>4, <3>2 DEF ReadsLastWrite
    <3>6. ASSUME n \notin excused' PROVE NameHolds(n)'
      <4>1. /\ NameHolds(n) /\ entry'[n] = NoEntry /\ legacy'[n] = acked'[n] /\ r.val = acked'[n]
            /\ entry'[n].val = None
        BY <1>3, <2>1, <2>2, <3>2, <3>3, <3>6 DEF NoEntry
      <4>2. SoleHolds(n, call[c])'
        BY <3>3, <3>4, <4>1 DEF SoleHolds, Storing
      <4> QED BY <1>2, <3>3, <3>4, <4>1, <4>2, NameStep DEF None
    <3> QED BY <3>3, <3>4, <3>5, <3>6
  <2> QED BY <2>3, <2>4
<1>8. CASE VaultSet(c)
  <2>1. PICK r : r = [call[c] EXCEPT !.at = IF @ = "write" THEN "written" ELSE "migrated"]
    OBVIOUS
  <2>2. /\ call[c].at \in {"write", "migrate"} /\ call' = [call EXCEPT ![c] = r]
        /\ entry' = [entry EXCEPT ![n] = [val |-> call[c].val, under |-> proc.cached]]
        /\ UNCHANGED <<legacy, acked, excused, answers>>
    BY <1>8, <2>1 DEF VaultSet, Set, historyVars
  <2>3. /\ r.val = call[c].val /\ r.name = n /\ r.op = call[c].op
        /\ r.at = IF call[c].at = "write" THEN "written" ELSE "migrated"
    BY <1>1, <2>1 DEF KeyCall
  <2>4. call'[c] = r /\ entry'[n].val = r.val
    BY <1>1, <2>2, <2>3 DEF KeyTypes
  <2>5. call[c].val > 0 /\ call[c].val \in Nat
    BY <1>1, <2>2 DEF SecretInv, CallHolds, KeyCall
  <2>6. entry'[n] # NoEntry
    BY <2>3, <2>4, <2>5 DEF NoEntry, None
  <2>7. ReadsLastWrite'
    BY <1>4, <2>2 DEF ReadsLastWrite
  <2>8. ASSUME n \notin excused' PROVE NameHolds(n)'
    <3>1. /\ call[c].at = "migrate" => r.val = acked'[n]
          /\ call[c].op = "dbkey" /\ call[c].at = "write" => acked'[n] = None
      BY <1>3, <2>2, <2>3, <2>8 DEF SoleHolds, Storing
    <3>2. r.at \in {"written", "migrated"} /\ (r.at = "migrated" => call[c].at = "migrate")
      BY <2>2, <2>3
    <3>3. SoleHolds(n, call[c])'
      BY <2>2, <2>3, <2>4, <3>1, <3>2 DEF SoleHolds, Storing
    <3>4. entry'[n].val = acked'[n] \/ call'[c].at = "written"
      BY <2>3, <2>4, <3>1, <3>2
    <3> QED BY <1>2, <1>3, <2>2, <2>3, <2>4, <2>6, <2>8, <3>3, <3>4, NameStep
  <2> QED BY <2>3, <2>4, <2>7, <2>8
<1>9. CASE SetDone(c)
  <2>1. /\ call[c].at \in {"written", "migrated"} /\ UNCHANGED entry
    BY <1>9 DEF SetDone
  <2>2. call[c].val > 0 /\ call[c].val \in Nat /\ call[c].op # "createpriv"
    BY <1>1, <2>1 DEF SecretInv, CallHolds, KeyCall, CallShape
  <2>3. n \notin excused => entry[n].val = call[c].val /\ entry[n] # NoEntry
    BY <1>3, <2>1, <2>2 DEF SoleHolds, NoEntry, None
  <2>4. CASE call[c].at = "migrated"
    <3>1. Return(c, call[c].val)
      BY <1>9, <2>2, <2>4 DEF SetDone
    <3>2. n \notin excused => call[c].val = acked[n]
      BY <1>3, <2>4 DEF SoleHolds
    <3>3. CASE n \notin excused
      BY <1>2, <2>1, <2>2, <2>3, <2>4, <3>1, <3>2, <3>3, ReturnRead DEF Reading, None
    <3>4. CASE n \in excused
      <4>1. \/ /\ call'[c] = NoCall /\ answers' = answers
            \/ /\ call' = [call EXCEPT ![c] = [call[c] EXCEPT !.at = "write", !.val = fresh]]
               /\ answers' = answers
        BY <1>1, <2>4, <3>1, <3>4, ReturnForms DEF Reading, KeyTypes
      <4>2. call'[c].name \in {n, "none"}
        BY <1>1, <1>5, <4>1 DEF KeyTypes, KeyCall
      <4> QED BY <1>2, <1>4, <3>4, <4>1, <4>2 DEF ReadsLastWrite
    <3> QED BY <3>3, <3>4
  <2>5. CASE call[c].at = "written"
    <3>1. /\ call' = [call EXCEPT ![c] = NoCall] /\ acked' = [acked EXCEPT ![n] = call[c].val]
          /\ answers' = answers
      BY <1>9, <2>2, <2>5 DEF SetDone, Set
    <3>2. call'[c] = NoCall /\ acked'[n] = call[c].val
      BY <1>1, <3>1 DEF KeyTypes
    <3>3. ReadsLastWrite'
      BY <1>4, <3>1 DEF ReadsLastWrite
    <3>4. ASSUME n \notin excused' PROVE NameHolds(n)'
      <4>1. n \notin excused
        BY <1>2, <3>4
      <4>2. entry'[n].val = acked'[n] /\ entry'[n] # NoEntry
        BY <2>1, <2>3, <3>2, <4>1
      <4> QED BY <1>2, <1>3, <1>5, <3>2, <4>1, <4>2, NameStep
    <3> QED BY <1>5, <3>2, <3>3, <3>4
  <2> QED BY <2>1, <2>4, <2>5
<1>10. CASE SetFails(c)
  <2>1. call[c].at \in {"write", "migrate"} /\ UNCHANGED <<entry, legacy>>
    BY <1>10 DEF SetFails
  <2>2. CASE call[c].at = "migrate"
    <3>1. Return(c, Torn)
      BY <1>10, <2>2 DEF SetFails
    <3> QED BY <1>2, <2>1, <2>2, <3>1, ReturnRead DEF Reading, Torn, None
  <2>3. CASE call[c].at = "write"
    <3>1. call' = [call EXCEPT ![c] = NoCall] /\ UNCHANGED <<acked, answers>>
      BY <1>10, <2>3 DEF SetFails, Set
    <3>2. call'[c] = NoCall
      BY <1>1, <3>1 DEF KeyTypes
    <3>3. ReadsLastWrite'
      BY <1>4, <3>1 DEF ReadsLastWrite
    <3>4. ASSUME n \notin excused' PROVE NameHolds(n)'
      BY <1>2, <1>3, <1>5, <2>1, <2>3, <3>1, <3>2, <3>4, NameStep
    <3> QED BY <1>5, <3>2, <3>3, <3>4
  <2> QED BY <2>1, <2>2, <2>3
<1>11. CASE VaultDelete(c)
  <2>1. PICK r : r = [call[c] EXCEPT !.at = "unlinked"]
    OBVIOUS
  <2>2. /\ call' = [call EXCEPT ![c] = r] /\ entry' = [entry EXCEPT ![n] = NoEntry]
        /\ UNCHANGED <<legacy, acked, excused, answers>>
    BY <1>11, <2>1 DEF VaultDelete, Set, historyVars
  <2>3. r.name = n /\ r.at = "unlinked"
    BY <1>1, <2>1 DEF KeyCall
  <2>4. call'[c] = r /\ entry'[n] = NoEntry /\ entry'[n].val = None
    BY <1>1, <2>2 DEF KeyTypes, NoEntry
  <2>5. ReadsLastWrite'
    BY <1>4, <2>2 DEF ReadsLastWrite
  <2>6. SoleHolds(n, call[c])'
    BY <2>3, <2>4 DEF SoleHolds, Storing
  <2>7. ASSUME n \notin excused' PROVE NameHolds(n)'
    BY <1>2, <1>3, <2>2, <2>3, <2>4, <2>6, <2>7, NameStep DEF None
  <2> QED BY <2>3, <2>4, <2>5, <2>7
<1>12. CASE DeleteDone(c)
  <2>1. /\ call[c].at = "unlinked" /\ RemoveLegacy(n)
        /\ call' = [call EXCEPT ![c] = NoCall] /\ acked' = [acked EXCEPT ![n] = None]
        /\ UNCHANGED <<entry, answers>>
    BY <1>12 DEF DeleteDone, Set
  <2>2. call'[c] = NoCall /\ acked'[n] = None
    BY <1>1, <2>1 DEF KeyTypes
  <2>3. ReadsLastWrite'
    BY <1>4, <2>1 DEF ReadsLastWrite
  <2>4. ASSUME n \notin excused' PROVE NameHolds(n)'
    <3>1. n \notin excused /\ legacy'[n] = None
      BY <1>1, <1>2, <2>1, <2>4, RemovedLegacy
    <3>2. entry'[n] = NoEntry /\ entry'[n].val = None
      BY <1>3, <2>1, <3>1 DEF SoleHolds, NoEntry
    <3> QED BY <1>2, <1>3, <1>5, <2>2, <3>1, <3>2, NameStep DEF None
  <2> QED BY <1>5, <2>2, <2>3, <2>4
<1> QED BY <1>6, <1>7, <1>8, <1>9, <1>10, <1>11, <1>12 DEF CallAction

LEMMA BeginRead ==
  ASSUME SecretInv, ReadInv, NEW c \in KeyCallers, NEW op, NEW name,
         \/ op = "dbkey" /\ name = "db"
         \/ op \in {"get", "set", "delete"} /\ name = "secret",
         Begin(c, op, name)
  PROVE  ReadInv'
<1>1. PICK r : r = [at |-> CASE op = "set" -> "write" [] op = "delete" -> "unlink"
                             [] OTHER -> Look(name),
                    op |-> op, name |-> name, val |-> IF op = "set" THEN fresh ELSE None]
  OBVIOUS
<1>2. r.at = (IF op = "set" THEN "write" ELSE IF op = "delete" THEN "unlink" ELSE Look(name))
  BY <1>1
<1>3. r.op = op /\ r.name = name
  BY <1>1
<1>4. KeyTypes /\ c \in Calls
  BY DEF SecretInv, Calls
<1>5. /\ call[c] = NoCall /\ call'[c] = r /\ excused' = excused \cup Overlaps(name)
  BY <1>1, <1>4 DEF Begin, Set, KeyTypes
<1>6. /\ UNCHANGED <<entry, legacy, acked, answers>> /\ \A d \in Calls : d # c => call'[d] = call[d]
  BY BeginFrame
<1>7. ASSUME NEW n \in {"db", "secret"} \ excused' PROVE NameHolds(n)'
  <2>1. NameHolds(n)
    BY <1>5, <1>7 DEF ReadInv
  <2>2. CASE n # name
    BY <1>3, <1>5, <1>6, <2>1, <2>2, NameFrame DEF NoCall, Calls
  <2>3. CASE n = name
    <3>1. Overlaps(n) = {}
      BY <1>5, <1>7, <2>3 DEF Overlaps
    <3>2. \A d \in KeyCallers : call[d].name # n
      <4>1. ASSUME NEW d \in KeyCallers, call[d].name = n PROVE FALSE
        <5>1. d \in Calls /\ call[d].at # "idle"
          BY <1>7, <4>1 DEF Calls, SecretInv, CallHolds, CallShape, NoCall, Reading, Storing
        <5> QED BY <3>1, <4>1, <5>1 DEF Overlaps
      <4> QED BY <4>1
    <3>3. On(n) = {}
      BY <3>2 DEF On
    <3>4. /\ entry[n].val > 0 => entry[n].val = acked[n] \/ (n = "db" /\ acked[n] = None)
          /\ entry[n] = NoEntry => legacy[n] = acked[n]
      BY <2>1, <3>3 DEF NameHolds
    <3>5. SoleHolds(n, call[c])'
      BY <1>2, <1>3, <1>5, <1>6, <2>3 DEF SoleHolds, Look, Storing
    <3>6. call'[c].name = n
      BY <1>3, <1>5, <2>3
    <3> QED BY <1>6, <1>7, <2>1, <3>3, <3>4, <3>5, <3>6, NameStep
  <2> QED BY <2>2, <2>3
<1>8. ReadsLastWrite'
  BY <1>6 DEF ReadInv, ReadsLastWrite
<1> QED BY <1>7, <1>8 DEF ReadInv

LEMMA StepRead == ASSUME SecretInv, ReadInv, NEW c \in Calls, CallAction(c) PROVE ReadInv'
<1>1. /\ \A n \in Names \ {call[c].name} : entry'[n] = entry[n] /\ legacy'[n] = legacy[n]
      /\ \A d \in Calls : d # c => call'[d] = call[d]
      /\ excused \subseteq excused'
  BY CallFrame
<1>2. CASE c = Boot
  <2>1. /\ answers' = answers /\ call[c].name \in {"pub", "priv"}
        /\ acked'["db"] = acked["db"] /\ acked'["secret"] = acked["secret"]
    BY <1>2, CallFrame
  <2>2. ASSUME NEW n \in {"db", "secret"} \ excused' PROVE NameHolds(n)'
    <3>1. NameHolds(n) /\ entry'[n] = entry[n] /\ legacy'[n] = legacy[n] /\ acked'[n] = acked[n]
      BY <1>1, <2>1, <2>2 DEF ReadInv, Names
    <3>2. \A d \in KeyCallers : call'[d] = call[d]
      BY <1>1, <1>2, BootCaller DEF Calls
    <3> QED BY <3>1, <3>2, NameFrame
  <2> QED BY <2>1, <2>2 DEF ReadInv, ReadsLastWrite
<1>3. CASE c # Boot
  <2>1. PICK m \in {"db", "secret"} : m = call[c].name
    BY <1>3, CallFrame
  <2>2. c \in KeyCallers /\ \A n \in Names \ {m} : acked'[n] = acked[n]
    BY <1>3, <2>1, CallFrame DEF Calls
  <2>3. /\ ReadsLastWrite' /\ call'[c].name \in {m, "none"}
        /\ m \notin excused' => NameHolds(m)'
    BY <2>1, <2>2, CallerStep
  <2>4. ASSUME NEW n \in {"db", "secret"} \ excused', n # m PROVE NameHolds(n)'
    <3>1. NameHolds(n) /\ entry'[n] = entry[n] /\ legacy'[n] = legacy[n] /\ acked'[n] = acked[n]
      BY <1>1, <2>1, <2>2, <2>4 DEF ReadInv, Names
    <3>2. \A d \in KeyCallers : (call[d].name = n \/ call'[d].name = n) => call'[d] = call[d]
      BY <1>1, <2>1, <2>3, <2>4 DEF Calls
    <3> QED BY <3>1, <3>2, NameFrame
  <2> QED BY <2>3, <2>4 DEF ReadInv
<1> QED BY <1>2, <1>3

LEMMA CrashRead == ASSUME SecretInv, ReadInv, CrashKeys PROVE ReadInv'
<1>1. PICK torn \in SUBSET Writing :
          entry' = [n \in Names |-> IF n \in torn THEN [val |-> Torn, under |-> proc.cached]
                                    ELSE entry[n]]
  BY DEF CrashKeys
<1>2. /\ call' = [c \in Calls |-> NoCall] /\ UNCHANGED <<legacy, acked, answers>>
      /\ excused' = excused \cup
           {call[c].name : c \in {d \in Calls : call[d].at # "idle"
                                                /\ call[d].op \in {"set", "delete"}}}
  BY DEF CrashKeys
<1>3. ASSUME NEW n \in {"db", "secret"} \ excused' PROVE NameHolds(n)'
  <2>1. NameHolds(n)
    BY <1>2, <1>3 DEF ReadInv
  <2>2. On(n)' = {}
    BY <1>2, <1>3 DEF On, NoCall, Calls
  <2>3. ASSUME NEW c \in On(n)
        PROVE  /\ call[c].at # "unlinked"
               /\ call[c].at = "written" => n = "db" /\ acked[n] = None
    <3>1. c \in Calls /\ c # Boot /\ call[c].name = n /\ CallShape(c, call[c])
      BY BootCaller DEF On, Calls, SecretInv, CallHolds
    <3>2. call[c].at # "idle" => call[c].op \notin {"set", "delete"}
      BY <1>2, <1>3, <3>1
    <3>3. SoleHolds(n, call[c])
      BY <2>1 DEF NameHolds
    <3> QED BY <1>3, <3>1, <3>2, <3>3 DEF CallShape, SoleHolds, Reading, Storing, NoCall
  <2>4. CASE n \in torn
    <3>1. entry'[n].val = Torn
      BY <1>1, <1>3, <2>4 DEF Names
    <3> QED BY <2>2, <3>1 DEF NameHolds, NoEntry, Torn, None
  <2>5. CASE n \notin torn
    <3>1. entry'[n] = entry[n]
      BY <1>1, <1>3, <2>5 DEF Names
    <3> QED BY <1>2, <2>1, <2>2, <2>3, <3>1 DEF NameHolds
  <2> QED BY <2>4, <2>5
<1> QED BY <1>2, <1>3 DEF ReadInv, ReadsLastWrite

LEMMA ReadStep == ASSUME SecretInv, ReadInv, [KeysNext]_keyVars PROVE ReadInv'
<1>1. ASSUME UNCHANGED <<entry, legacy, acked, excused, answers>>,
             \A c \in KeyCallers : call'[c] = call[c]
      PROVE  ReadInv'
  BY <1>1, NameFrame DEF ReadInv, ReadsLastWrite
<1>2. CASE UNCHANGED keyVars
  BY <1>1, <1>2 DEF keyVars
<1>3. ASSUME NEW c \in KeyCallers,
             \/ Begin(c, "dbkey", "db")
             \/ \E op \in {"get", "set", "delete"} : Begin(c, op, "secret")
      PROVE  ReadInv'
  BY <1>3, BeginRead
<1>4. ASSUME NEW c \in Calls, CallAction(c) PROVE ReadInv'
  BY <1>4, StepRead
<1>5. CASE \/ \E k \in {"software", "enclave"} : Open(k)
           \/ ReadSecret \/ NewSecret \/ WriteSecret \/ SecretFails
  <2>1. UNCHANGED <<entry, legacy, call, acked, excused, answers>>
    BY <1>5 DEF Open, ReadSecret, NewSecret, WriteSecret, SecretFails, historyVars
  <2> QED BY <1>1, <2>1
<1>6. CASE Initialize \/ CreateAdmin
  <2>1. UNCHANGED <<entry, legacy, acked, excused, answers>>
    BY <1>6 DEF Initialize, CreateAdmin, historyVars
  <2>2. \A c \in KeyCallers : call'[c] = call[c]
    BY <1>6, BootCaller DEF Initialize, CreateAdmin, Set, SecretInv, KeyTypes, Calls
  <2> QED BY <1>1, <2>1, <2>2
<1>7. CASE CrashKeys
  BY <1>7, CrashRead
<1> QED BY <1>2, <1>3, <1>4, <1>5, <1>6, <1>7 DEF KeysNext, CallAction

\* A read answers the value last acknowledged, from the vault, the legacy
\* directory or a migration, across crashes at any step (vault.ts,
\* key-manager-compat.ts), for names whose calls do not overlap.
THEOREM ReadsAreLastWrites == KeysSpec => []ReadsLastWrite
<1>1. KeysInit => SecretInv /\ ReadInv
  BY SecretStart, ReadStart
<1>2. SecretInv /\ ReadInv /\ [KeysNext]_keyVars => SecretInv' /\ ReadInv'
  BY SecretStep, ReadStep
<1>3. ReadInv => ReadsLastWrite
  BY DEF ReadInv
<1> QED BY <1>1, <1>2, <1>3, PTL DEF KeysSpec
=============================================================================
