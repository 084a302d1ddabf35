---------------------------- MODULE MCWsServer ----------------------------
(***************************************************************************)
(* Small instances of WsServer.  In Narrowing the last version of a policy *)
(* hides the event, so that projecting with the wrong version shows.       *)
(***************************************************************************)
EXTENDS WsServer

CONSTANTS c1, c2, k1, e1, r1, r2

OneConn == {c1}
TwoConns == {c1, c2}
OneCred == {k1}
OneEvent == {e1}
OneReq == {r1}
NoReqs == {}
SomeKinds == {"send", "update", "bad"}
AllVisible == [v \in 0..MaxVer |-> Events]

\* On buffers as sequencing fills them, ItemsSince is the filter of the code.
ASSUME ItemsSinceFilters ==
  \A n \in 0..3, first \in 1..3, last \in 0..6 :
    LET buf == [i \in 1..n |-> [seq |-> first + i - 1]]
    IN  ItemsSince([buf |-> buf], last) = SelectSeq(buf, LAMBDA f : f.seq > last)

Narrowing == [v \in 0..MaxVer |-> IF v = 2 THEN {} ELSE Events]
=============================================================================
