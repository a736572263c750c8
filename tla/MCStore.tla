------------------------------ MODULE MCStore ------------------------------
(* Small instances of Store for TLC. *)
EXTENDS Store, TLC

CONSTANTS c1, c2, c3

\* Keys "a1" and "a2" under the prefix "a", which is 0.
MCUnder == 0 :> {1, 2} @@ 1 :> {1} @@ 2 :> {2}

Get(k)  == [how |-> "get", key |-> k]
Scan(p) == [how |-> "scan", prefix |-> p]
Del(p)  == [how |-> "delete", prefix |-> p]

Set    == NewSetCommand(1, Number(1), FALSE)
Temp   == NewSetCommand(2, Number(1), TRUE)
SetNull == NewSetCommand(1, Null, FALSE)
Incr   == NewIncrByCommand(1, 1)
Incr2  == NewIncrByCommand(2, 1)
DelAll == NewDeleteByPrefixCommand(0)

Empty     == NewTransaction(<<>>, <<>>)
Poison    == NewTransaction(<<Del(0)>>, <<DelAll>>)
Batch     == NewTransaction(<<>>, <<Incr, Incr, Incr>>)

\* What the clients c1, c2 and c3 call.
Calls(p1, p2, p3) == c1 :> p1 @@ c2 :> p2 @@ c3 :> p3

MCPlans ==
  {Calls(WriteCall(Incr), WriteCall(DelAll), NewTransaction(<<Get(1)>>, <<Incr>>)),
   Calls(WriteCall(Incr), WriteCall(Temp), NewTransaction(<<Scan(0)>>, <<Incr2>>)),
   Calls(Poison, Batch, NewTransaction(<<Get(1)>>, <<Set, Incr2>>)),
   Calls(WriteCall(SetNull), Empty, WriteCall(Incr))}

MCIncrements == {Calls(WriteCall(Incr), WriteCall(Incr), WriteCall(Incr))}
=============================================================================
