---------------------------- MODULE MCLocalStore ----------------------------
(* Small instances of LocalStore for TLC. *)
EXTENDS LocalStore, TLC

CONSTANTS c1, c2, c3

\* Keys "a", "ab", "b" under the prefix "", and "c".
MCUnder == 0 :> {1, 2, 3} @@ 1 :> {1, 2} @@ 2 :> {2} @@ 3 :> {3} @@ 4 :> {4}

One(call, k, delta) == <<[call |-> call, key |-> k, delta |-> delta]>>
Put(k, v) == <<[call |-> "Set", key |-> k, val |-> v]>>
DelAll    == <<[call |-> "DeleteByPrefix", prefix |-> 0]>>

Field(f) == f :> TRUE

Calls(p1, p2, p3) == c1 :> p1 @@ c2 :> p2 @@ c3 :> p3

MCStored == 1 :> Number(2) @@ 2 :> Object("json", Field("f")) @@ 4 :> Null

MCPlans ==
  {Calls(One("IncrBy", 1, 1), One("DecrBy", 1, 2), One("IncrBy", 1, 1) \o Put(3, Null)),
   Calls(One("UpdateJson", 2, Field("g")), One("UpdateJson", 2, Field("h")), One("Delete", 2, 0)),
   Calls(DelAll, Put(3, Number(0)), One("IncrBy", 3, 1) \o One("IncrBy", 1, 1)),
   Calls(One("UpdateProtobuf", 3, Field("f")), One("UpdateProtobuf", 3, Field("g")) \o DelAll, DelAll),
   Calls(One("UpdateJson", 4, Field("g")), One("UpdateProtobuf", 2, Field("f")), One("DecrBy", 2, 1)),
   Calls(One("Delete", 1, 0), One("Delete", 2, 0) \o Put(3, Null), Put(1, Null))}
=============================================================================
