------------------------------ MODULE MCClerk ------------------------------
(***************************************************************************)
(* Clerk with two groups of different sizes, two controllers, and two      *)
(* goroutines that encode the types of labgob's TestCapital.               *)
(***************************************************************************)
EXTENDS Clerk

TestTypes ==
    [ T4 |-> [kind |-> "struct", fields |->
                 <<[name |-> "Yes", upper |-> TRUE, type |-> "int"],
                   [name |-> "no", upper |-> FALSE, type |-> "int"]>>],
      PtrT4 |-> [kind |-> "ptr", elem |-> "T4"],
      MapPtrT4 |-> [kind |-> "map", key |-> "PtrT4", elem |-> "int"],
      MapT4 |-> [kind |-> "map", key |-> "T4", elem |-> "int"],
      MapsPtrT4 |-> [kind |-> "slice", elem |-> "MapPtrT4"],
      MapsT4 |-> [kind |-> "slice", elem |-> "MapT4"],
      PtrMapsT4 |-> [kind |-> "ptr", elem |-> "MapsT4"] ]

AllTypes == RPCTypes @@ TestTypes
TestCapital == <<"MapsPtrT4", "PtrMapsT4">>
Goroutines == {Client} \cup Tester
Controllers == <<"c0", "c1">>

OneGroup == [Num |-> 1, Shards |-> [s \in 0..(NShards - 1) |-> 1],
             Groups |-> (1 :> <<"a">>)]
TwoGroups == [Num |-> 2, Shards |-> [s \in 0..(NShards - 1) |-> (s % 2) + 1],
              Groups |-> (1 :> <<"a">>) @@ (2 :> <<"b", "c">>)]
SomeConfigs == {OneGroup, TwoGroups}
=============================================================================
