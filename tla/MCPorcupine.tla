---------------------------- MODULE MCPorcupine ----------------------------
(***************************************************************************)
(* Histories of up to four operations on two keys, with their calls and    *)
(* returns at all times up to a bound.                                     *)
(***************************************************************************)
EXTENDS Porcupine

Put(k, v) == [key |-> k, op |-> "put", value |-> v, out |-> <<>>]
App(k, v) == [key |-> k, op |-> "append", value |-> v, out |-> <<>>]
Get(k, v) == [key |-> k, op |-> "get", value |-> <<>>, out |-> v]

a == <<"a">>
b == <<"b">>

\* Calls and returns at times 1..T, in all ways.
Timings(ops, T) ==
  {[i \in DOMAIN ops |-> [key |-> ops[i].key, op |-> ops[i].op, value |-> ops[i].value,
                          out |-> ops[i].out, Call |-> t[i][1], Return |-> t[i][2]]] :
     t \in [DOMAIN ops -> {x \in (1..T) \X (1..T) : x[1] <= x[2]}]}

Small ==
  {<<>>}
  \union UNION {Timings(ops, 3) : ops \in
    {<<Put(1, a), Put(1, a), Get(1, b)>>,
     <<Put(1, a), App(1, b), Get(1, b)>>,
     <<Get(1, b \o a), App(1, b), App(1, a)>>}}
  \union UNION {Timings(ops, 2) : ops \in
    {<<Put(1, a), Get(1, <<>>), Get(2, a)>>,
     <<Get(1, <<>>), Put(2, a), Get(2, <<>>)>>,
     <<Put(1, a), Put(1, b), Get(1, a), Get(1, b)>>}}

=============================================================================
