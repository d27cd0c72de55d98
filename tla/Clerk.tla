------------------------------- MODULE Clerk -------------------------------
(***************************************************************************)
(* The clients of the sharded key/value service: shardkv.Clerk with the    *)
(* shardctrler.Clerk it owns, every RPC of which is coded by labgob.       *)
(*                                                                         *)
(* An operation is a loop over the servers that may answer it.  Each turn  *)
(* declares a fresh reply, calls one server, and looks at the reply to     *)
(* return, to give the group up, or to go on.  When no server is left the  *)
(* clerk sleeps; a shardkv operation then asks the controller for the      *)
(* newest configuration and begins again with the group that owns the key  *)
(* there.  A Query made for that purpose runs inside the operation.        *)
(*                                                                         *)
(* The handlers in shardkv/server.go and shardctrler/server.go are empty,  *)
(* so the servers are external: a server may send any of ServerReplies,    *)
(* the reply an empty handler leaves included, and a call may fail.  The   *)
(* type checks of labgob also run in the goroutines of Tester, which       *)
(* encode the values of labgob's TestCapital.                              *)
(***************************************************************************)
EXTENDS Labgob

CONSTANTS
    NShards,       \* the number of shards
    Keys,          \* the keys: the code of the first byte, 0 for the empty key
    ctrlers,       \* the controller's servers, a sequence
    Configs,       \* the configurations the controller may send
    Values,        \* the values a Get may be answered with, "" among them
    Client,        \* the goroutine of the client
    Tester,        \* the goroutines that encode TesterTypes
    TesterTypes,   \* the types a tester encodes, a sequence
    None,
    MaxOps,        \* bound on the client's operations
    MaxBad         \* bound on the failed calls and unhelpful replies

VARIABLES
    op,        \* the client's operation, None between operations
    key,       \* the key of a shardkv operation
    config,    \* ck.config
    method,    \* the RPC the running loop makes
    si,        \* the position in the loop over the servers
    phase,     \* where in the loop the client is
    reply,     \* the variable reply of the turn
    wire,      \* the reply the server sent
    refused,   \* ErrWrongGroup was answered under ck.config
    tested,    \* per tester, how many of TesterTypes it has begun to encode
    ops, bad   \* counted against the bounds

clerkVars == <<op, key, config, method, si, phase, reply, wire, refused, ops, bad>>
vars == <<labgobVars, clerkVars, tested>>

KVMethods == {"Get", "PutAppend"}
CtrlMethods == {"Query", "Join", "Leave", "Move"}

(***************************************************************************)
(* The Go types of the arguments and of the replies.  The replies of Join, *)
(* Leave and Move have one shape and are one type here; so are both Err.   *)
(***************************************************************************)
Struct(fields) == [kind |-> "struct", fields |-> fields]
Field(n, t) == [name |-> n, upper |-> TRUE, type |-> t]

PlainTypes ==
    [ int |-> [kind |-> "scalar", zero |-> 0],
      bool |-> [kind |-> "scalar", zero |-> FALSE],
      string |-> [kind |-> "scalar", zero |-> ""],
      Err |-> [kind |-> "scalar", zero |-> ""],
      strings |-> [kind |-> "slice", elem |-> "string"],
      ints |-> [kind |-> "slice", elem |-> "int"],
      shards |-> [kind |-> "array", elem |-> "int", len |-> NShards],
      groups |-> [kind |-> "map", key |-> "int", elem |-> "strings"],
      Config |-> Struct(<<Field("Num", "int"), Field("Shards", "shards"),
                          Field("Groups", "groups")>>),
      JoinArgs |-> Struct(<<Field("Servers", "groups")>>),
      LeaveArgs |-> Struct(<<Field("GIDs", "ints")>>),
      MoveArgs |-> Struct(<<Field("Shard", "int"), Field("GID", "int")>>),
      QueryArgs |-> Struct(<<Field("Num", "int")>>),
      CtrlReply |-> Struct(<<Field("WrongLeader", "bool"), Field("Err", "Err")>>),
      QueryReply |-> Struct(<<Field("WrongLeader", "bool"), Field("Err", "Err"),
                              Field("Config", "Config")>>) ]

ServiceTypes ==
    [ GetArgs |-> Struct(<<Field("Key", "string")>>),
      PutAppendArgs |-> Struct(<<Field("Key", "string"), Field("Value", "string"),
                                 Field("Op", "string")>>),
      GetReply |-> Struct(<<Field("Err", "Err"), Field("Value", "string")>>),
      PutAppendReply |-> Struct(<<Field("Err", "Err")>>) ]

Ptr(t) == "*" \o t
RPCTypes ==
    LET plain == PlainTypes @@ ServiceTypes
    IN  plain @@ [p \in {Ptr(t) : t \in DOMAIN plain} |->
            [kind |-> "ptr", elem |-> CHOOSE t \in DOMAIN plain : Ptr(t) = p]]

ArgsType(m) == CASE m = "Get" -> "GetArgs"   [] m = "PutAppend" -> "PutAppendArgs"
                 [] m = "Query" -> "QueryArgs" [] m = "Join" -> "JoinArgs"
                 [] m = "Leave" -> "LeaveArgs" [] m = "Move" -> "MoveArgs"

ReplyType(m) == CASE m = "Get" -> "GetReply" [] m = "PutAppend" -> "PutAppendReply"
                  [] m = "Query" -> "QueryReply" [] OTHER -> "CtrlReply"

(***************************************************************************)
(* The loops.                                                              *)
(***************************************************************************)
key2shard(k) == k % NShards

Servers(m) ==
    IF m \in CtrlMethods THEN ctrlers
    ELSE LET gid == config.Shards[key2shard(key)]
         IN  IF gid \in DOMAIN config.Groups THEN config.Groups[gid] ELSE <<>>

\* The reply ends the loop.
Final(m, r) ==
    CASE m = "Get" -> r.Err \in {"OK", "ErrNoKey"}
      [] m = "PutAppend" -> r.Err = "OK"
      [] OTHER -> ~r.WrongLeader

\* The reply makes the clerk leave the group.
GivesUp(m, r) == m \in KVMethods /\ r.Err = "ErrWrongGroup"

\* External: what a server may answer, and the answers that get the client on.
ServerReplies(m) ==
    CASE m = "Get" ->
            [Err : {"", "OK", "ErrNoKey", "ErrWrongGroup", "ErrWrongLeader"}, Value : Values]
      [] m = "PutAppend" ->
            [Err : {"", "OK", "ErrWrongGroup", "ErrWrongLeader"}]
      [] m = "Query" ->
            [WrongLeader : BOOLEAN, Err : {""}, Config : Configs \cup {Zero("Config")}]
      [] OTHER -> [WrongLeader : BOOLEAN, Err : {"", "OK"}]

Helpful(m, r) ==
    /\ Final(m, r)
    /\ m = "Query" => /\ DOMAIN r.Config.Groups # {}
                      /\ \A s \in 0..(NShards - 1) :
                            r.Config.Shards[s] \in DOMAIN r.Config.Groups

\* Bound: a behaviour has the client's operations or the testers' encodings.
Init ==
    /\ LabgobInit
    /\ op = None /\ key = (CHOOSE k \in Keys : TRUE) /\ config = Zero("Config")
    /\ method = None /\ si = 1 /\ phase = "idle"
    /\ reply = None /\ wire = None /\ refused = FALSE
    /\ bad = 0
    /\ \/ ops = 0 /\ tested = [t \in Tester |-> Len(TesterTypes)]
       \/ ops = MaxOps /\ tested = [t \in Tester |-> 0]

\* The client calls operation m: its loop, which all operations share but for
\* Servers, Final, GivesUp and Sleep, begins with the first server.
Begin(m) ==
    /\ phase = "idle" /\ ops < MaxOps
    /\ op' = m /\ method' = m /\ si' = 1 /\ phase' = "loop" /\ ops' = ops + 1
    /\ UNCHANGED <<labgobVars, config, reply, wire, refused, tested, bad>>

Get(k) == Begin("Get") /\ key' = k
PutAppend(k) == Begin("PutAppend") /\ key' = k
Query == Begin("Query") /\ UNCHANGED key
Join == Begin("Join") /\ UNCHANGED key
Leave == Begin("Leave") /\ UNCHANGED key
Move == Begin("Move") /\ UNCHANGED key

\* var reply ...; srv.Call(...), as far as checkValue(args) in Encode.
\* Mutant: reply is declared before the loop over the servers.
CallServerReuse ==
    /\ phase = "loop" /\ si <= Len(Servers(method))
    /\ reply' = IF si = 1 THEN Zero(ReplyType(method)) ELSE reply
    /\ phase' = "encode"
    /\ checkValue(Client, Ptr(ArgsType(method)))
    /\ UNCHANGED <<checked, errorCount, op, key, config, method, si, wire, refused,
                   tested, ops, bad>>

CallServer ==
    /\ phase = "loop" /\ si <= Len(Servers(method))
    /\ reply' = Zero(ReplyType(method))
    /\ phase' = "encode"
    /\ checkValue(Client, Ptr(ArgsType(method)))
    /\ UNCHANGED <<checked, errorCount, op, key, config, method, si, wire, refused,
                   tested, ops, bad>>

\* Call sends the request once Encode is done.
Send ==
    /\ phase = "encode" /\ todo[Client] = <<>>
    /\ phase' = "sent"
    /\ UNCHANGED <<labgobVars, op, key, config, method, si, reply, wire, refused,
                   tested, ops, bad>>

\* External: the server's reply comes, and Call begins to decode it.
Receive ==
    /\ phase = "sent"
    /\ wire' \in ServerReplies(method)
    /\ bad' = IF Helpful(method, wire') THEN bad ELSE bad + 1
    /\ bad' <= MaxBad
    /\ phase' = "decode"
    /\ checkValue(Client, Ptr(ReplyType(method)))
    /\ UNCHANGED <<checked, errorCount, op, key, config, method, si, reply, refused,
                   tested, ops>>

\* External: Call returns false; the loop goes on.
CallFails ==
    /\ phase = "sent" /\ bad < MaxBad
    /\ bad' = bad + 1
    /\ si' = si + 1 /\ phase' = "loop"
    /\ UNCHANGED <<labgobVars, op, key, config, method, reply, wire, refused, tested, ops>>

\* The rest of LabDecoder.Decode: checkDefault, then gob's Decode.
Decode ==
    /\ phase = "decode" /\ todo[Client] = <<>>
    /\ errorCount' = errorCount + checkDefault(Ptr(ReplyType(method)), reply)
    /\ reply' = Decoded(ReplyType(method), reply, wire)
    /\ phase' = "test"
    /\ UNCHANGED <<checked, todo, op, key, config, method, si, wire, refused,
                   tested, ops, bad>>

\* The reply is final and the operation returns.
Return ==
    /\ phase = "test" /\ Final(method, reply) /\ method = op
    /\ op' = None /\ method' = None /\ phase' = "idle"
    /\ UNCHANGED <<labgobVars, key, config, si, reply, wire, refused, tested, ops, bad>>

\* ck.config = ck.sm.Query(-1), and the operation's loop begins again.
\* Mutant: the loop goes on where it was.
NewConfigSameTurn ==
    /\ phase = "test" /\ Final(method, reply) /\ method # op
    /\ config' = reply.Config /\ refused' = FALSE
    /\ method' = op /\ phase' = "loop"
    /\ UNCHANGED <<labgobVars, op, key, si, reply, wire, tested, ops, bad>>

NewConfig ==
    /\ phase = "test" /\ Final(method, reply) /\ method # op
    /\ config' = reply.Config /\ refused' = FALSE
    /\ method' = op /\ si' = 1 /\ phase' = "loop"
    /\ UNCHANGED <<labgobVars, op, key, reply, wire, tested, ops, bad>>

\* ErrWrongGroup: break out of the loop over the group's servers.
\* Mutant: continue instead of break.
WrongGroupContinue ==
    /\ phase = "test" /\ GivesUp(method, reply)
    /\ refused' = TRUE
    /\ phase' = "loop" /\ si' = si + 1
    /\ UNCHANGED <<labgobVars, op, key, config, method, reply, wire, tested, ops, bad>>

WrongGroup ==
    /\ phase = "test" /\ GivesUp(method, reply)
    /\ refused' = TRUE
    /\ phase' = "sleep"
    /\ UNCHANGED <<labgobVars, op, key, config, method, si, reply, wire, tested, ops, bad>>

\* Neither: the next server is tried.
NextServer ==
    /\ phase = "test" /\ ~Final(method, reply) /\ ~GivesUp(method, reply)
    /\ si' = si + 1 /\ phase' = "loop"
    /\ UNCHANGED <<labgobVars, op, key, config, method, reply, wire, refused,
                   tested, ops, bad>>

\* No server is left.
EndOfServers ==
    /\ phase = "loop" /\ si > Len(Servers(method))
    /\ phase' = "sleep"
    /\ UNCHANGED <<labgobVars, op, key, config, method, si, reply, wire, refused,
                   tested, ops, bad>>

\* After the sleep a shardkv operation asks for the newest configuration; an
\* operation of the controller's clerk begins with the first server again.
\* Mutant: the configuration is only asked for when a group refused.
SleepKeepsConfig ==
    /\ phase = "sleep"
    /\ method' = IF method \in KVMethods /\ refused THEN "Query" ELSE method
    /\ si' = 1 /\ phase' = "loop"
    /\ UNCHANGED <<labgobVars, op, key, config, reply, wire, refused, tested, ops, bad>>

Sleep ==
    /\ phase = "sleep"
    /\ method' = IF method \in KVMethods THEN "Query" ELSE method
    /\ si' = 1 /\ phase' = "loop"
    /\ UNCHANGED <<labgobVars, op, key, config, reply, wire, refused, tested, ops, bad>>

\* A tester's next Encode begins.
Encode(t) ==
    /\ todo[t] = <<>> /\ tested[t] < Len(TesterTypes)
    /\ tested' = [tested EXCEPT ![t] = @ + 1]
    /\ checkValue(t, TesterTypes[tested'[t]])
    /\ UNCHANGED <<checked, errorCount, clerkVars>>

Check(g) == checkStep(g) /\ UNCHANGED <<clerkVars, tested>>

ClientStep ==
    \/ CallServer \/ Send \/ Receive \/ CallFails \/ Decode
    \/ Return \/ NewConfig \/ WrongGroup \/ NextServer \/ EndOfServers \/ Sleep
    \/ Check(Client)

TesterStep(t) == Encode(t) \/ Check(t)

Invoke == (\E k \in Keys : Get(k) \/ PutAppend(k)) \/ Query \/ Join \/ Leave \/ Move

Next == Invoke \/ ClientStep \/ \E t \in Tester : TesterStep(t)

\* The client's goroutine runs on, and a call it made returns.
Spec == Init /\ [][Next]_vars /\ WF_vars(ClientStep)

-----------------------------------------------------------------------------
\* The variables keep to their types; the loop never passes the end of the
\* servers of the configuration it runs under by more than one.
TypeOK ==
    /\ checked \subseteq DOMAIN TypeOf /\ errorCount \in Nat
    /\ op \in KVMethods \cup CtrlMethods \cup {None}
    /\ method \in {op, "Query"}
    /\ phase \in {"idle", "loop", "encode", "sent", "decode", "test", "sleep"}
    /\ config \in Configs \cup {Zero("Config")}
    /\ phase \in {"loop", "encode", "sent", "decode", "test"} =>
           si \in 1..(Len(Servers(method)) + 1)

\* The reply a clerk looks at is exactly the one the server sent in this very
\* call, although gob does not send the fields that have the zero value:
\* WrongLeader == false and an empty Value reach the clerk because every turn
\* of the loop declares its own reply (client.go, var reply).
ReplyIsAnswer == phase = "test" => reply = wire

\* labgob counts each lower-case field of each type seen exactly once, however
\* the goroutines interleave ("only complain once", labgob.go:76), and the
\* clerks never make it complain of decoding into a non-default variable.
ComplainOnce ==
    /\ errorCount + Cardinality(UNION {Pending(g) : g \in Goroutine})
           = Cardinality(LowerCase(checked))
    /\ \A g, h \in Goroutine : g # h => Pending(g) \cap Pending(h) = {}

\* After ErrWrongGroup no server is sent a shardkv request before the clerk has
\* fetched a configuration (the break in Get and PutAppend).
RefusedGroupLeft ==
    refused /\ method \in KVMethods => phase \notin {"encode", "sent", "decode"}

\* An operation returns once the servers answer: "keeps trying forever in the
\* face of all other errors" (shardkv/client.go:65), a stale configuration, a
\* group that is gone and a server that is not the leader included.
OpReturns == op # None ~> op = None

=============================================================================
