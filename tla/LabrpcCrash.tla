---------------------------- MODULE LabrpcCrash ----------------------------
(***************************************************************************)
(* The network of Labrpc under the test harness of raft/config.go: servers *)
(* are disconnected, connected, crashed and started again while calls are  *)
(* under way.  A crashed instance is not really stopped: its goroutines    *)
(* may still send calls, execute handlers and save.                        *)
(*                                                                         *)
(* A handler saves its call in the Persister of its instance before it     *)
(* returns, as every handler of raft.go that promises something does.      *)
(* Steps of the harness on objects that nobody else holds yet are one      *)
(* step.                                                                   *)
(***************************************************************************)
EXTENDS Labrpc, Sequences, FiniteSets

CONSTANT MaxCrash   \* bound on the calls of crash1 and start1

N == Cardinality(Server)

ASSUME ServerAssumption == N \in Nat /\ Server = 1..N

\* endnames[i][j], drawn afresh by every start1 of i: its g-th draw.
Ends == Server \X (1..MaxServer) \X Server

ASSUME EndAssumption == End = Ends /\ MaxServer \in Nat \ {0}

VARIABLES
  connected,   \* cfg.connected
  endnames,    \* which draw of names cfg.endnames holds
  procs,       \* the instances of each server: their ends and their Persister
  persisters,  \* all Persister objects: what was saved in them
  saved,       \* cfg.saved
  booted,      \* what the last Make of each server read
  test,        \* the goroutine of the test: step, server, Enables left
  late,        \* calls sent by an instance that was replaced
  crashes      \* crash1 and start1 called so far

cfgVars == <<connected, endnames, procs, persisters, saved, booted, test, crashes>>
vars == <<rpcVars, cfgVars, late>>

Idle == [step |-> "idle", i |-> 1, todo |-> <<>>, then |-> "idle"]

\* Mutant of Copy: the old instance's Persister is handed on.
CopyShared(s) == UNCHANGED <<persisters, saved>>

\* A new Persister with the content of the saved one.
Copy(s) ==
  /\ persisters' = Append(persisters, persisters[saved[s]])
  /\ saved' = [saved EXCEPT ![s] = Len(persisters) + 1]

\* The peers of a loop, from the first server to the last.
InOrder(peers) ==
  {q \in [1..Cardinality(peers) -> peers] :
     /\ \A j \in peers : \E x \in DOMAIN q : q[x] = j
     /\ \A x, y \in DOMAIN q : x < y => q[x] < q[y]}

\* Mutant of Toggles: only the ends of the others.
TogglesIncoming(i, others, on) ==
  [x \in 1..Len(others) |-> [end |-> <<others[x], endnames[others[x]], i>>, on |-> on]]

\* The Enables of connect and disconnect: outgoing ends, then incoming ones.  The end
\* of a server to itself is never used and left out.
Toggles(i, others, on) ==
  LET k == Len(others)
  IN  [x \in 1..(2 * k) |->
         [end |-> IF x <= k THEN <<i, endnames[i], others[x]>>
                  ELSE <<others[x - k], endnames[others[x - k]], i>>,
          on |-> on]]

\* The test goes on with the Enables in todo, and then with another step.
Toggle(i, todo, then) ==
  test' = IF todo # <<>> THEN [step |-> "enable", i |-> i, todo |-> todo, then |-> then]
          ELSE IF then = "idle" THEN Idle
          ELSE [step |-> "delete", i |-> i, todo |-> <<>>, then |-> then]

connect(i) ==
  /\ test.step = "idle" /\ ~ done /\ ~ connected[i]
  /\ connected' = [connected EXCEPT ![i] = TRUE]
  /\ \E others \in InOrder({j \in Server : connected[j]}) :
       Toggle(i, Toggles(i, others, TRUE), "idle")
  /\ UNCHANGED <<rpcVars, endnames, procs, persisters, saved, booted, crashes, late>>

\* disconnect by itself, or as the start of crash1 or of start1.
disconnect(i, then) ==
  /\ test.step = "idle" /\ ~ done
  /\ connected' = [connected EXCEPT ![i] = FALSE]
  /\ \E others \in InOrder(Server \ {i}) : Toggle(i, Toggles(i, others, FALSE), then)
  /\ IF then = "idle" THEN connected[i] /\ UNCHANGED crashes
     ELSE crashes < MaxCrash /\ crashes' = crashes + 1
  /\ then = "start" => started[i] < MaxServer
  /\ UNCHANGED <<rpcVars, endnames, procs, persisters, saved, booted, late>>

EnableNext ==
  /\ test.step = "enable"
  /\ Enable(Head(test.todo).end, Head(test.todo).on)
  /\ Toggle(test.i, Tail(test.todo), test.then)
  /\ UNCHANGED <<made, connections, servers, started, reliable, done, calls,
                 connected, endnames, procs, persisters, saved, booted, crashes, late>>

\* crash1: DeleteServer first ...
CrashDelete ==
  /\ test.step = "delete"
  /\ DeleteServer(test.i)
  /\ test' = [test EXCEPT !.step = "copy"]
  /\ UNCHANGED <<made, enabled, connections, started, reliable, done, calls,
                 connected, endnames, procs, persisters, saved, booted, crashes, late>>

\* ... then a new Persister, which the instance does not know.
CrashCopy ==
  /\ test.step = "copy"
  /\ Copy(test.i)
  /\ test' = IF test.then = "start" THEN [test EXCEPT !.step = "make"] ELSE Idle
  /\ UNCHANGED <<rpcVars, connected, endnames, procs, booted, crashes, late>>

\* start1 draws new names.
FreshEnds(i) == endnames[i] + 1

\* start1 after its crash1: new ends, a copy of the Persister, and Make.
StartMake ==
  LET i == test.i
  IN  /\ test.step = "make"
      /\ endnames' = [endnames EXCEPT ![i] = FreshEnds(i)]
      /\ MakeEnds([e \in {<<i, FreshEnds(i), j>> : j \in Server} |-> e[3]])
      /\ Copy(i)
      /\ procs' = [procs EXCEPT ![i] = Append(@, [ends |-> FreshEnds(i), disk |-> saved'[i]])]
      /\ booted' = [booted EXCEPT ![i] = persisters[saved[i]]]
      /\ test' = [test EXCEPT !.step = "add"]
      /\ UNCHANGED <<servers, started, reliable, done, calls, connected, crashes, late>>

StartAdd ==
  /\ test.step = "add"
  /\ AddServer(test.i)
  /\ test' = Idle
  /\ UNCHANGED <<made, enabled, connections, reliable, done, calls,
                 connected, endnames, procs, persisters, saved, booted, crashes, late>>

TestStep ==
  \/ \E i \in Server : connect(i) \/ \E then \in {"idle", "crash", "start"} : disconnect(i, then)
  \/ EnableNext \/ CrashDelete \/ CrashCopy \/ StartMake \/ StartAdd
  \/ /\ test.step = "idle" /\ ~ done
     /\ Cleanup \/ \E yes \in BOOLEAN : Reliable(yes)
     /\ UNCHANGED <<cfgVars, late>>

-----------------------------------------------------------------------------
\* The n-th instance of i calls j, alive or not.
SendCall(c, i, n, j) ==
  /\ n \in 1..Len(procs[i])
  /\ Call(c, <<i, procs[i][n].ends, j>>)
  /\ late' = IF n < Len(procs[i]) THEN late \union {c} ELSE late
  /\ UNCHANGED cfgVars

Disk(c) == procs[calls[c].to][calls[c].inst].disk

HandlerSave(c) ==
  /\ calls[c].handler = "running" /\ c \notin persisters[Disk(c)]
  /\ persisters' = [persisters EXCEPT ![Disk(c)] = @ \union {c}]
  /\ UNCHANGED <<rpcVars, connected, endnames, procs, saved, booted, test, crashes, late>>

HandlerDone(c) ==
  /\ HandlerReturn(c) /\ c \in persisters[Disk(c)]
  /\ UNCHANGED <<cfgVars, late>>

\* After make_config: one instance of every server, all connected.
Init ==
  /\ LET first == {<<i, 1, j>> : i, j \in Server}
     IN  /\ made = first
         /\ enabled = [e \in End |-> e \in first]
         /\ connections = [e \in End |-> IF e \in first THEN e[3] ELSE None]
  /\ servers = [i \in Server |-> 1] /\ started = [i \in Server |-> 1]
  /\ reliable \in BOOLEAN /\ done = FALSE
  /\ calls = [c \in CallId |-> NoCall]
  /\ connected = [i \in Server |-> TRUE] /\ endnames = [i \in Server |-> 1]
  /\ procs = [i \in Server |-> <<[ends |-> 1, disk |-> i]>>]
  /\ persisters = [i \in 1..N |-> {}] /\ saved = [i \in Server |-> i]
  /\ booted = [i \in Server |-> {}]
  /\ test = Idle /\ late = {} /\ crashes = 0

NetworkStep(c) == (CallDestroyed(c) \/ processReq(c)) /\ UNCHANGED <<cfgVars, late>>

Next ==
  \/ TestStep
  \/ \E c \in CallId :
       \/ \E i, j \in Server : i # j /\ \E n \in 1..MaxServer : SendCall(c, i, n, j)
       \/ NetworkStep(c) \/ HandlerSave(c) \/ HandlerDone(c)

Spec == Init /\ [][Next]_vars

\* Go runs every goroutine of the network; nothing is assumed of the test or of handlers.
FairSpec == Spec /\ \A c \in CallId : WF_vars(NetworkStep(c))

-----------------------------------------------------------------------------
\* The type of the state.
TypeOK ==
  /\ NetTypeOK
  /\ connected \in [Server -> BOOLEAN] /\ endnames \in [Server -> 1..MaxServer]
  /\ \A s \in Server : saved[s] \in 1..Len(persisters) /\ Len(procs[s]) \in 1..MaxServer

\* A caller that got an answer can rely on it after a crash: what the handler saved is
\* in the Persister the next instance will get.  crash1 deletes the server before it
\* copies the Persister, and processReq looks for the server after the handler.
PositiveReplySaved ==
  \A c \in CallId : calls[c].ok => c \in persisters[saved[calls[c].to]]

\* What an old instance saves late never reaches the instance that replaced it: the
\* Persister of a running server changes only by its own handlers.
OldInstanceIsolated ==
  \A i \in Server : servers[i] # 0 =>
    \A c \in persisters[saved[i]] \ booted[i] : calls[c].inst = servers[i]

\* An instance that was replaced cannot make a server execute anything: its ends stay
\* disabled, whoever is connected again.
OldInstanceSilent == \A c \in late : calls[c].handler = "none" /\ ~ calls[c].ok

(***************************************************************************)
(* Why PositiveReplySaved and OldInstanceIsolated hold: the parts of an    *)
(* inductive invariant.                                                    *)
(***************************************************************************)
\* start1 has made an instance of i that is not registered yet.
Unregistered(i) == test.step = "add" /\ test.i = i

\* What the test does next; its record keeps its fields.
TestInv ==
  /\ test = [step |-> test.step, i |-> test.i, todo |-> test.todo, then |-> test.then]
  /\ test.step # "idle" => test.i \in Server
  /\ test.step # "idle" /\ test.then = "start" => started[test.i] < MaxServer
  /\ test.step \in {"make", "add"} => test.then = "start"
  /\ test.step \in {"copy", "make", "add"} => servers[test.i] = 0

\* Instances are numbered as they are started, and only the last may be registered.
InstanceInv ==
  \A i \in Server :
    /\ servers[i] \in {0, started[i]}
    /\ endnames[i] = Len(procs[i])
    /\ Len(procs[i]) = IF Unregistered(i) THEN started[i] + 1 ELSE started[i]

\* A saved Persister is nobody's, or that of the last instance of its server; it is
\* that of the registered one.
DiskInv ==
  /\ \A i, j \in Server : saved[i] = saved[j] => i = j
  /\ \A i, j \in Server : \A n \in 1..Len(procs[i]) :
       /\ procs[i][n].disk \in 1..Len(persisters)
       /\ procs[i][n].disk = saved[j] => i = j /\ n = Len(procs[i])
  /\ \A i \in Server : servers[i] # 0 \/ Unregistered(i) =>
       procs[i][Len(procs[i])].disk = saved[i]

\* A call is in no Persister before its handler runs, in that of its instance when
\* the handler has returned, and in the saved one when an answer is given.
CallOk(c, r) ==
  /\ r.phase = "sent" => r.end \in made
  /\ r.phase \in {"idle", "sent", "lost", "admitted"} => r.handler = "none"
  /\ r.phase \in {"replied", "answering"} => r.handler = "finished"
  /\ r.phase \in {"admitted", "waiting"} \/ r.handler # "none" =>
       r.to \in Server /\ r.inst \in 1..started[r.to]
  /\ r.handler = "none" => \A d \in 1..Len(persisters) : c \notin persisters[d]
  /\ r.handler = "finished" => c \in persisters[procs[r.to][r.inst].disk]
  /\ r.ok => r.phase = "returned" /\ r.handler = "finished"
  /\ r.phase = "answering" \/ r.ok => c \in persisters[saved[r.to]]

\* Persisters have one owner, and what they hold is what handlers put there: the
\* inductive invariant behind the two properties.
PersisterInv ==
  /\ TestInv /\ InstanceInv /\ DiskInv /\ OldInstanceIsolated
  /\ \A c \in CallId : CallOk(c, calls[c])
  /\ \A i \in Server : Unregistered(i) => persisters[saved[i]] \subseteq booted[i]

(***************************************************************************)
(* Why OldInstanceSilent holds: the ends of an instance are disabled       *)
(* before the next one is made, and nobody names them again.               *)
(***************************************************************************)
\* The Enables still to be made are of ends in use, and off before a restart.
TodoInv ==
  test.step = "enable" =>
    \A x \in 1..Len(test.todo) :
      /\ \E a, b \in Server : test.todo[x].end = <<a, endnames[a], b>>
      /\ test.then = "start" => ~ test.todo[x].on

\* The old ends of every server are disabled, and so are those of an instance about to
\* be replaced, unless it is still to be done.
EndsOff ==
  /\ \A i, j \in Server : \A g \in 1..MaxServer :
       i # j /\ g < endnames[i] => ~ enabled[<<i, g, j>>]
  /\ test.then = "start" /\ test.step \in {"enable", "delete", "copy", "make"} =>
       \A j \in Server \ {test.i} :
         LET e == <<test.i, endnames[test.i], j>>
         IN  \/ ~ enabled[e]
             \/ test.step = "enable" /\ \E x \in 1..Len(test.todo) : test.todo[x].end = e

\* A call of a replaced instance goes through an old end, and no further.
LateCall(c) ==
  /\ calls[c].phase \in {"sent", "lost", "returned"}
  /\ calls[c].handler = "none" /\ ~ calls[c].ok
  /\ \E i, j \in Server : \E g \in 1..MaxServer :
       i # j /\ g < endnames[i] /\ calls[c].end = <<i, g, j>>

\* The inductive invariant behind OldInstanceSilent.
SilentInv ==
  /\ \A i \in Server : \A n \in 1..Len(procs[i]) : procs[i][n].ends = n
  /\ TodoInv /\ EndsOff
  /\ \A c \in late : LateCall(c)

\* A call returns, unless its handler runs for ever on a server that is never deleted.
CallReturns ==
  \A c \in CallId :
    In(c, "sent") ~> \/ In(c, "returned")
                     \/ [](calls[c].handler = "running" /\ servers[calls[c].to] = calls[c].inst)

=============================================================================
