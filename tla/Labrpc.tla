------------------------------- MODULE Labrpc -------------------------------
(***************************************************************************)
(* The simulated network of labrpc/labrpc.go: ClientEnd.Call, the          *)
(* goroutine that processReq runs for each request, and the operations a   *)
(* test calls on the network meanwhile.                                    *)
(*                                                                         *)
(* A Server object is the number of its instance; servers maps a name to   *)
(* the instance registered under it, 0 for nil.  A handler may return at   *)
(* any time or never.  Sleeps, longDelays and longReordering only delay    *)
(* steps and need no state.                                                *)
(***************************************************************************)
EXTENDS Integers

CONSTANTS
  End,        \* names of ClientEnds
  Server,     \* names of servers
  None,       \* nil
  CallId,     \* the calls that are made
  MaxServer   \* bound on the instances started under one name

VARIABLES
  made,        \* rn.ends
  enabled,     \* rn.enabled
  connections, \* rn.connections
  servers,     \* rn.servers
  started,     \* instances that were ever started under a name
  reliable,    \* rn.reliable
  done,        \* rn.done is closed
  calls        \* the goroutines of Call, processReq and dispatch of each call

netVars == <<made, enabled, connections, servers, started, reliable, done>>
rpcVars == <<netVars, calls>>

(***************************************************************************)
(* A call: phase is the place of Call and processReq, handler the place of *)
(* the goroutine that runs dispatch, and to, inst, reliable what           *)
(* readEndnameInfo returned.                                               *)
(***************************************************************************)
Phase == {"idle", "sent", "lost", "admitted", "waiting", "replied", "answering", "returned"}
Request == [phase : Phase, end : End \union {None}, to : Server \union {None},
            inst : Nat, reliable : BOOLEAN, handler : {"none", "running", "finished"},
            ok : BOOLEAN]
NoCall == [phase |-> "idle", end |-> None, to |-> None, inst |-> 0, reliable |-> TRUE,
           handler |-> "none", ok |-> FALSE]

In(c, phase) == calls[c].phase = phase
Go(c, phase) == calls' = [calls EXCEPT ![c].phase = phase]
Return(c, ok) == calls' = [calls EXCEPT ![c].phase = "returned", ![c].ok = ok]

-----------------------------------------------------------------------------
\* Call puts its request into rn.endCh, or finds that the network was destroyed.
Call(c, e) ==
  /\ In(c, "idle") /\ e \in made
  /\ calls' = [calls EXCEPT ![c].phase = "sent", ![c].end = e]
  /\ UNCHANGED netVars

CallDestroyed(c) ==
  /\ In(c, "idle") /\ done
  /\ Return(c, FALSE)
  /\ UNCHANGED netVars

Reachable(e) == enabled[e] /\ connections[e] # None /\ servers[connections[e]] # 0

readEndnameInfo(c) ==
  /\ In(c, "sent") /\ Reachable(calls[c].end)
  /\ LET to == connections[calls[c].end]
     IN  calls' = [calls EXCEPT ![c].phase = "admitted", ![c].to = to,
                                ![c].inst = servers[to], ![c].reliable = reliable]
  /\ UNCHANGED netVars

Unreachable(c) ==
  /\ In(c, "sent") /\ ~ Reachable(calls[c].end)
  /\ Go(c, "lost")
  /\ UNCHANGED netVars

\* Mutant of Timeout: no answer once the network is destroyed.
TimeoutIfUp(c) ==
  /\ In(c, "lost") /\ ~ done
  /\ Return(c, FALSE)
  /\ UNCHANGED netVars

Timeout(c) ==
  /\ In(c, "lost")
  /\ Return(c, FALSE)
  /\ UNCHANGED netVars

DropRequest(c) ==
  /\ In(c, "admitted") /\ ~ calls[c].reliable
  /\ Return(c, FALSE)
  /\ UNCHANGED netVars

\* The goroutine of the handler starts, whatever happened to the server meanwhile.
Dispatch(c) ==
  /\ In(c, "admitted")
  /\ calls' = [calls EXCEPT ![c].phase = "waiting", ![c].handler = "running"]
  /\ UNCHANGED netVars

HandlerReturn(c) ==
  /\ calls[c].handler = "running"
  /\ calls' = [calls EXCEPT ![c].handler = "finished"]
  /\ UNCHANGED netVars

\* The wait loop receives the reply, or gives up at a tick that finds the server dead.
GetReply(c) ==
  /\ In(c, "waiting") /\ calls[c].handler = "finished"
  /\ Go(c, "replied")
  /\ UNCHANGED netVars

isServerDead(c) == ~ enabled[calls[c].end] \/ servers[calls[c].to] # calls[c].inst

Tick(c) ==
  /\ In(c, "waiting") /\ isServerDead(c)
  /\ Return(c, FALSE)
  /\ UNCHANGED netVars

\* Mutant of FinalCheck: the server is looked at only while waiting.
FinalCheckNone(c) ==
  /\ In(c, "replied")
  /\ Go(c, "answering")
  /\ UNCHANGED netVars

\* After the loop the server is looked at once more.
FinalCheck(c) ==
  /\ In(c, "replied")
  /\ IF isServerDead(c) THEN Return(c, FALSE) ELSE Go(c, "answering")
  /\ UNCHANGED netVars

DropReply(c) ==
  /\ In(c, "answering") /\ ~ calls[c].reliable
  /\ Return(c, FALSE)
  /\ UNCHANGED netVars

Reply(c) ==
  /\ In(c, "answering")
  /\ Return(c, TRUE)
  /\ UNCHANGED netVars

processReq(c) ==
  \/ readEndnameInfo(c) \/ Unreachable(c) \/ Timeout(c) \/ DropRequest(c) \/ Dispatch(c)
  \/ GetReply(c) \/ Tick(c) \/ FinalCheck(c) \/ DropReply(c) \/ Reply(c)

-----------------------------------------------------------------------------
\* The operations of the network, in terms of the state they change.
\* New ends: not enabled, each connected to its server right away.
MakeEnds(server) ==
  LET es == DOMAIN server IN
  /\ es \intersect made = {}
  /\ made' = made \union es
  /\ enabled' = [e \in End |-> IF e \in es THEN FALSE ELSE enabled[e]]
  /\ connections' = [e \in End |-> IF e \in es THEN server[e] ELSE connections[e]]

Enable(e, on) == enabled' = [enabled EXCEPT ![e] = on]

\* Mutant of DeleteServer: a deleted server is marked, and not nil.
DeleteServerMark(s) == servers' = [servers EXCEPT ![s] = -1]

DeleteServer(s) == servers' = [servers EXCEPT ![s] = 0]

AddServer(s) ==
  /\ started' = [started EXCEPT ![s] = @ + 1]
  /\ servers' = [servers EXCEPT ![s] = started[s] + 1]

Reliable(yes) ==
  /\ reliable' = yes
  /\ UNCHANGED <<made, enabled, connections, servers, started, done, calls>>

Cleanup ==
  /\ ~ done /\ done' = TRUE
  /\ UNCHANGED <<made, enabled, connections, servers, started, reliable, calls>>

-----------------------------------------------------------------------------
NetTypeOK ==
  /\ made \subseteq End /\ enabled \in [End -> BOOLEAN]
  /\ connections \in [End -> Server \union {None}]
  /\ started \in [Server -> 0..MaxServer] /\ servers \in [Server -> 0..MaxServer]
  /\ reliable \in BOOLEAN /\ done \in BOOLEAN
  /\ calls \in [CallId -> Request]

=============================================================================
