------------------------- MODULE LabrpcCrashProofs -------------------------
(***************************************************************************)
(* Proofs about the network under the harness: an answer survives the      *)
(* crash of its server, and an old instance never writes into the          *)
(* Persister of the one that replaced it.  For any number of servers,      *)
(* calls and crashes.                                                      *)
(***************************************************************************)
EXTENDS LabrpcCrash, TLAPS, SequenceTheorems, FiniteSetTheorems

Instance == [ends : Nat, disk : Nat]

StateType ==
  /\ made \subseteq End
  /\ connections \in [End -> Server \union {None}]
  /\ started \in [Server -> Nat] /\ servers \in [Server -> Nat]
  /\ reliable \in BOOLEAN /\ calls \in [CallId -> Request]
  /\ endnames \in [Server -> Nat]
  /\ procs \in [Server -> Seq(Instance)]
  /\ persisters \in Seq(SUBSET CallId)
  /\ saved \in [Server -> 1..Len(persisters)]
  /\ booted \in [Server -> SUBSET CallId]

CrashInv == StateType /\ PersisterInv

-----------------------------------------------------------------------------
(***************************************************************************)
(* Steps of one call.                                                      *)
(***************************************************************************)
\* All but the calls is left as it was.
CallFrame == UNCHANGED <<made, connections, started, servers, reliable, cfgVars>>

\* A step that changes one call keeps CrashInv if the changed call is right, and
\* stays with its instance once its handler runs.
LEMMA OneCall ==
  ASSUME CrashInv, CallFrame, NEW c \in CallId, NEW r \in Request,
         calls' = [calls EXCEPT ![c] = r], CallOk(c, r),
         calls[c].handler # "none" => r.inst = calls[c].inst
  PROVE  CrashInv'
<1> USE DEF CrashInv
<1>1. calls \in [CallId -> Request] /\ saved \in [Server -> 1..Len(persisters)]
  BY Zenon DEF StateType
<1>2. StateType'
  BY <1>1, Zenon DEF StateType, CallFrame, cfgVars
<1>3. TestInv' /\ InstanceInv' /\ DiskInv'
  <2>1. TestInv'
    BY Zenon DEF PersisterInv, TestInv, CallFrame, cfgVars
  <2>2. InstanceInv'
    BY Zenon DEF PersisterInv, InstanceInv, Unregistered, CallFrame, cfgVars
  <2>3. DiskInv'
    BY Zenon DEF PersisterInv, DiskInv, Unregistered, CallFrame, cfgVars
  <2> QED BY <2>1, <2>2, <2>3, Zenon
<1>4. \A d \in CallId : CallOk(d, calls[d])'
  <2>1. \A d \in CallId : \A q : CallOk(d, q)' <=> CallOk(d, q)
    BY DEF CallOk, CallFrame, cfgVars
  <2>2. \A d \in CallId : CallOk(d, calls'[d])
    BY <1>1, Zenon DEF PersisterInv
  <2> QED BY <2>1, <2>2, ZenonT(30) DEF CallOk, CallFrame, cfgVars
<1>5. OldInstanceIsolated'
  <2> SUFFICES ASSUME NEW i \in Server, servers[i] # 0,
                      NEW d \in persisters[saved[i]] \ booted[i]
               PROVE  calls'[d].inst = servers[i]
    BY Zenon DEF OldInstanceIsolated, CallFrame, cfgVars
  <2>1. calls[d].inst = servers[i] /\ saved[i] \in 1..Len(persisters)
    BY <1>1, Zenon DEF PersisterInv, OldInstanceIsolated
  <2>2. d = c => calls[c].handler # "none"
    BY <2>1, Zenon DEF PersisterInv, CallOk
  <2>3. d \in CallId
    BY <2>1, ElementOfSeq DEF StateType
  <2> QED BY <1>1, <2>1, <2>2, <2>3, Zenon
<1>6. \A i \in Server : Unregistered(i)' => (persisters[saved[i]] \subseteq booted[i])'
  BY Zenon DEF PersisterInv, Unregistered, CallFrame, cfgVars
<1> QED BY <1>2, <1>3, <1>4, <1>5, <1>6, Zenon DEF PersisterInv

\* A call may fail at any time.
LEMMA CallFails ==
  ASSUME CrashInv, CallFrame, NEW c \in CallId, Return(c, FALSE)
  PROVE  CrashInv'
<1> DEFINE r == [calls[c] EXCEPT !.phase = "returned", !.ok = FALSE]
<1>1. calls[c] \in Request /\ CallOk(c, calls[c])
  BY Zenon DEF CrashInv, StateType, PersisterInv
<1>2. calls' = [calls EXCEPT ![c] = r]
  BY ZenonT(30) DEF Return
<1>3. r \in Request /\ r.inst = calls[c].inst
  BY <1>1, ZenonT(30) DEF Request, Phase
<1>4. CallOk(c, r)
  BY <1>1, Zenon DEF CallOk, Request
<1> QED BY <1>2, <1>3, <1>4, OneCall, ZenonT(30)

\* A call goes on to a phase that asks no more of it.
LEMMA CallGoes ==
  ASSUME CrashInv, CallFrame, NEW c \in CallId, NEW p \in Phase, Go(c, p),
         CallOk(c, [calls[c] EXCEPT !.phase = p])
  PROVE  CrashInv'
<1> DEFINE r == [calls[c] EXCEPT !.phase = p]
<1>1. calls[c] \in Request
  BY Zenon DEF CrashInv, StateType
<1>2. calls' = [calls EXCEPT ![c] = r]
  BY Zenon DEF Go
<1>3. r \in Request /\ r.inst = calls[c].inst
  BY <1>1, Zenon DEF Request
<1> QED BY <1>2, <1>3, OneCall, ZenonT(30)

\* readEndnameInfo finds a registered instance.
LEMMA ReadKeeps ==
  ASSUME CrashInv, CallFrame, NEW c \in CallId, readEndnameInfo(c)
  PROVE  CrashInv'
<1> DEFINE to == connections[calls[c].end]
           r == [calls[c] EXCEPT !.phase = "admitted", !.to = to, !.inst = servers[to],
                                 !.reliable = reliable]
<1>1. calls[c] \in Request /\ CallOk(c, calls[c]) /\ calls[c].phase = "sent"
  BY Zenon DEF CrashInv, StateType, PersisterInv, readEndnameInfo, In
<1>2. calls[c].end \in End /\ calls[c].handler = "none" /\ ~ calls[c].ok
  BY <1>1, Zenon DEF CallOk, CrashInv, StateType
<1>3. to \in Server /\ servers[to] # 0
  BY <1>2, Zenon DEF CrashInv, StateType, readEndnameInfo, Reachable
<1>4. servers[to] \in 1..started[to] /\ servers[to] \in Nat
  BY <1>3 DEF CrashInv, StateType, PersisterInv, InstanceInv
<1>5. calls' = [calls EXCEPT ![c] = r]
  BY ZenonT(30) DEF readEndnameInfo
<1>6. r \in Request
  BY <1>1, <1>3, <1>4, ZenonT(30) DEF CrashInv, StateType, Request, Phase
<1>7. CallOk(c, r)
  BY <1>1, <1>2, <1>3, <1>4, ZenonT(30) DEF CallOk, Request
<1> QED BY <1>2, <1>5, <1>6, <1>7, OneCall, ZenonT(30)

\* The last look at the server: the instance that executed the call is registered,
\* so its Persister is the saved one.
LEMMA FinalKeeps ==
  ASSUME CrashInv, CallFrame, NEW c \in CallId, FinalCheck(c)
  PROVE  CrashInv'
<1>1. calls[c] \in Request /\ CallOk(c, calls[c]) /\ calls[c].phase = "replied"
  BY Zenon DEF CrashInv, StateType, PersisterInv, FinalCheck, In
<1>2. CASE isServerDead(c)
  BY <1>2, CallFails, ZenonT(30) DEF FinalCheck
<1>3. CASE ~ isServerDead(c)
  <2> DEFINE to == calls[c].to
             inst == calls[c].inst
  <2>1. /\ to \in Server /\ inst \in 1..started[to]
        /\ c \in persisters[procs[to][inst].disk] /\ ~ calls[c].ok
        /\ calls[c].handler = "finished"
    BY <1>1, Zenon DEF CallOk
  <2>2. servers[to] = inst /\ started[to] \in Nat
    BY <1>3, <2>1, Zenon DEF isServerDead, CrashInv, StateType
  <2>3. inst # 0 /\ inst = started[to]
    BY <2>1, <2>2, SMTT(20) DEF CrashInv, PersisterInv, InstanceInv
  <2>4. ~ Unregistered(to)
    BY <2>1, <2>2, <2>3, Zenon DEF Unregistered, CrashInv, PersisterInv, TestInv
  <2>5. procs[to][inst].disk = saved[to]
    <3>1. Len(procs[to]) = inst
      BY <2>1, <2>3, <2>4, Zenon DEF CrashInv, PersisterInv, InstanceInv
    <3>2. servers[to] # 0 => procs[to][Len(procs[to])].disk = saved[to]
      BY <2>1, Zenon DEF CrashInv, PersisterInv, DiskInv
    <3> QED BY <2>2, <2>3, <3>1, <3>2, Zenon
  <2>6. CallOk(c, [calls[c] EXCEPT !.phase = "answering"])
    BY <1>1, <2>1, <2>5, Zenon DEF CallOk, Request
  <2> QED BY <1>3, <2>6, CallGoes, ZenonT(30) DEF FinalCheck, Phase
<1> QED BY <1>2, <1>3, Zenon

\* Every step of the network keeps CrashInv.
LEMMA NetworkKeeps ==
  ASSUME CrashInv, NEW c \in CallId, NetworkStep(c)
  PROVE  CrashInv'
<1>1. calls[c] \in Request /\ CallOk(c, calls[c])
  BY Zenon DEF CrashInv, StateType, PersisterInv
<1>2. ASSUME UNCHANGED netVars PROVE CallFrame
  BY <1>2, Zenon DEF netVars, CallFrame, NetworkStep
<1>3. CASE CallDestroyed(c)
  BY <1>2, <1>3, CallFails, ZenonT(30) DEF CallDestroyed
<1>4. CASE readEndnameInfo(c)
  BY <1>2, <1>4, ReadKeeps, ZenonT(30) DEF readEndnameInfo
<1>5. CASE Unreachable(c)
  <2>1. CallOk(c, [calls[c] EXCEPT !.phase = "lost"])
    BY <1>1, <1>5, Zenon DEF Unreachable, In, CallOk, Request
  <2> QED BY <1>2, <1>5, <2>1, CallGoes, ZenonT(30) DEF Unreachable, Phase
<1>6. CASE Timeout(c) \/ DropRequest(c) \/ Tick(c) \/ DropReply(c)
  BY <1>2, <1>6, CallFails, ZenonT(30) DEF Timeout, DropRequest, Tick, DropReply
<1>7. CASE Dispatch(c)
  <2> DEFINE r == [calls[c] EXCEPT !.phase = "waiting", !.handler = "running"]
  <2>1. calls' = [calls EXCEPT ![c] = r] /\ r \in Request /\ r.inst = calls[c].inst
    BY <1>1, <1>7, ZenonT(30) DEF Dispatch, Request, Phase
  <2>2. CallOk(c, r)
    BY <1>1, <1>7, Zenon DEF Dispatch, In, CallOk, Request
  <2> QED BY <1>2, <1>7, <2>1, <2>2, OneCall, ZenonT(30) DEF Dispatch
<1>8. CASE GetReply(c)
  <2>1. CallOk(c, [calls[c] EXCEPT !.phase = "replied"])
    BY <1>1, <1>8, Zenon DEF GetReply, In, CallOk, Request
  <2> QED BY <1>2, <1>8, <2>1, CallGoes, ZenonT(30) DEF GetReply, Phase
<1>9. CASE FinalCheck(c)
  BY <1>2, <1>9, FinalKeeps, ZenonT(30) DEF FinalCheck
<1>10. CASE Reply(c)
  <2> DEFINE r == [calls[c] EXCEPT !.phase = "returned", !.ok = TRUE]
  <2>1. calls' = [calls EXCEPT ![c] = r] /\ r \in Request /\ r.inst = calls[c].inst
    BY <1>1, <1>10, ZenonT(30) DEF Reply, Return, Request, Phase
  <2>2. CallOk(c, r)
    BY <1>1, <1>10, Zenon DEF Reply, In, CallOk, Request
  <2> QED BY <1>2, <1>10, <2>1, <2>2, OneCall, ZenonT(30) DEF Reply
<1> QED BY <1>3, <1>4, <1>5, <1>6, <1>7, <1>8, <1>9, <1>10, Zenon DEF NetworkStep, processReq

\* A call is sent through an end that was made.
LEMMA SendKeeps ==
  ASSUME CrashInv, NEW c \in CallId, NEW e \in End, Call(c, e), UNCHANGED cfgVars
  PROVE  CrashInv'
<1> DEFINE r == [calls[c] EXCEPT !.phase = "sent", !.end = e]
<1>1. calls[c] \in Request /\ CallOk(c, calls[c])
  BY Zenon DEF CrashInv, StateType, PersisterInv
<1>2. calls' = [calls EXCEPT ![c] = r] /\ r \in Request /\ r.inst = calls[c].inst
  BY <1>1, ZenonT(30) DEF Call, Request, Phase
<1>3. CallOk(c, r)
  BY <1>1, Zenon DEF Call, In, CallOk, Request
<1> QED BY <1>2, <1>3, OneCall, ZenonT(30) DEF Call, netVars, CallFrame

-----------------------------------------------------------------------------
(***************************************************************************)
(* Steps of handlers and of the test.                                      *)
(***************************************************************************)
\* The Persister of a call whose handler runs.
LEMMA DiskOfCall ==
  ASSUME CrashInv, NEW c \in CallId, calls[c].handler # "none"
  PROVE  /\ calls[c].to \in Server /\ calls[c].inst \in 1..started[calls[c].to]
         /\ calls[c].inst \in 1..Len(procs[calls[c].to])
         /\ Disk(c) \in 1..Len(persisters)
<1>1. calls[c].to \in Server /\ calls[c].inst \in 1..started[calls[c].to]
  BY Zenon DEF CrashInv, PersisterInv, CallOk
<1>2. calls[c].inst \in 1..Len(procs[calls[c].to])
  <2>1. started[calls[c].to] \in Nat
    BY <1>1, Zenon DEF CrashInv, StateType
  <2>2. Len(procs[calls[c].to]) \in {started[calls[c].to], started[calls[c].to] + 1}
    BY <1>1, Zenon DEF CrashInv, PersisterInv, InstanceInv
  <2> QED BY <1>1, <2>1, <2>2
<1>3. Disk(c) \in 1..Len(persisters)
  BY <1>1, <1>2, Zenon DEF CrashInv, PersisterInv, DiskInv, Disk
<1> QED BY <1>1, <1>2, <1>3, Zenon

\* A handler returns after its call is in its Persister.
LEMMA DoneKeeps ==
  ASSUME CrashInv, NEW c \in CallId, HandlerDone(c)
  PROVE  CrashInv'
<1> DEFINE r == [calls[c] EXCEPT !.handler = "finished"]
<1>1. calls[c] \in Request /\ CallOk(c, calls[c]) /\ calls[c].handler = "running"
  BY Zenon DEF CrashInv, StateType, PersisterInv, HandlerDone, HandlerReturn
<1>2. calls' = [calls EXCEPT ![c] = r] /\ r \in Request /\ r.inst = calls[c].inst
  BY <1>1, Zenon DEF HandlerDone, HandlerReturn, Request
<1>3. CallOk(c, r)
  BY <1>1, Zenon DEF HandlerDone, Disk, CallOk, Request
<1>4. CallFrame
  BY Zenon DEF HandlerDone, HandlerReturn, netVars, CallFrame
<1> QED BY <1>2, <1>3, <1>4, OneCall, ZenonT(30)

\* Calls stay right when instances, ends and the content of Persisters only grow.
LEMMA GrowKeeps ==
  ASSUME CrashInv, calls' = calls, made \subseteq made',
         \A i \in Server : started'[i] \in Nat /\ started[i] <= started'[i],
         \A i \in Server : \A n \in 1..Len(procs[i]) : procs'[i][n] = procs[i][n],
         \A d \in 1..Len(persisters) : persisters[d] \subseteq persisters'[d],
         \A i \in Server : persisters[saved[i]] \subseteq persisters'[saved'[i]],
         \A d \in 1..Len(persisters'), c \in CallId : c \in persisters'[d] =>
            calls[c].handler # "none" \/ \E b \in 1..Len(persisters) : c \in persisters[b],
         NEW c \in CallId
  PROVE  CallOk(c, calls[c])'
<1>1. CallOk(c, calls[c])
  BY Zenon DEF CrashInv, PersisterInv
<1>2. CASE calls[c].handler = "none"
  <2>1. \A d \in 1..Len(persisters') : c \notin persisters'[d]
    BY <1>1, <1>2, Zenon DEF CallOk
  <2>2. calls[c].phase \in {"admitted", "waiting"} =>
          calls[c].to \in Server /\ calls[c].inst \in 1..started'[calls[c].to]
    BY <1>1 DEF CallOk, CrashInv, StateType
  <2>3. calls[c].phase # "answering" /\ ~ calls[c].ok
    BY <1>1, <1>2, Zenon DEF CallOk
  <2> QED BY <1>1, <1>2, <2>1, <2>2, <2>3, Zenon DEF CallOk
<1>3. CASE calls[c].handler # "none"
  <2>1. /\ calls[c].to \in Server /\ calls[c].inst \in 1..started'[calls[c].to]
        /\ procs'[calls[c].to][calls[c].inst] = procs[calls[c].to][calls[c].inst]
        /\ Disk(c) \in 1..Len(persisters)
    <3>1. /\ calls[c].to \in Server /\ calls[c].inst \in 1..started[calls[c].to]
          /\ calls[c].inst \in 1..Len(procs[calls[c].to])
          /\ Disk(c) \in 1..Len(persisters)
      BY <1>3, DiskOfCall, Zenon
    <3>2. started[calls[c].to] \in Nat
      BY <3>1, Zenon DEF CrashInv, StateType
    <3> QED BY <3>1, <3>2, SMTT(20)
  <2>2. calls[c].handler = "finished" => c \in persisters'[procs'[calls[c].to][calls[c].inst].disk]
    <3>1. calls[c].handler = "finished" => c \in persisters[Disk(c)]
      BY <1>1, ZenonT(30) DEF CallOk, Disk
    <3>2. Disk(c) = procs'[calls[c].to][calls[c].inst].disk
      BY <2>1, ZenonT(30) DEF Disk
    <3>3. persisters[Disk(c)] \subseteq persisters'[Disk(c)]
      BY <2>1, Zenon
    <3> QED BY <3>1, <3>2, <3>3, ZenonT(30)
  <2>3. calls[c].phase = "answering" \/ calls[c].ok => c \in persisters'[saved'[calls[c].to]]
    BY <1>1, <2>1, ZenonT(30) DEF CallOk
  <2>4. /\ calls[c].phase = "sent" => calls[c].end \in made'
        /\ calls[c].phase \notin {"idle", "sent", "lost", "admitted"}
        /\ calls[c].phase \in {"replied", "answering"} => calls[c].handler = "finished"
        /\ calls[c].ok => calls[c].phase = "returned" /\ calls[c].handler = "finished"
    BY <1>1, <1>3, ZenonT(30) DEF CallOk
  <2> QED BY <1>3, <2>1, <2>2, <2>3, <2>4, ZenonT(30) DEF CallOk
<1> QED BY <1>2, <1>3, Zenon

\* A handler saves its call in the Persister of its own instance.
LEMMA SaveKeeps ==
  ASSUME CrashInv, NEW c \in CallId, HandlerSave(c)
  PROVE  CrashInv'
<1>1. /\ calls[c].to \in Server /\ calls[c].inst \in 1..started[calls[c].to]
      /\ calls[c].inst \in 1..Len(procs[calls[c].to])
      /\ Disk(c) \in 1..Len(persisters) /\ calls[c].handler # "none"
  BY DiskOfCall, Zenon DEF HandlerSave
<1>2. /\ UNCHANGED <<made, connections, started, servers, reliable, calls, endnames, procs,
                      saved, booted, test>>
      /\ persisters' = [persisters EXCEPT ![Disk(c)] = @ \union {c}]
  BY Zenon DEF HandlerSave, rpcVars, netVars
<1>3. /\ persisters' \in Seq(SUBSET CallId) /\ Len(persisters') = Len(persisters)
      /\ \A d \in 1..Len(persisters) :
           persisters'[d] = IF d = Disk(c) THEN persisters[d] \union {c} ELSE persisters[d]
  <2>1. persisters \in Seq(SUBSET CallId)
    BY Zenon DEF CrashInv, StateType
  <2>2. persisters[Disk(c)] \union {c} \in SUBSET CallId
    BY <1>1, <2>1, ElementOfSeq, Zenon
  <2> DEFINE e == persisters[Disk(c)] \union {c}
  <2>3. persisters' = [persisters EXCEPT ![Disk(c)] = e]
    BY <1>2, Zenon
  <2>4. /\ [persisters EXCEPT ![Disk(c)] = e] \in Seq(SUBSET CallId)
        /\ Len([persisters EXCEPT ![Disk(c)] = e]) = Len(persisters)
        /\ \A d \in 1..Len(persisters) :
             [persisters EXCEPT ![Disk(c)] = e][d] = IF d = Disk(c) THEN e ELSE persisters[d]
    <3>1. e \in SUBSET CallId
      BY <2>2, Zenon
    <3> HIDE DEF e
    <3> QED BY <1>1, <2>1, <3>1, ExceptSeq
  <2> QED BY <2>3, <2>4, ZenonT(30)
<1>4. StateType'
  BY <1>2, <1>3, Zenon DEF CrashInv, StateType
<1>5. TestInv' /\ InstanceInv' /\ DiskInv'
  BY <1>2, <1>3 DEF CrashInv, PersisterInv, TestInv, InstanceInv, DiskInv, Unregistered
<1>6. \A i \in Server : saved[i] \in 1..Len(persisters) /\ started[i] \in Nat
  BY Zenon DEF CrashInv, StateType
<1>7. \A d \in CallId : CallOk(d, calls[d])'
  BY <1>1, <1>2, <1>3, <1>6, GrowKeeps, SMTT(20)
<1>8. \A i \in Server : saved[i] = Disk(c) =>
        i = calls[c].to /\ calls[c].inst = Len(procs[i]) /\ calls[c].inst \in 1..started[i]
  <2> SUFFICES ASSUME NEW i \in Server, saved[i] = Disk(c)
               PROVE  i = calls[c].to /\ calls[c].inst = Len(procs[i])
    BY <1>1, Zenon
  <2>1. \A k, j \in Server : \A n \in 1..Len(procs[k]) :
          procs[k][n].disk = saved[j] => k = j /\ n = Len(procs[k])
    BY ZenonT(30) DEF CrashInv, PersisterInv, DiskInv
  <2>2. procs[calls[c].to][calls[c].inst].disk = saved[i]
    BY Zenon DEF Disk
  <2> QED BY <1>1, <2>1, <2>2, Zenon
<1>9. OldInstanceIsolated'
  <2> SUFFICES ASSUME NEW i \in Server, servers[i] # 0,
                      NEW d \in persisters'[saved[i]] \ booted[i]
               PROVE  calls[d].inst = servers[i]
    BY <1>2, Zenon DEF OldInstanceIsolated
  <2>1. CASE d \in persisters[saved[i]]
    BY <2>1, Zenon DEF CrashInv, PersisterInv, OldInstanceIsolated
  <2>2. CASE d \notin persisters[saved[i]]
    <3>1. d = c /\ saved[i] = Disk(c)
      BY <1>3, <1>6, <2>2, ZenonT(30)
    <3>2. ~ Unregistered(i) /\ servers[i] = started[i]
      BY Zenon DEF CrashInv, PersisterInv, TestInv, InstanceInv, Unregistered
    <3> QED BY <1>8, <3>1, <3>2, Zenon DEF CrashInv, PersisterInv, InstanceInv
  <2> QED BY <2>1, <2>2, Zenon
<1>10. \A i \in Server : Unregistered(i)' => (persisters[saved[i]] \subseteq booted[i])'
  <2> SUFFICES ASSUME NEW i \in Server, Unregistered(i)
               PROVE  persisters'[saved[i]] \subseteq booted[i]
    BY <1>2, Zenon DEF Unregistered
  <2>1. Len(procs[i]) = started[i] + 1 /\ persisters[saved[i]] \subseteq booted[i]
    BY Zenon DEF CrashInv, PersisterInv, InstanceInv
  <2>2. saved[i] # Disk(c)
    BY <1>6, <1>8, <2>1
  <2> QED BY <1>3, <1>6, <2>1, <2>2, ZenonT(30)
<1> QED BY <1>4, <1>5, <1>7, <1>9, <1>10, Zenon DEF CrashInv, PersisterInv

\* The variables that the test's Enables leave alone.
Quiet == UNCHANGED <<made, connections, started, servers, calls, endnames, procs,
                     persisters, saved, booted>>

\* Where the test may be matters only between Make and AddServer.
LEMMA QuietKeeps ==
  ASSUME CrashInv, Quiet, reliable' \in BOOLEAN, TestInv',
         test.step # "add", test'.step # "add"
  PROVE  CrashInv'
<1>1. StateType'
  BY Zenon DEF CrashInv, StateType, Quiet
<1>2. \A i \in Server : ~ Unregistered(i) /\ ~ Unregistered(i)'
  BY Zenon DEF Unregistered
<1>3. InstanceInv' /\ DiskInv' /\ OldInstanceIsolated'
  BY <1>2, SMTT(20) DEF CrashInv, PersisterInv, InstanceInv, DiskInv, OldInstanceIsolated, Quiet
<1>4. \A c \in CallId : CallOk(c, calls[c])'
  BY Zenon DEF CrashInv, PersisterInv, CallOk, Quiet
<1> QED BY <1>1, <1>2, <1>3, <1>4, Zenon DEF CrashInv, PersisterInv

\* Going on with Enables, or with the step after them.
LEMMA ToggleTest ==
  ASSUME NEW i \in Server, NEW todo, NEW then, Toggle(i, todo, then),
         then = "start" => started'[i] < MaxServer
  PROVE  TestInv' /\ test'.step # "add"
<1>1. CASE todo # <<>>
  <2>1. test' = [step |-> "enable", i |-> i, todo |-> todo, then |-> then]
    BY <1>1, Zenon DEF Toggle
  <2> QED BY <2>1, Zenon DEF TestInv
<1>2. CASE todo = <<>> /\ then = "idle"
  <2>1. test' = Idle
    BY <1>2, Zenon DEF Toggle
  <2> QED BY <2>1, Zenon DEF TestInv, Idle
<1>3. CASE todo = <<>> /\ then # "idle"
  <2>1. test' = [step |-> "delete", i |-> i, todo |-> <<>>, then |-> then]
    BY <1>3, Zenon DEF Toggle
  <2> QED BY <2>1, Zenon DEF TestInv
<1> QED BY <1>1, <1>2, <1>3, Zenon

\* Beginning or continuing connect or disconnect keeps CrashInv.
LEMMA ToggleKeeps ==
  ASSUME CrashInv, Quiet, UNCHANGED reliable, test.step # "add",
         NEW i \in Server, NEW todo, NEW then, Toggle(i, todo, then),
         then = "start" => started[i] < MaxServer
  PROVE  CrashInv'
<1>1. started' = started /\ reliable' \in BOOLEAN
  BY Zenon DEF Quiet, CrashInv, StateType
<1>2. TestInv' /\ test'.step # "add"
  BY <1>1, ToggleTest, Zenon
<1> QED BY <1>1, <1>2, QuietKeeps, Zenon

\* The harness's connect keeps CrashInv.
LEMMA ConnectKeeps ==
  ASSUME CrashInv, NEW i \in Server, connect(i)
  PROVE  CrashInv'
<1>1. Quiet /\ UNCHANGED reliable /\ test.step # "add"
  BY Zenon DEF connect, Quiet, rpcVars, netVars
<1>2. PICK others : Toggle(i, Toggles(i, others, TRUE), "idle")
  BY Zenon DEF connect
<1> QED BY <1>1, <1>2, ToggleKeeps, ZenonT(30)

\* So does disconnect, by itself or as the start of crash1 and start1.
LEMMA DisconnectKeeps ==
  ASSUME CrashInv, NEW i \in Server, NEW then, disconnect(i, then)
  PROVE  CrashInv'
<1>1. Quiet /\ UNCHANGED reliable /\ test.step # "add"
  BY Zenon DEF disconnect, Quiet, rpcVars, netVars
<1>2. PICK others : Toggle(i, Toggles(i, others, FALSE), then)
  BY Zenon DEF disconnect
<1> QED BY <1>1, <1>2, ToggleKeeps, ZenonT(30) DEF disconnect

\* So does each Enable they make.
LEMMA EnableKeeps ==
  ASSUME CrashInv, EnableNext
  PROVE  CrashInv'
<1>1. Quiet /\ UNCHANGED reliable /\ test.step # "add"
  BY Zenon DEF EnableNext, Quiet
<1>2. test.i \in Server /\ (test.then = "start" => started[test.i] < MaxServer)
  BY Zenon DEF EnableNext, CrashInv, PersisterInv, TestInv
<1> QED BY <1>1, <1>2, ToggleKeeps, Zenon DEF EnableNext

\* crash1 deletes the server before it copies the Persister.
LEMMA DeleteKeeps ==
  ASSUME CrashInv, CrashDelete
  PROVE  CrashInv'
<1>1. /\ test.step = "delete" /\ test.i \in Server
      /\ test.then = "start" => started[test.i] < MaxServer
  BY Zenon DEF CrashDelete, CrashInv, PersisterInv, TestInv
<1>2. /\ UNCHANGED <<made, connections, started, calls, endnames, procs,
                      persisters, saved, booted, reliable>>
      /\ servers' = [servers EXCEPT ![test.i] = 0]
      /\ test' = [test EXCEPT !.step = "copy"]
  BY Zenon DEF CrashDelete, DeleteServer
<1>3. StateType' /\ servers \in [Server -> Nat]
  BY <1>1, <1>2, Zenon DEF CrashInv, StateType
<1>4. test' = [step |-> "copy", i |-> test.i, todo |-> test.todo, then |-> test.then]
  BY <1>2, Zenon DEF CrashInv, PersisterInv, TestInv
<1>5. TestInv'
  BY <1>1, <1>2, <1>3, <1>4, ZenonT(30) DEF TestInv
<1>6. \A i \in Server : /\ servers'[i] = 0 \/ servers'[i] = servers[i]
                        /\ ~ Unregistered(i) /\ ~ Unregistered(i)'
  BY <1>1, <1>2, <1>3, <1>4, Zenon DEF Unregistered
<1>7. InstanceInv' /\ DiskInv' /\ OldInstanceIsolated'
  BY <1>2, <1>6, SMTT(20) DEF CrashInv, PersisterInv, InstanceInv, DiskInv, OldInstanceIsolated
<1>8. \A c \in CallId : CallOk(c, calls[c])'
  BY <1>2, Zenon DEF CrashInv, PersisterInv, CallOk
<1> QED BY <1>3, <1>5, <1>6, <1>7, <1>8, Zenon DEF CrashInv, PersisterInv

\* What Copy does to the Persisters, and what it means for the calls.
LEMMA CopyFacts ==
  ASSUME CrashInv, NEW s \in Server, Copy(s)
  PROVE  /\ persisters' \in Seq(SUBSET CallId) /\ Len(persisters') = Len(persisters) + 1
         /\ Len(persisters) \in Nat
         /\ \A d \in 1..Len(persisters) : persisters'[d] = persisters[d]
         /\ saved' \in [Server -> 1..Len(persisters')] /\ saved'[s] = Len(persisters) + 1
         /\ \A i \in Server : saved[i] \in 1..Len(persisters)
         /\ \A i \in Server : i # s => saved'[i] = saved[i]
         /\ persisters'[saved'[s]] = persisters[saved[s]]
<1>1. /\ persisters \in Seq(SUBSET CallId) /\ saved \in [Server -> 1..Len(persisters)]
      /\ \A i \in Server : saved[i] \in 1..Len(persisters)
  BY Zenon DEF CrashInv, StateType
<1>2. persisters[saved[s]] \in SUBSET CallId
  BY <1>1, ElementOfSeq, Zenon
<1>3. /\ persisters' \in Seq(SUBSET CallId) /\ Len(persisters') = Len(persisters) + 1
      /\ Len(persisters) \in Nat
      /\ \A d \in 1..Len(persisters) : persisters'[d] = persisters[d]
      /\ persisters'[Len(persisters) + 1] = persisters[saved[s]]
  BY <1>1, <1>2, AppendProperties, LenProperties DEF Copy
<1>4. saved' \in [Server -> 1..Len(persisters')] /\ saved'[s] = Len(persisters) + 1
  BY <1>1, <1>3 DEF Copy
<1>5. \A i \in Server : i # s => saved'[i] = saved[i]
  BY <1>1, Zenon DEF Copy
<1> QED BY <1>1, <1>3, <1>4, <1>5, Zenon

\* A copy of a Persister keeps the calls right.
LEMMA CopyCalls ==
  ASSUME CrashInv, NEW s \in Server, Copy(s), calls' = calls, made \subseteq made',
         started' = started,
         \A i \in Server : \A n \in 1..Len(procs[i]) : procs'[i][n] = procs[i][n],
         NEW c \in CallId
  PROVE  CallOk(c, calls[c])'
<1>1. \A i \in Server : started'[i] \in Nat /\ started[i] <= started'[i]
  BY DEF CrashInv, StateType
<1>2. \A d \in 1..Len(persisters) : persisters[d] \subseteq persisters'[d]
  BY CopyFacts, Zenon
<1>3. \A i \in Server : persisters[saved[i]] \subseteq persisters'[saved'[i]]
  BY CopyFacts, Zenon
<1>4. \A d \in 1..Len(persisters') : \E b \in 1..Len(persisters) : persisters'[d] = persisters[b]
  <2> TAKE d \in 1..Len(persisters')
  <2>1. CASE d \in 1..Len(persisters)
    BY <2>1, CopyFacts, Zenon
  <2>2. CASE d = Len(persisters) + 1
    BY <2>2, CopyFacts
  <2> QED BY <2>1, <2>2, CopyFacts
<1>5. \A d \in 1..Len(persisters'), x \in CallId : x \in persisters'[d] =>
        calls[x].handler # "none" \/ \E b \in 1..Len(persisters) : x \in persisters[b]
  BY <1>4, Zenon
<1> QED BY <1>1, <1>2, <1>3, <1>5, GrowKeeps, Zenon

\* crash1 copies the Persister of a deleted server.
LEMMA CopyKeeps ==
  ASSUME CrashInv, CrashCopy
  PROVE  CrashInv'
<1> DEFINE s == test.i
<1>1. /\ test.step = "copy" /\ s \in Server /\ servers[s] = 0
      /\ test.then = "start" => started[s] < MaxServer
  BY Zenon DEF CrashCopy, CrashInv, PersisterInv, TestInv
<1>2. /\ UNCHANGED <<made, connections, started, servers, calls, endnames, procs,
                      booted, reliable>>
      /\ Copy(s)
      /\ test' = IF test.then = "start" THEN [test EXCEPT !.step = "make"] ELSE Idle
  BY Zenon DEF CrashCopy, rpcVars, netVars
<1>3. StateType'
  BY <1>1, <1>2, CopyFacts, Zenon DEF CrashInv, StateType
<1>4. TestInv' /\ test'.step # "add"
  <2>1. CASE test.then = "start"
    <3>1. test' = [step |-> "make", i |-> test.i, todo |-> test.todo, then |-> test.then]
      BY <1>2, <2>1, Zenon DEF CrashInv, PersisterInv, TestInv
    <3> QED BY <1>1, <1>2, <2>1, <3>1, ZenonT(30) DEF TestInv
  <2>2. CASE test.then # "start"
    <3>1. test' = Idle
      BY <1>2, <2>2, Zenon
    <3> QED BY <3>1, Zenon DEF TestInv, Idle
  <2> QED BY <2>1, <2>2, Zenon
<1>5. \A i \in Server : ~ Unregistered(i) /\ ~ Unregistered(i)'
  BY <1>1, <1>4, Zenon DEF Unregistered
<1>6. InstanceInv'
  BY <1>2, <1>5, Zenon DEF CrashInv, PersisterInv, InstanceInv
<1>7. DiskInv'
  <2>1. \A i, j \in Server : saved'[i] = saved'[j] => i = j
    BY <1>1, <1>2, CopyFacts DEF CrashInv, PersisterInv, DiskInv
  <2>2. \A i, j \in Server : \A n \in 1..Len(procs[i]) :
          /\ procs[i][n].disk \in 1..Len(persisters')
          /\ procs[i][n].disk = saved'[j] => i = j /\ n = Len(procs[i])
    BY <1>1, <1>2, CopyFacts, SMTT(20) DEF CrashInv, PersisterInv, DiskInv
  <2>3. \A i \in Server : servers[i] # 0 => procs[i][Len(procs[i])].disk = saved'[i]
    BY <1>1, <1>2, CopyFacts DEF CrashInv, PersisterInv, DiskInv
  <2> QED BY <1>2, <1>5, <2>1, <2>2, <2>3, Zenon DEF DiskInv
<1>8. OldInstanceIsolated'
  <2>1. \A i \in Server : servers[i] # 0 => persisters'[saved'[i]] = persisters[saved[i]]
    BY <1>1, <1>2, CopyFacts, Zenon
  <2> QED BY <1>2, <2>1, Zenon DEF CrashInv, PersisterInv, OldInstanceIsolated
<1>9. \A c \in CallId : CallOk(c, calls[c])'
  BY <1>1, <1>2, CopyCalls, Zenon
<1> QED BY <1>3, <1>4, <1>5, <1>6, <1>7, <1>8, <1>9, Zenon DEF CrashInv, PersisterInv

\* start1 makes an instance with ends and a Persister of its own.
LEMMA MakeKeeps ==
  ASSUME CrashInv, StartMake
  PROVE  CrashInv'
<1> DEFINE s == test.i
           new == [ends |-> FreshEnds(s), disk |-> Len(persisters) + 1]
           es == {<<s, FreshEnds(s), j>> : j \in Server}
<1>1. /\ test.step = "make" /\ s \in Server /\ servers[s] = 0
      /\ test.then = "start" /\ started[s] < MaxServer
  BY Zenon DEF StartMake, CrashInv, PersisterInv, TestInv
<1>2. Copy(s) /\ MakeEnds([e \in es |-> e[3]])
  BY Zenon DEF StartMake
<1>3. /\ UNCHANGED <<servers, started, reliable, calls>>
      /\ endnames' = [endnames EXCEPT ![s] = FreshEnds(s)]
      /\ booted' = [booted EXCEPT ![s] = persisters[saved[s]]]
      /\ test' = [test EXCEPT !.step = "add"]
  BY Zenon DEF StartMake
<1>4. procs' = [procs EXCEPT ![s] = Append(procs[s], new)]
  BY <1>1, <1>2, CopyFacts, ZenonT(30) DEF StartMake
<1>5. /\ procs \in [Server -> Seq(Instance)] /\ endnames \in [Server -> Nat]
      /\ started \in [Server -> Nat] /\ booted \in [Server -> SUBSET CallId]
      /\ \A i \in Server : ~ Unregistered(i)
  BY <1>1, Zenon DEF CrashInv, StateType, Unregistered
<1>6. endnames[s] = started[s] /\ FreshEnds(s) \in Nat /\ new \in Instance
  BY <1>1, <1>2, <1>5, CopyFacts DEF CrashInv, PersisterInv, InstanceInv, FreshEnds, Instance
<1>7. /\ Append(procs[s], new) \in Seq(Instance)
      /\ Len(Append(procs[s], new)) = Len(procs[s]) + 1 /\ Len(procs[s]) \in Nat
      /\ \A n \in 1..Len(procs[s]) : Append(procs[s], new)[n] = procs[s][n]
      /\ Append(procs[s], new)[Len(procs[s]) + 1] = new
  <2>1. procs[s] \in Seq(Instance)
    BY <1>1, <1>5, Zenon
  <2> HIDE DEF new, s
  <2> QED BY <1>6, <2>1, AppendProperties, LenProperties
<1>8. /\ procs' \in [Server -> Seq(Instance)]
      /\ procs'[s] = Append(procs[s], new)
      /\ \A i \in Server : i # s => procs'[i] = procs[i]
  BY <1>1, <1>4, <1>5, <1>7, Zenon
<1>9. test' = [step |-> "add", i |-> s, todo |-> test.todo, then |-> test.then]
  BY <1>3, Zenon DEF CrashInv, PersisterInv, TestInv
<1>10. \A i \in Server : Unregistered(i)' <=> i = s
  BY <1>9, Zenon DEF Unregistered
<1>11. es \subseteq End
  BY <1>1, <1>5, <1>6, EndAssumption, SMTT(20) DEF FreshEnds, Ends
<1>12. made \subseteq End /\ connections \in [End -> Server \union {None}]
  BY Zenon DEF CrashInv, StateType
<1>13. made' = made \union es /\ connections' \in [End -> Server \union {None}]
  BY <1>2, <1>12 DEF MakeEnds
<1> HIDE DEF es, new
<1>14. booted' \in [Server -> SUBSET CallId] /\ booted'[s] = persisters[saved[s]]
       /\ \A i \in Server : i # s => booted'[i] = booted[i]
  <2>1. persisters[saved[s]] \in SUBSET CallId
    BY <1>1, ElementOfSeq, Zenon DEF CrashInv, StateType
  <2> QED BY <1>1, <1>3, <1>5, <2>1, Zenon
<1>15. StateType'
  <2>1. endnames' \in [Server -> Nat]
    BY <1>3, <1>5, <1>6, ZenonT(30)
  <2> QED BY <1>1, <1>2, <1>3, <1>8, <1>11, <1>12, <1>13, <1>14, <2>1, CopyFacts, ZenonT(30)
          DEF CrashInv, StateType
<1>16. TestInv'
  BY <1>1, <1>3, <1>9, ZenonT(30) DEF TestInv
<1>17. InstanceInv'
  <2> SUFFICES ASSUME NEW i \in Server
               PROVE  /\ servers[i] \in {0, started[i]}
                      /\ endnames'[i] = Len(procs'[i])
                      /\ Len(procs'[i]) = IF i = s THEN started[i] + 1 ELSE started[i]
    BY <1>3, <1>10, Zenon DEF InstanceInv
  <2>1. servers[i] \in {0, started[i]} /\ endnames[i] = Len(procs[i]) /\ Len(procs[i]) = started[i]
    BY <1>5, Zenon DEF CrashInv, PersisterInv, InstanceInv
  <2>2. CASE i = s
    BY <1>1, <1>3, <1>5, <1>7, <1>8, <2>1, <2>2, Zenon DEF FreshEnds
  <2>3. CASE i # s
    BY <1>3, <1>5, <1>8, <2>1, <2>3, Zenon
  <2> QED BY <2>2, <2>3, Zenon
<1>18. DiskInv'
  <2>1. \A i, j \in Server : saved'[i] = saved'[j] => i = j
    BY <1>1, <1>2, CopyFacts DEF CrashInv, PersisterInv, DiskInv
  <2>2. new.disk = Len(persisters) + 1
    BY Zenon DEF new
  <2>3. ASSUME NEW i \in Server, NEW j \in Server, NEW n \in 1..Len(procs'[i])
        PROVE  /\ procs'[i][n].disk \in 1..Len(persisters')
               /\ procs'[i][n].disk = saved'[j] => i = j /\ n = Len(procs'[i])
    <3>1. CASE n \in 1..Len(procs[i])
      <4>1. procs'[i][n] = procs[i][n] /\ (i # s => Len(procs'[i]) = Len(procs[i]))
        BY <1>7, <1>8, <3>1, ZenonT(30)
      <4>2. /\ procs[i][n].disk \in 1..Len(persisters)
            /\ procs[i][n].disk = saved[j] => i = j /\ n = Len(procs[i])
        BY <3>1, Zenon DEF CrashInv, PersisterInv, DiskInv
      <4> QED BY <1>1, <1>2, <4>1, <4>2, CopyFacts, SMTT(20)
    <3>2. CASE n \notin 1..Len(procs[i])
      <4>1. i = s /\ n = Len(procs[s]) + 1 /\ n = Len(procs'[i])
        BY <1>7, <1>8, <2>3, <3>2
      <4>2. procs'[i][n].disk = Len(persisters) + 1
        BY <1>7, <1>8, <2>2, <4>1, Zenon
      <4> QED BY <1>1, <1>2, <4>1, <4>2, CopyFacts
    <3> QED BY <3>1, <3>2, Zenon
  <2>4. ASSUME NEW i \in Server, servers[i] # 0 \/ i = s
        PROVE  procs'[i][Len(procs'[i])].disk = saved'[i]
    <3>1. CASE i = s
      <4>1. Len(procs'[s]) = Len(procs[s]) + 1 /\ procs'[s][Len(procs[s]) + 1] = new
        BY <1>7, <1>8, Zenon
      <4>2. saved'[s] = Len(persisters) + 1
        BY <1>1, <1>2, CopyFacts, Zenon
      <4> QED BY <2>2, <3>1, <4>1, <4>2, Zenon
    <3>2. CASE i # s
      <4>1. procs'[i] = procs[i] /\ saved'[i] = saved[i]
        BY <1>1, <1>2, <1>8, <3>2, CopyFacts, Zenon
      <4>2. procs[i][Len(procs[i])].disk = saved[i]
        BY <2>4, <3>2, Zenon DEF CrashInv, PersisterInv, DiskInv
      <4> QED BY <4>1, <4>2, Zenon
    <3> QED BY <3>1, <3>2, Zenon
  <2> QED BY <1>3, <1>10, <2>1, <2>3, <2>4, Zenon DEF DiskInv
<1>19. OldInstanceIsolated'
  <2>1. \A i \in Server : servers[i] # 0 =>
          persisters'[saved'[i]] = persisters[saved[i]] /\ booted'[i] = booted[i]
    BY <1>1, <1>2, <1>14, CopyFacts
  <2> QED BY <1>3, <2>1, Zenon DEF CrashInv, PersisterInv, OldInstanceIsolated
<1>20. \A c \in CallId : CallOk(c, calls[c])'
  <2>1. \A i \in Server : \A n \in 1..Len(procs[i]) : procs'[i][n] = procs[i][n]
    BY <1>7, <1>8, Zenon
  <2> QED BY <1>1, <1>2, <1>3, <1>13, <2>1, CopyCalls, Zenon
<1>21. \A i \in Server : Unregistered(i)' => (persisters[saved[i]] \subseteq booted[i])'
  BY <1>1, <1>2, <1>10, <1>14, CopyFacts, SMTT(20)
<1> QED BY <1>15, <1>16, <1>17, <1>18, <1>19, <1>20, <1>21, Zenon DEF CrashInv, PersisterInv

\* AddServer registers the instance start1 made; none of its handlers has run.
LEMMA AddKeeps ==
  ASSUME CrashInv, StartAdd
  PROVE  CrashInv'
<1> DEFINE s == test.i
<1>1. test.step = "add" /\ s \in Server /\ servers[s] = 0
  BY Zenon DEF StartAdd, CrashInv, PersisterInv, TestInv
<1>2. /\ UNCHANGED <<made, connections, reliable, calls, endnames, procs, persisters,
                      saved, booted>>
      /\ started' = [started EXCEPT ![s] = started[s] + 1]
      /\ servers' = [servers EXCEPT ![s] = started[s] + 1]
      /\ test' = Idle
  BY Zenon DEF StartAdd, AddServer
<1>3. started \in [Server -> Nat] /\ servers \in [Server -> Nat]
  BY Zenon DEF CrashInv, StateType
<1>4. /\ started' \in [Server -> Nat] /\ servers' \in [Server -> Nat]
      /\ started'[s] = started[s] + 1 /\ servers'[s] = started[s] + 1
      /\ \A i \in Server : i # s => started'[i] = started[i] /\ servers'[i] = servers[i]
  BY <1>1, <1>2, <1>3
<1>5. StateType'
  BY <1>2, <1>4, Zenon DEF CrashInv, StateType
<1>6. TestInv' /\ \A i \in Server : ~ Unregistered(i)'
  BY <1>2, Zenon DEF TestInv, Unregistered, Idle
<1>7. \A i \in Server : Unregistered(i) <=> i = s
  BY <1>1, Zenon DEF Unregistered
<1>8. InstanceInv'
  BY <1>2, <1>3, <1>4, <1>6, <1>7, Zenon DEF CrashInv, PersisterInv, InstanceInv
<1>9. DiskInv'
  BY <1>2, <1>4, <1>6, <1>7, SMTT(20) DEF CrashInv, PersisterInv, DiskInv
<1>10. OldInstanceIsolated'
  <2>1. persisters[saved[s]] \ booted[s] = {}
    BY <1>1, <1>7, Zenon DEF CrashInv, PersisterInv
  <2> QED BY <1>2, <1>4, <2>1, Zenon DEF CrashInv, PersisterInv, OldInstanceIsolated
<1>11. \A c \in CallId : CallOk(c, calls[c])'
  <2>1. \A i \in Server : started'[i] \in Nat /\ started[i] <= started'[i]
    BY <1>3, <1>4
  <2> QED BY <1>2, <2>1, GrowKeeps, Zenon
<1> QED BY <1>5, <1>6, <1>8, <1>9, <1>10, <1>11, Zenon DEF CrashInv, PersisterInv

-----------------------------------------------------------------------------
(***************************************************************************)
(* Old instances are silent.                                               *)
(***************************************************************************)
EndType ==
  /\ enabled \in [End -> BOOLEAN] /\ done \in BOOLEAN
  /\ connected \in [Server -> BOOLEAN] /\ late \subseteq CallId
  /\ \A i \in Server : started[i] \in 1..MaxServer
  /\ test.step = "enable" => test.todo \in Seq([end : End, on : BOOLEAN]) /\ test.todo # <<>>

Silence == EndType /\ SilentInv

\* The part of EndsOff about an instance that start1 is about to replace.
Going == test.then = "start" /\ test.step \in {"enable", "delete", "copy", "make"}
EndOf(i, j) == <<i, endnames[i], j>>
Todo(e) == test.step = "enable" /\ \E x \in 1..Len(test.todo) : test.todo[x].end = e
GoingOff == Going => \A j \in Server \ {test.i} : ~ enabled[EndOf(test.i, j)] \/ Todo(EndOf(test.i, j))
OldOff ==
  \A i, j \in Server : \A g \in 1..MaxServer :
    i # j /\ g < endnames[i] => ~ enabled[<<i, g, j>>]

LEMMA EndsOffParts == EndsOff <=> OldOff /\ GoingOff
BY Zenon DEF EndsOff, OldOff, GoingOff, Going, EndOf, Todo

\* Names are drawn one after the other, within the bound.
LEMMA EndBounds ==
  ASSUME CrashInv, Silence, NEW i \in Server
  PROVE  /\ endnames[i] \in 1..MaxServer /\ Len(procs[i]) = endnames[i]
         /\ test.step = "make" /\ test.i = i => endnames[i] + 1 \in 1..MaxServer
<1>1. /\ endnames[i] = Len(procs[i])
      /\ Len(procs[i]) = IF Unregistered(i) THEN started[i] + 1 ELSE started[i]
  BY Zenon DEF CrashInv, PersisterInv, InstanceInv
<1>2. started[i] \in 1..MaxServer /\ MaxServer \in Nat
  BY EndAssumption, Zenon DEF Silence, EndType
<1>3. test.step \in {"make", "add"} /\ test.i = i => started[i] < MaxServer
  BY Zenon DEF CrashInv, PersisterInv, TestInv
<1>4. CASE Unregistered(i)
  BY <1>1, <1>2, <1>3, <1>4 DEF Unregistered
<1>5. CASE ~ Unregistered(i)
  BY <1>1, <1>2, <1>3, <1>5
<1> QED BY <1>4, <1>5, Zenon

\* A step of a call leaves the ends alone.
LEMMA CallSilence ==
  ASSUME Silence, UNCHANGED <<enabled, done, connected, started, procs, endnames, test>>,
         late' \subseteq CallId, \A d \in late' : LateCall(d)'
  PROVE  Silence'
<1>1. EndType'
  BY Zenon DEF Silence, EndType
<1>2. TodoInv' /\ EndsOff'
  BY Zenon DEF Silence, SilentInv, TodoInv, EndsOff
<1>3. \A i \in Server : \A n \in 1..Len(procs'[i]) : procs'[i][n].ends = n
  BY Zenon DEF Silence, SilentInv
<1> QED BY <1>1, <1>2, <1>3, Zenon DEF Silence, SilentInv

\* A step of the test leaves the calls and the instances alone, but for StartMake.
LEMMA TestSilence ==
  ASSUME Silence, UNCHANGED <<calls, late, procs, endnames>>, EndType', TodoInv', EndsOff'
  PROVE  Silence'
<1>1. \A c \in late' : LateCall(c)'
  BY Zenon DEF Silence, SilentInv, LateCall
<1>2. \A i \in Server : \A n \in 1..Len(procs'[i]) : procs'[i][n].ends = n
  BY Zenon DEF Silence, SilentInv
<1> QED BY <1>1, <1>2, Zenon DEF Silence, SilentInv

\* A late call of which nothing changes is as it was.
LEMMA LateStays ==
  ASSUME Silence, UNCHANGED endnames, NEW d \in late, calls'[d] = calls[d]
  PROVE  LateCall(d)'
BY Zenon DEF Silence, SilentInv, LateCall

\* A call of an old instance finds its end disabled.
LEMMA LateUnreachable ==
  ASSUME Silence, NEW c \in late
  PROVE  ~ enabled[calls[c].end]
<1>1. PICK i \in Server, j \in Server, g \in 1..MaxServer :
        i # j /\ g < endnames[i] /\ calls[c].end = <<i, g, j>>
  BY Zenon DEF Silence, SilentInv, LateCall
<1>2. OldOff
  BY EndsOffParts, Zenon DEF Silence, SilentInv
<1>3. ~ enabled[<<i, g, j>>]
  BY <1>1, <1>2, Zenon DEF OldOff
<1> QED BY <1>1, <1>3, Zenon

\* A step of the network takes a late call at most to its failure.
LEMMA NetworkSilence ==
  ASSUME CrashInv, Silence, NEW c \in CallId, NetworkStep(c)
  PROVE  Silence'
<1>1. UNCHANGED netVars /\ UNCHANGED <<cfgVars, late>>
  BY Zenon DEF NetworkStep, CallDestroyed, processReq, readEndnameInfo, Unreachable, Timeout,
     DropRequest, Dispatch, GetReply, Tick, FinalCheck, DropReply, Reply
<1>2. calls \in [CallId -> Request] /\ late \subseteq CallId
  BY Zenon DEF CrashInv, StateType, Silence, EndType
<1>3. \A d \in CallId : d # c => calls'[d] = calls[d]
  BY <1>2, ZenonT(30) DEF NetworkStep, CallDestroyed, processReq, readEndnameInfo, Unreachable,
     Timeout, DropRequest, Dispatch, GetReply, Tick, FinalCheck, DropReply, Reply, Go, Return
<1>4. ASSUME c \in late PROVE LateCall(c)'
  <2>1. LateCall(c) /\ ~ Reachable(calls[c].end)
    BY <1>4, LateUnreachable, Zenon DEF Silence, SilentInv, Reachable
  <2>2. calls[c].phase \in {"sent", "lost", "returned"}
    BY <2>1, Zenon DEF LateCall
  <2>3. Unreachable(c) \/ Timeout(c)
    BY <2>1, <2>2, Zenon DEF NetworkStep, CallDestroyed, processReq, readEndnameInfo,
       DropRequest, Dispatch, GetReply, Tick, FinalCheck, DropReply, Reply, In
  <2>4. /\ calls'[c].phase \in {"lost", "returned"} /\ calls'[c].handler = calls[c].handler
        /\ calls'[c].end = calls[c].end /\ (calls'[c].ok = calls[c].ok \/ calls'[c].ok = FALSE)
    BY <1>2, <2>3 DEF Unreachable, Timeout, Go, Return, Request
  <2> QED BY <1>1, <2>1, <2>4, Zenon DEF LateCall, cfgVars
<1>5. \A d \in late' : LateCall(d)'
  BY <1>1, <1>2, <1>3, <1>4, LateStays, Zenon DEF cfgVars
<1> QED BY <1>1, <1>2, <1>5, CallSilence, Zenon DEF netVars, cfgVars

\* Handlers belong to calls that are not late.
LEMMA HandlerSilence ==
  ASSUME CrashInv, Silence, NEW c \in CallId, HandlerSave(c) \/ HandlerDone(c)
  PROVE  Silence'
<1>1. UNCHANGED <<netVars, late, connected, endnames, procs, test>>
  BY Zenon DEF HandlerSave, HandlerDone, HandlerReturn, rpcVars, cfgVars
<1>2. calls \in [CallId -> Request] /\ late \subseteq CallId
  BY Zenon DEF CrashInv, StateType, Silence, EndType
<1>3. c \notin late
  BY Zenon DEF Silence, SilentInv, LateCall, HandlerSave, HandlerDone, HandlerReturn
<1>4. \A d \in CallId : d # c => calls'[d] = calls[d]
  BY <1>2, Zenon DEF HandlerSave, HandlerDone, HandlerReturn, rpcVars
<1>5. \A d \in late' : LateCall(d)'
  BY <1>1, <1>2, <1>3, <1>4, LateStays, Zenon
<1> QED BY <1>1, <1>2, <1>5, CallSilence, Zenon DEF netVars

\* An instance that was replaced calls through an old end.
LEMMA SendSilence ==
  ASSUME CrashInv, Silence, NEW c \in CallId, NEW i \in Server, NEW j \in Server, i # j,
         NEW n \in 1..MaxServer, SendCall(c, i, n, j)
  PROVE  Silence'
<1>1. UNCHANGED <<netVars, cfgVars>> /\ late' \subseteq late \union {c}
  BY Zenon DEF SendCall, Call
<1>2. calls \in [CallId -> Request] /\ late \subseteq CallId
  BY Zenon DEF CrashInv, StateType, Silence, EndType
<1>3. /\ calls' = [calls EXCEPT ![c].phase = "sent", ![c].end = <<i, procs[i][n].ends, j>>]
      /\ calls[c].phase = "idle"
  BY Zenon DEF SendCall, Call, In
<1>4. \A d \in CallId : d # c => calls'[d] = calls[d]
  BY <1>2, <1>3, Zenon
<1>5. c \notin late
  BY <1>3, Zenon DEF Silence, SilentInv, LateCall
<1>6. ASSUME c \in late' PROVE LateCall(c)'
  <2>1. n < Len(procs[i]) /\ n \in 1..Len(procs[i])
    BY <1>5, <1>6, Zenon DEF SendCall
  <2>2. procs[i][n].ends = n /\ endnames[i] = Len(procs[i])
    BY <2>1, EndBounds, Zenon DEF Silence, SilentInv
  <2>3. /\ calls'[c].phase = "sent" /\ calls'[c].end = <<i, n, j>>
        /\ calls'[c].handler = calls[c].handler /\ calls'[c].ok = calls[c].ok
    BY <1>2, <1>3, <2>2 DEF Request
  <2>4. calls[c].handler = "none" /\ ~ calls[c].ok
    BY <1>3, Zenon DEF CrashInv, PersisterInv, CallOk
  <2> QED BY <1>1, <2>1, <2>2, <2>3, <2>4, Zenon DEF LateCall, cfgVars
<1>7. \A d \in late' : LateCall(d)'
  BY <1>1, <1>2, <1>4, <1>6, LateStays, Zenon DEF cfgVars
<1> QED BY <1>1, <1>2, <1>7, CallSilence, Zenon DEF netVars, cfgVars

\* The peers of a loop are a sequence.
LEMMA InOrderSeq ==
  ASSUME NEW P \in SUBSET Server, NEW q \in InOrder(P)
  PROVE  /\ q \in Seq(P) /\ \A j \in P : \E x \in 1..Len(q) : q[x] = j
<1>1. IsFiniteSet(P)
  <2>1. N \in Int /\ 1 \in Int
    BY ServerAssumption
  <2>2. IsFiniteSet(Server)
    BY <2>1, ServerAssumption, FS_Interval, Zenon
  <2> QED BY <2>2, FS_Subset, Zenon
<1>2. Cardinality(P) \in Nat
  BY <1>1, FS_CardinalityType, Zenon
<1>3. q \in [1..Cardinality(P) -> P] /\ \A j \in P : \E x \in DOMAIN q : q[x] = j
  BY Zenon DEF InOrder
<1> QED BY <1>2, <1>3

\* Enables that connect, disconnect and EnableNext may have left: of ends in use.
Fit(todo, then) ==
  /\ todo \in Seq([end : End, on : BOOLEAN])
  /\ \A x \in 1..Len(todo) :
       /\ \E a, b \in Server : todo[x].end = <<a, endnames[a], b>>
       /\ then = "start" => ~ todo[x].on

\* The Enables of a loop fit, and name every outgoing end.
LEMMA TogglesFit ==
  ASSUME CrashInv, Silence, NEW i \in Server, NEW others \in Seq(Server), NEW on \in BOOLEAN,
         NEW then, then = "start" => ~ on
  PROVE  /\ Fit(Toggles(i, others, on), then)
         /\ \A x \in 1..Len(others) :
              \E y \in 1..Len(Toggles(i, others, on)) :
                 Toggles(i, others, on)[y].end = <<i, endnames[i], others[x]>>
<1> DEFINE k == Len(others)
           t == Toggles(i, others, on)
           entry(x) == [end |-> IF x <= k THEN <<i, endnames[i], others[x]>>
                                ELSE <<others[x - k], endnames[others[x - k]], i>>,
                        on |-> on]
<1>1. k \in Nat
  OBVIOUS
<1>2. t = [x \in 1..(2 * k) |-> entry(x)]
  BY Zenon DEF Toggles
<1>3. \A a, b \in Server : <<a, endnames[a], b>> \in End
  <2> SUFFICES ASSUME NEW a \in Server, NEW b \in Server PROVE <<a, endnames[a], b>> \in End
    OBVIOUS
  <2>1. endnames[a] \in 1..MaxServer
    BY EndBounds, Zenon
  <2> QED BY <2>1, EndAssumption DEF Ends
<1>4. ASSUME NEW x \in 1..(2 * k)
      PROVE  \E a, b \in Server : entry(x).end = <<a, endnames[a], b>>
  <2>1. CASE x <= k
    <3>1. others[x] \in Server
      BY <2>1
    <3>2. entry(x).end = <<i, endnames[i], others[x]>>
      BY <2>1
    <3> QED BY <3>1, <3>2, Zenon
  <2>2. CASE ~ (x <= k)
    <3>1. x - k \in 1..k
      BY <1>1, <2>2
    <3>2. others[x - k] \in Server
      BY <3>1
    <3>3. entry(x).end = <<others[x - k], endnames[others[x - k]], i>>
      BY <2>2
    <3> QED BY <3>2, <3>3, Zenon
  <2> QED BY <2>1, <2>2
<1>5. \A x \in 1..(2 * k) : entry(x) \in [end : End, on : BOOLEAN] /\ entry(x).on = on
  <2> SUFFICES ASSUME NEW x \in 1..(2 * k)
               PROVE  entry(x) \in [end : End, on : BOOLEAN] /\ entry(x).on = on
    OBVIOUS
  <2>1. entry(x).end \in End
    BY <1>3, <1>4, Zenon
  <2>2. entry(x) = [end |-> entry(x).end, on |-> on]
    OBVIOUS
  <2> HIDE DEF entry
  <2> QED BY <2>1, <2>2
<1>6. \A x \in 1..k : entry(x).end = <<i, endnames[i], others[x]>>
  OBVIOUS
<1> HIDE DEF entry, k, t
<1>7. 2 * k \in Nat /\ \A x \in 1..k : x \in 1..(2 * k)
  BY <1>1
<1>8. t \in Seq([end : End, on : BOOLEAN]) /\ Len(t) = 2 * k
      /\ \A x \in 1..(2 * k) : t[x] = entry(x)
  <2> DEFINE m == 2 * k
             R == [end : End, on : BOOLEAN]
  <2> HIDE DEF m, R
  <2>1. t \in [1..m -> R] /\ \A x \in 1..m : t[x] = entry(x)
    BY <1>2, <1>5, Zenon DEF m, R
  <2>2. m \in Nat
    BY <1>7, Zenon DEF m
  <2>3. t \in Seq(R) /\ Len(t) = m
    BY <2>1, <2>2
  <2> QED BY <2>1, <2>3, Zenon DEF m, R
<1>9. Fit(t, then)
  <2>1. \A x \in 1..Len(t) : t[x].on = on
    BY <1>5, <1>8, Zenon
  <2>2. \A x \in 1..Len(t) : \E a, b \in Server : t[x].end = <<a, endnames[a], b>>
    <3> SUFFICES ASSUME NEW x \in 1..(2 * k)
                 PROVE  \E a, b \in Server : t[x].end = <<a, endnames[a], b>>
      BY <1>8, Zenon
    <3>1. PICK a \in Server, b \in Server : entry(x).end = <<a, endnames[a], b>>
      BY <1>4, Zenon
    <3>2. t[x].end = entry(x).end
      BY <1>8, Zenon
    <3> QED BY <3>1, <3>2, Zenon
  <2> QED BY <1>8, <2>1, <2>2, Zenon DEF Fit
<1>10. \A x \in 1..k : \E y \in 1..Len(t) : t[y].end = <<i, endnames[i], others[x]>>
  BY <1>6, <1>7, <1>8, Zenon
<1> QED BY <1>9, <1>10, Zenon DEF t, k

\* Going on with Enables that fit keeps the ends in order.
LEMMA ToggleEnds ==
  ASSUME NEW i \in Server, NEW todo, NEW then, Toggle(i, todo, then), Fit(todo, then),
         UNCHANGED endnames, OldOff',
         then = "start" => \A j \in Server \ {i} :
            ~ enabled'[EndOf(i, j)] \/ \E x \in 1..Len(todo) : todo[x].end = EndOf(i, j)
  PROVE  /\ TodoInv' /\ EndsOff'
         /\ test'.step = "enable" =>
              test'.todo \in Seq([end : End, on : BOOLEAN]) /\ test'.todo # <<>>
<1>1. CASE todo # <<>>
  <2>1. test' = [step |-> "enable", i |-> i, todo |-> todo, then |-> then]
    BY <1>1, Zenon DEF Toggle
  <2>2. test'.step = "enable" /\ test'.i = i /\ test'.todo = todo /\ test'.then = then
    BY <2>1, Zenon
  <2>3. TodoInv'
    BY <2>2, Zenon DEF TodoInv, Fit
  <2>4. GoingOff'
    BY <2>2, Zenon DEF GoingOff, Going, EndOf, Todo
  <2>5. EndsOff'
    BY <2>4, EndsOffParts, PTL
  <2> QED BY <1>1, <2>2, <2>3, <2>5, Zenon DEF Fit
<1>2. CASE todo = <<>> /\ then = "idle"
  <2>1. test' = Idle
    BY <1>2, Zenon DEF Toggle
  <2>2. test'.step = "idle"
    BY <2>1, Zenon DEF Idle
  <2>3. TodoInv' /\ GoingOff'
    BY <2>2, Zenon DEF TodoInv, GoingOff, Going
  <2>4. EndsOff'
    BY <2>3, EndsOffParts, PTL
  <2> QED BY <2>2, <2>3, <2>4, Zenon
<1>3. CASE todo = <<>> /\ then # "idle"
  <2>1. test' = [step |-> "delete", i |-> i, todo |-> <<>>, then |-> then]
    BY <1>3, Zenon DEF Toggle
  <2>2. test'.step = "delete" /\ test'.i = i /\ test'.then = then
    BY <2>1, Zenon
  <2>3. ~ \E x \in 1..Len(todo) : TRUE
    BY <1>3
  <2>4. TodoInv' /\ GoingOff'
    BY <2>2, <2>3, Zenon DEF TodoInv, GoingOff, Going, EndOf
  <2>5. EndsOff'
    BY <2>4, EndsOffParts, PTL
  <2> QED BY <2>2, <2>4, <2>5, Zenon
<1> QED BY <1>1, <1>2, <1>3, Zenon

\* connect and disconnect put Enables that fit before the test.
LEMMA ConnectSilence ==
  ASSUME CrashInv, Silence, NEW i \in Server, connect(i)
  PROVE  Silence'
<1> DEFINE P == {j \in Server : connected[j]}
<1>1. PICK q \in InOrder(P) : Toggle(i, Toggles(i, q, TRUE), "idle")
  BY Zenon DEF connect
<1>2. UNCHANGED <<enabled, done, started, calls, late, procs, endnames>>
      /\ connected' = [connected EXCEPT ![i] = TRUE]
  BY Zenon DEF connect, rpcVars, netVars
<1>3. q \in Seq(Server)
  BY <1>1, InOrderSeq, SeqMonotonic
<1>4. Fit(Toggles(i, q, TRUE), "idle")
  BY <1>3, TogglesFit, Zenon
<1>5. OldOff'
  BY <1>2, EndsOffParts, Zenon DEF Silence, SilentInv, OldOff
<1>6. /\ TodoInv' /\ EndsOff'
      /\ test'.step = "enable" =>
           test'.todo \in Seq([end : End, on : BOOLEAN]) /\ test'.todo # <<>>
  BY <1>1, <1>2, <1>4, <1>5, ToggleEnds, Zenon
<1>7. EndType'
  BY <1>2, <1>6, Zenon DEF Silence, EndType
<1> QED BY <1>2, <1>6, <1>7, TestSilence, Zenon

LEMMA DisconnectSilence ==
  ASSUME CrashInv, Silence, NEW i \in Server, NEW then, disconnect(i, then)
  PROVE  Silence'
<1>1. PICK q \in InOrder(Server \ {i}) : Toggle(i, Toggles(i, q, FALSE), then)
  BY Zenon DEF disconnect
<1>2. UNCHANGED <<enabled, done, started, calls, late, procs, endnames>>
      /\ connected' = [connected EXCEPT ![i] = FALSE]
  BY Zenon DEF disconnect, rpcVars, netVars
<1>3. q \in Seq(Server \ {i}) /\ \A j \in Server \ {i} : \E x \in 1..Len(q) : q[x] = j
  <2>1. Server \ {i} \in SUBSET Server
    BY Zenon
  <2> QED BY <1>1, <2>1, InOrderSeq, Zenon
<1>4. q \in Seq(Server)
  BY <1>3, SeqMonotonic
<1>5. /\ Fit(Toggles(i, q, FALSE), then)
      /\ \A x \in 1..Len(q) : \E y \in 1..Len(Toggles(i, q, FALSE)) :
           Toggles(i, q, FALSE)[y].end = <<i, endnames[i], q[x]>>
  BY <1>4, TogglesFit, Zenon
<1>6. \A j \in Server \ {i} : \E y \in 1..Len(Toggles(i, q, FALSE)) :
        Toggles(i, q, FALSE)[y].end = EndOf(i, j)
  BY <1>3, <1>5, Zenon DEF EndOf
<1>7. OldOff'
  BY <1>2, EndsOffParts, Zenon DEF Silence, SilentInv, OldOff
<1>8. /\ TodoInv' /\ EndsOff'
      /\ test'.step = "enable" =>
           test'.todo \in Seq([end : End, on : BOOLEAN]) /\ test'.todo # <<>>
  BY <1>1, <1>2, <1>5, <1>6, <1>7, ToggleEnds, Zenon
<1>9. EndType'
  BY <1>2, <1>8, Zenon DEF Silence, EndType
<1> QED BY <1>2, <1>8, <1>9, TestSilence, Zenon

\* An Enable is of an end in use, and takes the first off the list.
LEMMA EnableSilence ==
  ASSUME CrashInv, Silence, EnableNext
  PROVE  Silence'
<1> DEFINE i == test.i
           todo == test.todo
           e == todo[1].end
           on == todo[1].on
           rest == Tail(todo)
           R == [end : End, on : BOOLEAN]
<1>1. /\ test.step = "enable" /\ i \in Server /\ todo \in Seq(R) /\ todo # <<>>
  BY Zenon DEF EnableNext, CrashInv, PersisterInv, TestInv, Silence, EndType
<1>2. /\ enabled' = [enabled EXCEPT ![e] = on] /\ Toggle(i, rest, test.then)
      /\ UNCHANGED <<done, connected, started, calls, late, procs, endnames>>
  <2>1. Head(todo) = todo[1]
    BY <1>1
  <2> QED BY <2>1, Zenon DEF EnableNext, Enable
<1>3. /\ 1 \in 1..Len(todo) /\ todo[1] \in R
      /\ rest \in Seq(R) /\ Len(rest) = Len(todo) - 1
      /\ \A x \in 1..Len(rest) : rest[x] = todo[x + 1] /\ x + 1 \in 1..Len(todo)
      /\ \A x \in 1..Len(todo) : x # 1 => x - 1 \in 1..Len(rest) /\ rest[x - 1] = todo[x]
  <2> HIDE DEF todo, R
  <2> QED BY <1>1 DEF rest
<1>4. e \in End /\ on \in BOOLEAN
  BY <1>3
<1> HIDE DEF e, on, todo, i, R
<1>5. enabled' \in [End -> BOOLEAN]
      /\ \A d \in End : enabled'[d] = IF d = e THEN on ELSE enabled[d]
  BY <1>2, <1>4, Zenon DEF Silence, EndType
<1>6. \A x \in 1..Len(todo) :
        /\ \E a, b \in Server : todo[x].end = <<a, endnames[a], b>>
        /\ test.then = "start" => ~ todo[x].on
  BY <1>1, Zenon DEF Silence, SilentInv, TodoInv, todo
<1>7. Fit(rest, test.then)
  <2>1. \A x \in 1..Len(rest) : rest[x] = todo[x + 1] /\ x + 1 \in 1..Len(todo)
    BY <1>3, Zenon
  <2> HIDE DEF rest
  <2>2. ASSUME NEW x \in 1..Len(rest)
        PROVE  /\ \E a, b \in Server : rest[x].end = <<a, endnames[a], b>>
               /\ test.then = "start" => ~ rest[x].on
    <3>1. PICK y \in 1..Len(todo) : rest[x] = todo[y]
      BY <2>1, Zenon
    <3>2. PICK a \in Server, b \in Server : todo[y].end = <<a, endnames[a], b>>
      BY <1>6, Zenon
    <3>3. rest[x].end = <<a, endnames[a], b>>
      BY <3>1, <3>2, Zenon
    <3>4. test.then = "start" => ~ rest[x].on
      BY <1>6, <3>1, Zenon
    <3> QED BY <3>3, <3>4, Zenon
  <2> QED BY <1>3, <2>2, Zenon DEF Fit, R
<1>8. OldOff'
  <2>1. PICK a \in Server, b \in Server : e = <<a, endnames[a], b>>
    BY <1>3, <1>6, Zenon DEF e
  <2>2. SUFFICES ASSUME NEW p \in Server, NEW q \in Server, NEW g \in 1..MaxServer,
                        p # q, g < endnames[p]
                 PROVE  ~ enabled'[<<p, g, q>>]
    BY <1>2, Zenon DEF OldOff
  <2>3. <<p, g, q>> # e /\ <<p, g, q>> \in End
    <3>1. endnames[p] \in 1..MaxServer
      BY EndBounds, Zenon
    <3>2. g # endnames[p]
      BY <2>2, <3>1
    <3>3. <<p, g, q>> # e
      BY <2>1, <3>2
    <3> QED BY <3>3, EndAssumption DEF Ends
  <2>4. ~ enabled[<<p, g, q>>]
    BY <2>2, EndsOffParts, Zenon DEF Silence, SilentInv, OldOff
  <2> QED BY <1>5, <2>3, <2>4, Zenon
<1>9. test.then = "start" => \A j \in Server \ {i} :
        ~ enabled'[EndOf(i, j)] \/ \E x \in 1..Len(rest) : rest[x].end = EndOf(i, j)
  <2> SUFFICES ASSUME test.then = "start", NEW j \in Server \ {i},
                      enabled'[EndOf(i, j)]
               PROVE  \E x \in 1..Len(rest) : rest[x].end = EndOf(i, j)
    BY Zenon
  <2>1. EndOf(i, j) \in End
    <3>1. endnames[i] \in 1..MaxServer
      BY <1>1, EndBounds, Zenon
    <3> QED BY <1>1, <3>1, EndAssumption DEF Ends, EndOf
  <2>2. ~ on
    BY <1>3, <1>6, Zenon DEF on
  <2>3. EndOf(i, j) # e /\ enabled[EndOf(i, j)]
    BY <1>5, <2>1, <2>2, Zenon
  <2>4. Going /\ GoingOff
    BY <1>1, EndsOffParts, Zenon DEF Going, Silence, SilentInv
  <2>5. Todo(EndOf(i, j))
    BY <2>3, <2>4, Zenon DEF GoingOff, i
  <2>6. PICK x \in 1..Len(todo) : todo[x].end = EndOf(i, j)
    BY <2>5, Zenon DEF Todo, todo
  <2>7. x # 1
    BY <2>3, <2>6, Zenon DEF e
  <2> QED BY <1>3, <2>6, <2>7, Zenon
<1>10. /\ TodoInv' /\ EndsOff'
       /\ test'.step = "enable" =>
            test'.todo \in Seq([end : End, on : BOOLEAN]) /\ test'.todo # <<>>
  BY <1>1, <1>2, <1>7, <1>8, <1>9, ToggleEnds, Zenon
<1>11. EndType'
  BY <1>2, <1>5, <1>10, Zenon DEF Silence, EndType
<1> QED BY <1>2, <1>10, <1>11, TestSilence, Zenon

\* The steps of crash1, and AddServer, leave the ends as they are.
LEMMA CrashSilence ==
  ASSUME CrashInv, Silence, CrashDelete \/ CrashCopy \/ StartAdd
  PROVE  Silence'
<1>1. UNCHANGED <<enabled, done, connected, calls, late, procs, endnames>>
  BY Zenon DEF CrashDelete, CrashCopy, StartAdd, rpcVars, netVars
<1>2. test = [step |-> test.step, i |-> test.i, todo |-> test.todo, then |-> test.then]
  BY Zenon DEF CrashInv, PersisterInv, TestInv
<1>3. OldOff /\ GoingOff
  BY EndsOffParts, Zenon DEF Silence, SilentInv
<1>4. /\ test'.step # "enable"
      /\ Going' => Going /\ test.step # "enable" /\ test'.i = test.i
  <2>1. CASE CrashDelete
    <3>1. test' = [step |-> "copy", i |-> test.i, todo |-> test.todo, then |-> test.then]
          /\ test.step = "delete"
      BY <1>2, <2>1, Zenon DEF CrashDelete
    <3> QED BY <3>1, Zenon DEF Going
  <2>2. CASE CrashCopy /\ test.then = "start"
    <3>1. test' = [step |-> "make", i |-> test.i, todo |-> test.todo, then |-> test.then]
          /\ test.step = "copy"
      BY <1>2, <2>2, Zenon DEF CrashCopy
    <3> QED BY <3>1, Zenon DEF Going
  <2>3. CASE StartAdd \/ (CrashCopy /\ test.then # "start")
    <3>1. test' = Idle
      BY <2>3, Zenon DEF StartAdd, CrashCopy
    <3> QED BY <3>1, Zenon DEF Idle, Going
  <2> QED BY <2>1, <2>2, <2>3, Zenon
<1>5. OldOff' /\ GoingOff' /\ TodoInv'
  <2>1. OldOff'
    BY <1>1, <1>3, Zenon DEF OldOff
  <2>2. GoingOff'
    BY <1>1, <1>3, <1>4, Zenon DEF GoingOff, EndOf, Todo
  <2>3. TodoInv'
    BY <1>4, Zenon DEF TodoInv
  <2> QED BY <2>1, <2>2, <2>3, Zenon
<1>6. EndsOff'
  BY <1>5, EndsOffParts, PTL
<1>7. \A i \in Server : started'[i] \in 1..MaxServer
  <2>1. CASE UNCHANGED started
    BY <2>1, Zenon DEF Silence, EndType
  <2>2. CASE StartAdd
    <3>1. started' = [started EXCEPT ![test.i] = @ + 1] /\ started[test.i] < MaxServer
          /\ test.i \in Server /\ started \in [Server -> Nat]
      BY <2>2, Zenon DEF StartAdd, AddServer, CrashInv, PersisterInv, TestInv, StateType
    <3>2. started[test.i] + 1 \in 1..MaxServer
      BY <3>1, EndAssumption DEF Silence, EndType
    <3> QED BY <3>1, <3>2, Zenon DEF Silence, EndType
  <2> QED BY <2>1, <2>2, Zenon DEF CrashDelete, CrashCopy, rpcVars, netVars
<1>8. EndType'
  BY <1>1, <1>4, <1>7, Zenon DEF Silence, EndType
<1> QED BY <1>1, <1>5, <1>6, <1>8, TestSilence, Zenon

\* start1 makes new ends when those of the last instance are disabled.
LEMMA MakeSilence ==
  ASSUME CrashInv, Silence, StartMake
  PROVE  Silence'
<1> DEFINE s == test.i
           old == endnames[s]
           es == {<<s, FreshEnds(s), j>> : j \in Server}
<1>1. test.step = "make" /\ s \in Server /\ test.then = "start"
      /\ test = [step |-> test.step, i |-> test.i, todo |-> test.todo, then |-> test.then]
  BY Zenon DEF StartMake, CrashInv, PersisterInv, TestInv
<1>2. old \in 1..MaxServer /\ old + 1 \in 1..MaxServer /\ Len(procs[s]) = old
  BY <1>1, EndBounds, Zenon
<1>3. /\ UNCHANGED <<done, connected, started, calls, late>>
      /\ endnames' = [endnames EXCEPT ![s] = old + 1]
      /\ enabled' = [e \in End |-> IF e \in es THEN FALSE ELSE enabled[e]]
      /\ procs' = [procs EXCEPT ![s] = Append(@, [ends |-> old + 1, disk |-> saved'[s]])]
      /\ test' = [test EXCEPT !.step = "add"]
  BY Zenon DEF StartMake, MakeEnds, FreshEnds
<1>4. test'.step = "add"
  BY <1>1, <1>3, Zenon
<1>5. endnames \in [Server -> Nat] /\ procs \in [Server -> Seq(Instance)]
  BY Zenon DEF CrashInv, StateType
<1>6. \A d \in End : enabled'[d] => enabled[d]
  BY <1>3, Zenon
<1>7. enabled' \in [End -> BOOLEAN]
  BY <1>3, Zenon DEF Silence, EndType
<1> HIDE DEF s, old, es
<1>8. \A i \in Server : endnames'[i] = IF i = s THEN old + 1 ELSE endnames[i]
  BY <1>1, <1>3, <1>5, Zenon
<1>9. OldOff'
  <2>1. SUFFICES ASSUME NEW i \in Server, NEW j \in Server, NEW g \in 1..MaxServer,
                        i # j, g < endnames'[i]
                 PROVE  ~ enabled'[<<i, g, j>>]
    BY Zenon DEF OldOff
  <2>2. <<i, g, j>> \in End
    BY EndAssumption DEF Ends
  <2>3. CASE g < endnames[i]
    <3>1. ~ enabled[<<i, g, j>>]
      BY <2>1, <2>3, EndsOffParts, Zenon DEF Silence, SilentInv, OldOff
    <3> QED BY <1>6, <2>2, <3>1, Zenon
  <2>4. CASE ~ (g < endnames[i])
    <3>1. i = s
      BY <1>8, <2>1, <2>4, Zenon
    <3>2. endnames[s] = old
      BY Zenon DEF old
    <3>3. g < old + 1 /\ ~ (g < old)
      BY <1>8, <2>1, <2>4, <3>1, <3>2, Zenon
    <3>4. g = old
      BY <1>2, <3>3
    <3>5. Going /\ GoingOff /\ test.step # "enable"
      BY <1>1, EndsOffParts, Zenon DEF Going, Silence, SilentInv
    <3>6. ~ enabled[EndOf(s, j)]
      BY <2>1, <3>1, <3>5, Zenon DEF GoingOff, Todo, s
    <3>7. EndOf(s, j) = <<i, g, j>>
      BY <3>1, <3>2, <3>4, Zenon DEF EndOf
    <3> QED BY <1>6, <2>2, <3>6, <3>7, Zenon
  <2> QED BY <2>3, <2>4, Zenon
<1>10. TodoInv' /\ GoingOff'
  BY <1>4, Zenon DEF TodoInv, GoingOff, Going
<1>11. EndsOff'
  BY <1>9, <1>10, EndsOffParts, PTL
<1>12. \A i \in Server : \A n \in 1..Len(procs'[i]) : procs'[i][n].ends = n
  <2> SUFFICES ASSUME NEW i \in Server, NEW n \in 1..Len(procs'[i])
               PROVE  procs'[i][n].ends = n
    OBVIOUS
  <2>1. \A m \in 1..Len(procs[i]) : procs[i][m].ends = m
    BY Zenon DEF Silence, SilentInv
  <2>2. CASE i # s
    BY <1>3, <1>5, <2>1, <2>2, Zenon
  <2>3. CASE i = s
    <3> DEFINE q == procs[s]
               new == [ends |-> old + 1, disk |-> saved'[s]]
    <3>1. procs'[s] = Append(q, new) /\ new.ends = old + 1
      BY <1>1, <1>3, <1>5, Zenon
    <3>2. q \in Seq(Instance) /\ Len(q) = old
      BY <1>1, <1>2, <1>5, Zenon
    <3> HIDE DEF q, new
    <3>3. /\ Len(Append(q, new)) = old + 1 /\ Append(q, new)[old + 1] = new
          /\ \A m \in 1..old : Append(q, new)[m] = q[m]
      BY <3>2
    <3>4. n \in 1..(old + 1)
      BY <2>3, <3>1, <3>3, Zenon
    <3>5. n \in 1..old \/ n = old + 1
      BY <1>2, <3>4
    <3> QED BY <2>1, <2>3, <3>1, <3>2, <3>3, <3>5, Zenon DEF q
  <2> QED BY <2>2, <2>3, Zenon
<1>13. \A c \in late' : LateCall(c)'
  <2> SUFFICES ASSUME NEW c \in late PROVE LateCall(c)'
    BY <1>3, Zenon
  <2>1. LateCall(c)
    BY Zenon DEF Silence, SilentInv
  <2>2. PICK i \in Server, j \in Server, g \in 1..MaxServer :
          i # j /\ g < endnames[i] /\ calls[c].end = <<i, g, j>>
    BY <2>1, Zenon DEF LateCall
  <2>3. g < endnames'[i]
    <3>1. CASE i # s
      BY <1>8, <2>2, <3>1, Zenon
    <3>2. CASE i = s
      <4>1. g < old /\ endnames'[i] = old + 1
        BY <1>8, <2>2, <3>2, Zenon DEF old
      <4> QED BY <1>2, <4>1
    <3> QED BY <3>1, <3>2, Zenon
  <2> QED BY <1>3, <2>1, <2>2, <2>3, Zenon DEF LateCall
<1>14. EndType'
  BY <1>3, <1>4, <1>7, Zenon DEF Silence, EndType
<1> QED BY <1>10, <1>11, <1>12, <1>13, <1>14, Zenon DEF Silence, SilentInv

\* At the start there is no old end.
LEMMA SilenceInit == Init => Silence
<1> SUFFICES ASSUME Init PROVE Silence
  OBVIOUS
<1>1. test.step = "idle"
  BY Zenon DEF Init, Idle
<1>2. EndType
  <2>1. 1 \in 1..MaxServer
    BY EndAssumption
  <2>2. enabled \in [End -> BOOLEAN]
    BY DEF Init
  <2>3. \A i \in Server : started[i] \in 1..MaxServer
    BY <2>1, Zenon DEF Init
  <2> QED BY <1>1, <2>2, <2>3, Zenon DEF Init, EndType
<1>3. OldOff
  <2>1. \A g \in 1..MaxServer : ~ (g < 1)
    BY EndAssumption
  <2>2. \A i \in Server : endnames[i] = 1
    BY Zenon DEF Init
  <2> QED BY <2>1, <2>2, Zenon DEF OldOff
<1>4. TodoInv /\ GoingOff /\ late = {}
  BY <1>1, Zenon DEF Init, TodoInv, GoingOff, Going
<1>5. \A i \in Server : \A n \in 1..Len(procs[i]) : procs[i][n].ends = n
  BY DEF Init
<1> QED BY <1>2, <1>3, <1>4, <1>5, EndsOffParts, Zenon DEF Silence, SilentInv

\* Every step keeps the ends of old instances off.
LEMMA SilenceNext ==
  ASSUME CrashInv, Silence, [Next]_vars
  PROVE  Silence'
<1>1. ASSUME NEW i \in Server, connect(i) PROVE Silence'
  BY <1>1, ConnectSilence, Zenon
<1>2. ASSUME NEW i \in Server, NEW then \in {"idle", "crash", "start"}, disconnect(i, then)
      PROVE  Silence'
  BY <1>2, DisconnectSilence, Zenon
<1>3. CASE EnableNext \/ CrashDelete \/ CrashCopy \/ StartMake \/ StartAdd
  BY <1>3, EnableSilence, CrashSilence, MakeSilence, Zenon
<1>4. ASSUME UNCHANGED <<enabled, started, calls, late, procs, endnames, connected, test>>,
             done' \in BOOLEAN
      PROVE  Silence'
  <2>1. TodoInv' /\ EndsOff'
    BY <1>4, Zenon DEF Silence, SilentInv, TodoInv, EndsOff
  <2>2. EndType'
    BY <1>4, Zenon DEF Silence, EndType
  <2> QED BY <1>4, <2>1, <2>2, TestSilence, Zenon
<1>5. CASE /\ Cleanup \/ \E yes \in BOOLEAN : Reliable(yes)
           /\ UNCHANGED <<cfgVars, late>>
  BY <1>4, <1>5, Zenon DEF Cleanup, Reliable, cfgVars, Silence, EndType
<1>6. ASSUME NEW c \in CallId, NEW i \in Server, NEW j \in Server, i # j,
             NEW n \in 1..MaxServer, SendCall(c, i, n, j)
      PROVE  Silence'
  BY <1>6, SendSilence, Zenon
<1>7. ASSUME NEW c \in CallId, NetworkStep(c) \/ HandlerSave(c) \/ HandlerDone(c)
      PROVE  Silence'
  BY <1>7, NetworkSilence, HandlerSilence, Zenon
<1>8. CASE UNCHANGED vars
  BY <1>4, <1>8, Zenon DEF vars, rpcVars, netVars, cfgVars, Silence, EndType
<1> QED BY <1>1, <1>2, <1>3, <1>5, <1>6, <1>7, <1>8, Zenon DEF Next, TestStep

-----------------------------------------------------------------------------
(***************************************************************************)
(* The theorems.                                                           *)
(***************************************************************************)
\* make_config leaves every server one instance with its own Persister.
LEMMA CrashInit == Init => CrashInv
<1> SUFFICES ASSUME Init PROVE CrashInv
  OBVIOUS
<1>1. N \in Nat /\ Server = 1..N
  BY ServerAssumption, Zenon
<1>2. persisters \in Seq(SUBSET CallId) /\ Len(persisters) = N
      /\ \A d \in 1..N : persisters[d] = {}
  BY <1>1 DEF Init
<1>3. \A i \in Server : /\ procs[i] \in Seq(Instance) /\ Len(procs[i]) = 1
                        /\ procs[i][1].disk = i
  BY <1>1 DEF Init, Instance
<1>4. StateType
  <2>1. {<<i, 1, j>> : i, j \in Server} \subseteq End
    BY EndAssumption DEF Ends
  <2>2. made \subseteq End /\ connections \in [End -> Server \union {None}]
    BY <2>1 DEF Init
  <2>3. procs \in [Server -> Seq(Instance)]
    BY <1>3, Zenon DEF Init
  <2>4. saved \in [Server -> 1..Len(persisters)]
    BY <1>1, <1>2, Zenon DEF Init
  <2>5. calls \in [CallId -> Request]
    BY Zenon DEF Init, NoCall, Request, Phase
  <2> QED BY <1>1, <1>2, <2>2, <2>3, <2>4, <2>5, Zenon DEF StateType, Init
<1>5. TestInv /\ \A i \in Server : ~ Unregistered(i)
  BY Zenon DEF Init, Idle, TestInv, Unregistered
<1>6. InstanceInv
  BY <1>3, <1>5, Zenon DEF Init, InstanceInv
<1>7. DiskInv
  BY <1>1, <1>2, <1>3, SMTT(20) DEF Init, DiskInv
<1>8. OldInstanceIsolated
  BY <1>1, <1>2, Zenon DEF Init, OldInstanceIsolated
<1>9. \A c \in CallId : CallOk(c, calls[c])
  BY <1>2, ZenonT(30) DEF Init, NoCall, CallOk
<1> QED BY <1>4, <1>5, <1>6, <1>7, <1>8, <1>9, Zenon DEF CrashInv, PersisterInv

\* Every step of the harness, the network and the handlers keeps CrashInv.
LEMMA CrashNext ==
  ASSUME CrashInv, [Next]_vars
  PROVE  CrashInv'
<1>1. ASSUME NEW i \in Server, connect(i) PROVE CrashInv'
  BY <1>1, ConnectKeeps, Zenon
<1>2. ASSUME NEW i \in Server, NEW then \in {"idle", "crash", "start"}, disconnect(i, then)
      PROVE  CrashInv'
  BY <1>2, DisconnectKeeps, Zenon
<1>3. CASE EnableNext \/ CrashDelete \/ CrashCopy \/ StartMake \/ StartAdd
  BY <1>3, EnableKeeps, DeleteKeeps, CopyKeeps, MakeKeeps, AddKeeps, Zenon
<1>4. CASE /\ test.step = "idle"
           /\ Cleanup \/ \E yes \in BOOLEAN : Reliable(yes)
           /\ UNCHANGED <<cfgVars, late>>
  <2>1. Quiet /\ reliable' \in BOOLEAN /\ test' = test
    BY <1>4, Zenon DEF Cleanup, Reliable, cfgVars, Quiet, CrashInv, StateType
  <2>2. TestInv'
    BY <2>1, Zenon DEF CrashInv, PersisterInv, TestInv, Quiet
  <2> QED BY <1>4, <2>1, <2>2, QuietKeeps, Zenon
<1>5. ASSUME NEW c \in CallId, NEW i \in Server, NEW j \in Server, NEW n \in 1..MaxServer,
             SendCall(c, i, n, j)
      PROVE  CrashInv'
  <2>1. <<i, procs[i][n].ends, j>> \in End
    BY <1>5, Zenon DEF SendCall, Call, CrashInv, StateType
  <2> QED BY <1>5, <2>1, SendKeeps, Zenon DEF SendCall
<1>6. ASSUME NEW c \in CallId, NetworkStep(c) \/ HandlerSave(c) \/ HandlerDone(c)
      PROVE  CrashInv'
  BY <1>6, NetworkKeeps, SaveKeeps, DoneKeeps, Zenon
<1>7. CASE UNCHANGED vars
  <2>1. UNCHANGED <<made, connections, servers, started, reliable, calls, endnames, procs,
                    persisters, saved, booted, test>>
    BY <1>7, Zenon DEF vars, rpcVars, netVars, cfgVars
  <2>2. StateType'
    BY <2>1, Zenon DEF CrashInv, StateType
  <2>3. \A i \in Server : Unregistered(i)' <=> Unregistered(i)
    BY <2>1, Zenon DEF Unregistered
  <2>4. TestInv' /\ InstanceInv'
    BY <2>1, <2>3, Zenon DEF CrashInv, PersisterInv, TestInv, InstanceInv
  <2>5. DiskInv' /\ OldInstanceIsolated'
    BY <2>1, <2>3, Zenon DEF CrashInv, PersisterInv, DiskInv, OldInstanceIsolated
  <2>6. \A c \in CallId : CallOk(c, calls[c])'
    BY <2>1, Zenon DEF CrashInv, PersisterInv, CallOk
  <2> QED BY <2>1, <2>2, <2>3, <2>4, <2>5, <2>6, Zenon DEF CrashInv, PersisterInv
<1> QED BY <1>1, <1>2, <1>3, <1>4, <1>5, <1>6, <1>7, Zenon DEF Next, TestStep

\* Every Persister has one owner, whatever crash1, start1 and handlers of old instances
\* do: the inductive invariant always holds.
THEOREM PersistersOwned == Spec => []PersisterInv
<1>1. CrashInv /\ [Next]_vars => CrashInv'
  BY CrashNext, Zenon
<1>2. CrashInv => PersisterInv
  BY Zenon DEF CrashInv
<1> QED BY <1>1, <1>2, CrashInit, PTL DEF Spec

\* A positive reply survives every crash of its server (crash1 deletes the server
\* before it copies the Persister, processReq looks for the server after the handler).
THEOREM ReplySurvives == Spec => []PositiveReplySaved
<1>1. PersisterInv => PositiveReplySaved
  BY ZenonT(30) DEF PersisterInv, CallOk, PositiveReplySaved
<1> QED BY <1>1, PersistersOwned, PTL

\* A handler of an instance that was crashed never writes into the Persister of the
\* instance that replaced it (the copies made by crash1 and start1).
THEOREM OldInstancesIsolated == Spec => []OldInstanceIsolated
<1>1. PersisterInv => OldInstanceIsolated
  BY Zenon DEF PersisterInv
<1> QED BY <1>1, PersistersOwned, PTL

\* The two invariants of the harness, each inductive over the one before it.
LEMMA CrashInvariant == Spec => [](CrashInv /\ Silence)
<1>1. Init => CrashInv /\ Silence
  BY CrashInit, SilenceInit, Zenon
<1>2. CrashInv /\ Silence /\ [Next]_vars => CrashInv' /\ Silence'
  BY CrashNext, SilenceNext, Zenon
<1> QED BY <1>1, <1>2, PTL DEF Spec

\* The state keeps its type: no server is started more often than start1 was called,
\* and every saved Persister exists.
THEOREM NetworkTyped == Spec => []TypeOK
<1>1. ASSUME CrashInv, Silence PROVE TypeOK
  <2>1. \A i \in Server : endnames[i] \in 1..MaxServer /\ Len(procs[i]) \in 1..MaxServer
    BY <1>1, EndBounds, Zenon
  <2>2. \A i \in Server : started[i] \in 0..MaxServer /\ servers[i] \in 0..MaxServer
    <3> SUFFICES ASSUME NEW i \in Server
                 PROVE  started[i] \in 0..MaxServer /\ servers[i] \in 0..MaxServer
      OBVIOUS
    <3>1. started[i] \in 1..MaxServer /\ servers[i] \in {0, started[i]}
      BY <1>1, Zenon DEF Silence, EndType, CrashInv, PersisterInv, InstanceInv
    <3> QED BY <3>1, EndAssumption
  <2>3. NetTypeOK
    BY <1>1, <2>2, Zenon DEF NetTypeOK, CrashInv, StateType, Silence, EndType
  <2> QED BY <1>1, <2>1, <2>3, Zenon DEF TypeOK, CrashInv, StateType, Silence, EndType
<1> QED BY <1>1, CrashInvariant, PTL

\* The ends of an instance are disabled before start1 makes the next instance, and
\* connect never enables them again: the inductive invariant always holds.
THEOREM OldEndsOff == Spec => []SilentInv
<1>1. Silence => SilentInv
  BY Zenon DEF Silence
<1> QED BY <1>1, CrashInvariant, PTL

\* No call of an instance that was replaced is executed or answered, whatever the
\* harness connects afterwards (disconnect at the start of start1, new endnames).
THEOREM OldInstancesSilent == Spec => []OldInstanceSilent
<1>1. SilentInv => OldInstanceSilent
  BY Zenon DEF SilentInv, LateCall, OldInstanceSilent
<1> QED BY <1>1, OldEndsOff, PTL

=============================================================================
