------------------------------ MODULE ServerProofs ------------------------------
(* The server is linearizable for every number of clients and keys: it         *)
(* implements module LinearKV, step by step, where the engine below it is      *)
(* reliable and its behaviours are calm.  DurableProofs says which versions    *)
(* the engine has settled; here each of them is tied to the call it belongs to. *)
EXTENDS Server, DurableProofs

------------------------------------------------------------------------------
(* The mutex of the server *)

ServerInv == ServerTypeOK /\ OnePutAtATime

LEMMA ServerInitInv == ServerInit => ServerInv
BY DEF ServerInit, EngineInit, ServerInv, ServerTypeOK, OnePutAtATime

\* A step of a running put comes from a place in put.
LEMMA PutStepRuns == PutStep => pc # "idle"
BY DEF PutStep, Collect, NothingToCollect, MarkFlush, CleanLog, SkipCompaction,
   SelectInputs, Merge, MergeFails, DeleteInput, Insert, Poll, GiveUpWaiting, Swap, SyncFlush

LEMMA ThreadLeavesPut == FlushThread => pc' = pc
BY DEF FlushThread, BeginFlush, EndFlush, FlushThreadFails

LEMMA RequestKey == ASSUME NEW r \in Requests PROVE r.key \in Keys
BY DEF Requests, Request

\* A task that neither takes nor releases the mutex leaves the rest alone.
LEMMA GotoInv ==
  ASSUME ServerInv, NEW c \in Clients, task[c] # "put",
         NEW place \in {"none", "read", "lock", "write"},
         Goto(c, place),
         request' = request \/ \E r \in Requests \cup {NoRequest} :
                                   request' = [request EXCEPT ![c] = r],
         place = "lock" => request'[c] \in Requests,
         pc' = pc
  PROVE  ServerInv'
<1>1. ServerTypeOK'
  BY DEF ServerInv, ServerTypeOK, Goto
<1>2. OnePutAtATime'
  BY DEF ServerInv, ServerTypeOK, OnePutAtATime, Goto
<1>3. QED
  BY <1>1, <1>2 DEF ServerInv

LEMMA StartPutInv ==
  ASSUME ServerInv, NEW c \in Clients, StartPut(c) PROVE ServerInv'
<1>1. CASE up'
  <2>1. Goto(c, "put") /\ request' = request /\ ~Locked /\ task[c] = "lock"
    BY <1>1 DEF StartPut
  <2>2. ServerTypeOK'
    BY <2>1 DEF ServerInv, ServerTypeOK, Goto
  <2>3. OnePutAtATime'
    BY <2>1 DEF ServerInv, ServerTypeOK, OnePutAtATime, Goto, Locked
  <2>4. QED
    BY <2>2, <2>3 DEF ServerInv
<1>2. CASE ~up'
  <2>1. pc' = "idle" /\ DropConnections
    BY <1>2 DEF StartPut, PutAppend, ForgetEngine
  <2>2. QED
    BY <2>1 DEF DropConnections, ServerInv, ServerTypeOK, OnePutAtATime
<1>3. QED
  BY <1>1, <1>2

LEMMA EndPutInv ==
  ASSUME ServerInv, NEW c \in Clients, EndPut(c) PROVE ServerInv'
<1>1. Goto(c, "write") /\ request' = request /\ pc' = "idle"
  BY DEF EndPut, evars, volatile
<1>2. ServerTypeOK'
  BY <1>1 DEF ServerInv, ServerTypeOK, Goto
<1>3. OnePutAtATime'
  BY <1>1 DEF ServerInv, ServerTypeOK, OnePutAtATime, Goto
<1>4. QED
  BY <1>2, <1>3 DEF ServerInv

\* Steps of the engine alone.
LEMMA EngineAloneInv ==
  ASSUME ServerInv, UNCHANGED connections, pc # "idle" \/ pc' = pc \/ pc' = "idle"
  PROVE  ServerInv'
BY DEF ServerInv, ServerTypeOK, OnePutAtATime, connections

LEMMA ServerNextInv == ServerInv /\ [ServerNext]_servervars => ServerInv'
<1> SUFFICES ASSUME ServerInv, [ServerNext]_servervars PROVE ServerInv'
  OBVIOUS
<1>1. CASE Start
  <2>1. pc' = pc /\ UNCHANGED connections
    BY <1>1 DEF Start, OpenEngine
  <2>2. QED
    BY <2>1, EngineAloneInv
<1>2. CASE EngineRuns
  BY <1>2, PutStepRuns, EngineAloneInv DEF EngineRuns
<1>3. CASE ThreadRuns
  BY <1>3, ThreadLeavesPut, EngineAloneInv DEF ThreadRuns
<1>4. CASE Kill
  BY <1>4 DEF Kill, CrashEngine, ForgetEngine, DropConnections,
     ServerInv, ServerTypeOK, OnePutAtATime
<1>5. CASE CtrlC
  <2>1. pc' = "idle" /\ UNCHANGED connections
    BY <1>5 DEF CtrlC, StopEngine, ForgetEngine
  <2>2. QED
    BY <2>1, EngineAloneInv
<1>6. ASSUME NEW c \in Clients, Accept(c) \/ ReadOther(c) \/ ServeGet(c) PROVE ServerInv'
  <2>1. task[c] # "put" /\ request' = request /\ pc' = pc
    BY <1>6 DEF Accept, ReadOther, ServeGet, evars, volatile
  <2>2. Goto(c, "read") \/ Goto(c, "write")
    BY <1>6 DEF Accept, ReadOther, ServeGet
  <2>3. QED
    BY <2>1, <2>2, GotoInv
<1>7. ASSUME NEW c \in Clients, RefusePut(c) PROVE ServerInv'
  <2>1. task[c] # "put" /\ request' = request /\ Goto(c, "write")
    BY <1>7 DEF RefusePut
  <2>2. pc' = pc
    BY <1>7 DEF RefusePut, PutRefused, evars, volatile
  <2>3. QED
    BY <2>1, <2>2, GotoInv
<1>8. ASSUME NEW c \in Clients, WriteReply(c) \/ Leave(c) PROVE ServerInv'
  <2>1. task[c] # "put" /\ request' = [request EXCEPT ![c] = NoRequest] /\ pc' = pc
    BY <1>8 DEF WriteReply, Leave, evars, volatile
  <2>2. Goto(c, "read") \/ Goto(c, "none")
    BY <1>8 DEF WriteReply, Leave
  <2>3. QED
    BY <2>1, <2>2, GotoInv
<1>9. ASSUME NEW c \in Clients, NEW r \in Requests, ReadRequest(c, r) PROVE ServerInv'
  <2>1. /\ task[c] # "put" /\ request' = [request EXCEPT ![c] = r] /\ pc' = pc
        /\ Goto(c, "lock")
    BY <1>9 DEF ReadRequest, evars, volatile
  <2>2. request'[c] \in Requests
    BY <2>1 DEF ServerInv, ServerTypeOK
  <2>3. QED
    BY <2>1, <2>2, GotoInv
<1>10. CASE UNCHANGED servervars
  BY <1>10, EngineAloneInv DEF servervars, evars, volatile
<1>11. QED
  BY <1>1, <1>2, <1>3, <1>4, <1>5, <1>6, <1>7, <1>8, <1>9, <1>10,
     StartPutInv, EndPutInv DEF ServerNext, Serve

\* The mutex does what it is for: at most one put runs, and only while a task
\* holds it.
THEOREM MutualExclusion == ServerSpec => []OnePutAtATime
<1>1. ServerInv => OnePutAtATime
  BY DEF ServerInv
<1>2. QED
  BY <1>1, ServerInitInv, ServerNextInv, PTL DEF ServerSpec

\* The state of the connections is of its type.
THEOREM ConnectionsTyped == ServerSpec => []ServerTypeOK
<1>1. ServerInv => ServerTypeOK
  BY DEF ServerInv
<1>2. QED
  BY <1>1, ServerInitInv, ServerNextInv, PTL DEF ServerSpec

------------------------------------------------------------------------------
(* The server uses the engine as module StorageEngine describes it *)

LEMMA ServerStepUsesEngine ==
  ServerInv /\ [ServerNext]_servervars => [EngineNext]_evars
<1> SUFFICES ASSUME ServerInv, [ServerNext]_servervars PROVE [EngineNext]_evars
  OBVIOUS
<1>1. CASE Start
  BY <1>1 DEF Start, EngineNext
<1>2. CASE EngineRuns \/ ThreadRuns \/ Kill \/ CtrlC
  BY <1>2 DEF EngineRuns, ThreadRuns, Kill, CtrlC, EngineNext
<1>3. ASSUME NEW c \in Clients,
             Accept(c) \/ ReadOther(c) \/ ServeGet(c) \/ EndPut(c) \/ WriteReply(c) \/ Leave(c)
      PROVE  UNCHANGED evars
  BY <1>3 DEF Accept, ReadOther, ServeGet, EndPut, WriteReply, Leave
<1>4. ASSUME NEW c \in Clients, NEW r \in Requests, ReadRequest(c, r) PROVE UNCHANGED evars
  BY <1>4 DEF ReadRequest
<1>5. ASSUME NEW c \in Clients, RefusePut(c) PROVE [EngineNext]_evars
  BY <1>5 DEF RefusePut, EngineNext
<1>6. ASSUME NEW c \in Clients, StartPut(c) PROVE EngineNext
  <2>1. request[c].key \in Keys
    BY <1>6, RequestKey DEF StartPut, ServerInv, ServerTypeOK
  <2>2. QED
    BY <1>6, <2>1 DEF StartPut, EngineNext
<1>7. CASE UNCHANGED servervars
  BY <1>7 DEF servervars
<1>8. QED
  BY <1>1, <1>2, <1>3, <1>4, <1>5, <1>6, <1>7 DEF ServerNext, Serve

\* The server implements the engine's specification: its tasks, whatever their
\* number and their order, put it through no step that a single caller could not.
THEOREM ServerUsesEngine == ServerSpec => EngineSpec
<1>1. ServerInit => EngineInit
  BY DEF ServerInit
<1>2. QED
  BY <1>1, ServerInitInv, ServerNextInv, ServerStepUsesEngine, PTL DEF ServerSpec, EngineSpec

\* And so the log under the server keeps its invariant.
THEOREM ServerKeepsLog == ServerSpec => []LogInv
BY ServerUsesEngine, EngineKeepsLog, PTL

------------------------------------------------------------------------------
(* Replies and the engine *)

Replies ==
  {NoReply} \cup {Answer(kind, v) : kind \in {"OK", "VALUE", "NOT_FOUND", "ERROR"}, v \in Nat}

\* What the connections have to do with the engine: there are none while it is down,
\* and the last record of the log is that of the put that runs.
LinkInv ==
  /\ reply \in [Clients -> Replies]
  /\ ~up => \A c \in Clients : task[c] = "none"
  /\ \A c \in Clients : task[c] \in {"none", "read"} => request[c] = NoRequest
  /\ \A c \in Clients : task[c] = "put" =>
       /\ request[c].cmd = "PUT" /\ appended \in 1..MaxAppends
       /\ keyOf[appended] = request[c].key

------------------------------------------------------------------------------
(* What the steps of the engine leave alone *)

\* No step of a running put or of the flush thread appends, loses a record, or stops
\* the engine.
LEMMA RunKeeps ==
  ASSUME PutStep \/ FlushThread PROVE UNCHANGED <<up, appended, lost, keyOf>>
<1>1. CASE FlushThread
  BY <1>1 DEF FlushThread, BeginFlush, EndFlush, FlushThreadFails, vars, history
<1>2. CASE MarkFlush \/ CleanLog
  BY <1>2 DEF MarkFlush, CleanLog, MarkFlushed, Cleanup, CleanupFails
<1>3. CASE Collect \/ NothingToCollect \/ SkipCompaction \/ SelectInputs
  BY <1>3 DEF Collect, NothingToCollect, SkipCompaction, SelectInputs, vars, history
<1>4. CASE Merge \/ MergeFails \/ DeleteInput \/ SyncFlush
  BY <1>4 DEF Merge, MergeFails, DeleteInput, SyncFlush, vars, history
<1>5. CASE Insert \/ Poll \/ GiveUpWaiting \/ Swap
  BY <1>5 DEF Insert, Poll, GiveUpWaiting, Swap, vars, history
<1>6. QED
  BY <1>1, <1>2, <1>3, <1>4, <1>5 DEF PutStep

LEMMA OpenKeeps ==
  ASSUME NEW n, OpenEngine(n)
  PROVE  ~up /\ UNCHANGED <<appended, lost, keyOf, pc, resume>>
BY DEF OpenEngine, Open, history

LEMMA RefusedKeeps ==
  ASSUME PutRefused PROVE UNCHANGED <<up, appended, lost, keyOf, pc, resume>>
BY DEF PutRefused, AppendRefused, AppendRotationFails, FlushFails, history, volatile

\* A crash loses nothing: every record is written before append returns.
LEMMA EndKeeps ==
  ASSUME Context, CrashEngine \/ StopEngine
  PROVE  UNCHANGED <<appended, lost, keyOf>> /\ ~up' /\ pc' = "idle"
<1>1. CASE StopEngine
  BY <1>1 DEF StopEngine, Shutdown, Forget, history, ForgetEngine
<1>2. CASE CrashEngine
  <2>1. PICK cut \in CutWrites(buffer) : lost' = lost \cup (Ids(buffer) \ Ids(cut))
    BY <1>2 DEF CrashEngine, Crash
  <2>2. Ids(buffer) = {}
    BY ContextFacts, BufferItems
  <2>3. QED
    BY <1>2, <2>1, <2>2 DEF CrashEngine, Crash, Forget, ForgetEngine
<1>3. QED
  BY <1>1, <1>2

\* A put appends one record of its key and has it in flight, or dies in it.
LEMMA AppendKeeps ==
  ASSUME Context, NEW k \in Keys, PutAppend(k)
  PROVE  /\ appended \in Nat /\ appended' = appended + 1 /\ appended' \in 1..MaxAppends
         /\ keyOf' = Append(keyOf, k) /\ keyOf'[appended'] = k
         /\ \A v \in 1..appended : keyOf'[v] = keyOf[v]
         /\ pc = "idle" /\ pc' = IF up' THEN "check" ELSE "idle"
         /\ lost \subseteq lost'
<1>1. /\ appended' = appended + 1 /\ appended < MaxAppends /\ appended \in Nat
      /\ up' => writeFaults' = writeFaults
      /\ lost \subseteq lost'
  BY AppendFacts, ContextFacts DEF PutAppend
<1>2. keyOf' = Append(keyOf, k) /\ keyOf \in Seq(Keys) /\ Len(keyOf) = appended
  BY ContextFacts DEF PutAppend
<1>3. keyOf'[appended'] = k /\ \A v \in 1..appended : keyOf'[v] = keyOf[v]
  BY <1>1, <1>2
<1>4. pc = "idle" /\ pc' = IF up' THEN "check" ELSE "idle"
  BY <1>1 DEF PutAppend, ForgetEngine
<1>5. QED
  BY <1>1, <1>2, <1>3, <1>4, WalAssumption

------------------------------------------------------------------------------
(* The connections *)

\* A task that goes on to a place where it waits
LEMMA GotoLink ==
  ASSUME ServerInv, LinkInv, NEW c \in Clients, up' = up, up,
         NEW place \in {"none", "read", "lock", "write"}, Goto(c, place),
         NEW r \in Replies, reply' = reply \/ reply' = [reply EXCEPT ![c] = r],
         NEW q, request' = request \/ request' = [request EXCEPT ![c] = q],
         place \in {"none", "read"} => request'[c] = NoRequest,
         UNCHANGED <<appended, keyOf>>
  PROVE  LinkInv'
<1>1. task \in [Clients -> {"none", "read", "lock", "put", "write"}] /\ DOMAIN request = Clients
  BY DEF ServerInv, ServerTypeOK
<1>2. reply' \in [Clients -> Replies]
  BY DEF LinkInv
<1>3. /\ task'[c] = place /\ \A d \in Clients \ {c} : task'[d] = task[d]
      /\ \A d \in Clients \ {c} : request'[d] = request[d]
  BY <1>1 DEF Goto
<1>4. QED
  BY <1>2, <1>3 DEF LinkInv

LEMMA LinkInit == ServerInit => LinkInv
BY DEF ServerInit, EngineInit, Init, LinkInv, Replies

\* The types of the replies
LEMMA ReplyTypes ==
  /\ NoReply \in Replies /\ Answer("ERROR", 0) \in Replies
  /\ \A v \in Nat : Answer("OK", v) \in Replies /\ Lookup(v) \in Replies
BY DEF Replies, Lookup

LEMMA LinkNext ==
  ASSUME Context, ServerInv, LinkInv, [ServerNext]_servervars PROVE LinkInv'
<1>1. CASE Start
  BY <1>1, OpenKeeps DEF Start, connections, LinkInv
<1>2. CASE EngineRuns \/ ThreadRuns
  BY <1>2, RunKeeps DEF EngineRuns, ThreadRuns, connections, LinkInv
<1>3. CASE DropConnections
  BY <1>3, ReplyTypes DEF DropConnections, LinkInv
<1>4. CASE CtrlC
  BY <1>4 DEF CtrlC, connections, LinkInv
<1>5. CASE UNCHANGED servervars
  BY <1>5 DEF servervars, evars, vars, history, connections, LinkInv
<1>6. \A c \in Clients : task[c] # "none" => up
  BY DEF LinkInv
<1>7. UNCHANGED evars => UNCHANGED <<up, appended, keyOf>>
  BY DEF evars, vars, history
<1>8. ASSUME NEW c \in Clients, Accept(c) PROVE LinkInv'
  <2>1. up /\ Goto(c, "read") /\ UNCHANGED <<request, reply, evars>> /\ request[c] = NoRequest
    BY <1>8 DEF Accept, LinkInv
  <2>2. QED
    BY <1>7, <2>1, ReplyTypes, GotoLink
<1>9. ASSUME NEW c \in Clients, NEW r \in Requests, ReadRequest(c, r) PROVE LinkInv'
  <2>1. /\ up /\ Goto(c, "lock") /\ UNCHANGED <<reply, evars>>
        /\ request' = [request EXCEPT ![c] = r]
    BY <1>6, <1>9 DEF ReadRequest
  <2>2. QED
    BY <1>7, <2>1, ReplyTypes, GotoLink
<1>10. ASSUME NEW c \in Clients, ReadOther(c) PROVE LinkInv'
  <2>1. /\ up /\ Goto(c, "write") /\ UNCHANGED <<request, evars>>
        /\ reply' = [reply EXCEPT ![c] = Answer("ERROR", 0)]
    BY <1>6, <1>10 DEF ReadOther
  <2>2. QED
    BY <1>7, <2>1, ReplyTypes, GotoLink
<1>11. ASSUME NEW c \in Clients, ServeGet(c) PROVE LinkInv'
  <2>1. /\ up /\ Goto(c, "write") /\ UNCHANGED <<request, evars>>
        /\ reply' = [reply EXCEPT ![c] = Lookup(Get(request[c].key))]
    BY <1>6, <1>11 DEF ServeGet
  <2>2. Lookup(Get(request[c].key)) \in Replies
    <3>1. request[c].key \in Keys
      BY <1>11, RequestKey DEF ServeGet, ServerInv, ServerTypeOK
    <3>2. Get(request[c].key) \in Nat
      BY <2>1, <3>1, GetNewest, ContextFacts DEF Settled, Live
    <3>3. QED
      BY <3>2, ReplyTypes
  <2>3. QED
    BY <1>7, <2>1, <2>2, GotoLink
<1>12. ASSUME NEW c \in Clients, RefusePut(c) PROVE LinkInv'
  <2>1. /\ up /\ Goto(c, "write") /\ UNCHANGED request
        /\ reply' = [reply EXCEPT ![c] = Answer("ERROR", 0)]
    BY <1>6, <1>12 DEF RefusePut
  <2>2. UNCHANGED <<up, appended, keyOf>>
    BY <1>7, <1>12, RefusedKeeps DEF RefusePut
  <2>3. QED
    BY <2>1, <2>2, ReplyTypes, GotoLink
<1>13. ASSUME NEW c \in Clients, EndPut(c) PROVE LinkInv'
  <2>1. /\ up /\ Goto(c, "write") /\ UNCHANGED <<request, evars>>
        /\ reply' = [reply EXCEPT ![c] = PutResult(request[c].key)]
    BY <1>6, <1>13 DEF EndPut
  <2>2. PutResult(request[c].key) \in Replies
    BY ContextFacts, ReplyTypes DEF PutResult
  <2>3. QED
    BY <1>7, <2>1, <2>2, GotoLink
<1>14. ASSUME NEW c \in Clients, WriteReply(c) \/ Leave(c) PROVE LinkInv'
  <2>1. /\ up /\ (Goto(c, "read") \/ Goto(c, "none")) /\ UNCHANGED evars
        /\ request' = [request EXCEPT ![c] = NoRequest]
        /\ reply' = [reply EXCEPT ![c] = NoReply]
    BY <1>6, <1>14 DEF WriteReply, Leave
  <2>2. request'[c] = NoRequest
    BY <2>1 DEF ServerInv, ServerTypeOK
  <2>3. QED
    BY <1>7, <2>1, <2>2, ReplyTypes, GotoLink
<1>15. ASSUME NEW c \in Clients, StartPut(c), up' PROVE LinkInv'
  <2>1. /\ Goto(c, "put") /\ UNCHANGED <<request, reply>> /\ ~Locked
        /\ request[c].cmd = "PUT" /\ request[c].key \in Keys /\ PutAppend(request[c].key)
    BY <1>15, RequestKey DEF StartPut, ServerInv, ServerTypeOK
  <2>2. appended' \in 1..MaxAppends /\ keyOf'[appended'] = request[c].key
    BY <2>1, AppendKeeps
  <2>3. /\ \A d \in Clients : task'[d] = IF d = c THEN "put" ELSE task[d]
        /\ \A d \in Clients : task[d] # "put"
    BY <2>1 DEF Goto, Locked, ServerInv, ServerTypeOK
  <2>4. QED
    BY <1>15, <2>1, <2>2, <2>3 DEF LinkInv
<1>16. QED
  BY <1>1, <1>2, <1>3, <1>4, <1>5, <1>8, <1>9, <1>10, <1>11, <1>12, <1>13, <1>14, <1>15
     DEF ServerNext, Serve, Kill, StartPut

------------------------------------------------------------------------------
(* The calls, as LinearKV sees them *)

Calls == [c \in Clients |-> CallOf(c)]

\* What the place of a task says about the call of its client
Shapes ==
  \A c \in Clients :
    LET r == request[c] IN
    /\ task[c] \in {"none", "read"} => CallOf(c) = LKV!NoCall
    /\ task[c] = "lock" => CallOf(c) = LKV!Call(r.cmd, r.key, 0, "open")
    /\ task[c] = "put" =>
         CallOf(c) = LKV!Call("PUT", r.key, IF View[r.key] = appended THEN appended ELSE 0,
                              "open")
    /\ task[c] = "write" =>
         CallOf(c) = IF r.cmd = "none" THEN LKV!NoCall
                     ELSE LKV!Call(r.cmd, r.key, reply[c].version,
                                   IF reply[c].kind = "ERROR" THEN "ERROR" ELSE "OK")

\* The keys in doubt: those of a record newer than what get answers with, unless it is
\* that of the running put.
Doubts ==
  \A k : k \in InDoubt <=>
           \E v \in 1..appended : keyOf[v] = k /\ v > View[k] /\ (Locked => v # appended)

LEMMA ShapesHold == ServerInv /\ LinkInv => Shapes
<1> SUFFICES ASSUME ServerInv, LinkInv, NEW c \in Clients
             PROVE  LET r == request[c] IN
      /\ task[c] \in {"none", "read"} => CallOf(c) = LKV!NoCall
      /\ task[c] = "lock" => CallOf(c) = LKV!Call(r.cmd, r.key, 0, "open")
      /\ task[c] = "put" =>
           CallOf(c) = LKV!Call("PUT", r.key, IF View[r.key] = appended THEN appended ELSE 0,
                                "open")
      /\ task[c] = "write" =>
           CallOf(c) = IF r.cmd = "none" THEN LKV!NoCall
                       ELSE LKV!Call(r.cmd, r.key, reply[c].version,
                                     IF reply[c].kind = "ERROR" THEN "ERROR" ELSE "OK")
  BY DEF Shapes
<1>1. \A r \in Requests : r.cmd \in {"PUT", "GET"}
  BY DEF Requests, Request
<1>2. task[c] \in {"lock", "put"} => request[c].cmd \in {"PUT", "GET"}
  BY <1>1 DEF ServerInv, ServerTypeOK
<1>3. CASE task[c] \in {"none", "read"}
  <2>1. request[c].cmd = "none"
    BY <1>3 DEF LinkInv, NoRequest
  <2>2. QED
    BY <1>3, <2>1 DEF CallOf, LKV!NoCall
<1>4. CASE task[c] = "lock"
  BY <1>2, <1>4 DEF CallOf, LKV!Call
<1>5. CASE task[c] = "put"
  <2>1. request[c].cmd = "PUT"
    BY <1>5 DEF LinkInv
  <2>2. QED
    BY <1>5, <2>1 DEF CallOf, LKV!Call
<1>6. CASE task[c] = "write"
  BY <1>6 DEF CallOf, LKV!Call, LKV!NoCall
<1>7. QED
  BY <1>3, <1>4, <1>5, <1>6 DEF ServerInv, ServerTypeOK

LEMMA DoubtsHold == Context => Doubts
<1> SUFFICES ASSUME Context, NEW k
             PROVE  k \in InDoubt <=> \E v \in 1..appended : keyOf[v] = k /\ v > View[k]
                                                             /\ (Locked => v # appended)
  BY DEF Doubts
<1>1. appended \in Nat
  BY ContextFacts
<1>2. 1..(IF Locked THEN appended - 1 ELSE appended)
        = {v \in 1..appended : Locked => v # appended}
  BY <1>1
<1>3. QED
  BY <1>2 DEF InDoubt

\* What holds of the server between its steps
ServerView == Context /\ ServerInv /\ LinkInv /\ ViewInv /\ Shapes /\ Doubts

\* What one step of the refinement has to show, and may use.
Step == ServerView /\ ServerView' /\ SettlesOne

LinearStep == [LKV!LNext]_<<View, Calls, InDoubt>>

\* A version is settled when its record gets into the memtable, or its put dies.
LEMMA NewlySettled ==
  ASSUME UNCHANGED <<appended, lost, keyOf>>, NEW h, NEW a, a \in Settled(h)', a \notin Settled(h)
  PROVE  InFlight /\ ~InFlight' /\ a = appended /\ keyOf[appended] = h
BY DEF Settled, Live

\* Nothing new is seen unless a put is under way.
LEMMA ViewKept ==
  ASSUME Step, UNCHANGED <<appended, lost, keyOf>>, ~InFlight \/ InFlight'
  PROVE  View' = View
BY SettlingShows, NewlySettled DEF Step, ServerView

LEMMA DoubtsKept ==
  ASSUME Step, View' = View, UNCHANGED <<appended, keyOf>>, Locked' <=> Locked
  PROVE  InDoubt' = InDoubt
<1>1. InDoubt \subseteq InDoubt' /\ InDoubt' \subseteq InDoubt
  BY DEF Step, ServerView, Doubts
<1>2. QED
  BY <1>1

\* The calls of the other clients
LEMMA OthersKept ==
  ASSUME NEW c \in Clients,
         \A d \in Clients \ {c} :
            /\ task'[d] = task[d] /\ request'[d] = request[d] /\ reply'[d] = reply[d]
            /\ task[d] = "put" => View' = View /\ appended' = appended
  PROVE  Calls' = [Calls EXCEPT ![c] = CallOf(c)']
<1>1. ASSUME NEW d \in Clients \ {c} PROVE CallOf(d)' = CallOf(d)
  BY DEF CallOf
<1>2. QED
  BY <1>1 DEF Calls

\* The steps a client does not see
LEMMA HiddenStep ==
  ASSUME Step, View' = View, UNCHANGED <<appended, keyOf>>, UNCHANGED connections
  PROVE  LinearStep
<1>1. \A c \in Clients : CallOf(c)' = CallOf(c)
  BY DEF CallOf, connections
<1>2. Calls' = Calls
  BY <1>1 DEF Calls
<1>3. InDoubt' = InDoubt
  BY DoubtsKept DEF Locked, connections
<1>4. QED
  BY <1>2, <1>3 DEF LinearStep

\* A step of one task that leaves what is seen alone
LEMMA TaskStep ==
  ASSUME Step, NEW c \in Clients, UNCHANGED <<appended, lost, keyOf>>, ~InFlight \/ InFlight',
         NEW place, Goto(c, place),
         request' = request \/ \E q : request' = [request EXCEPT ![c] = q],
         reply' = reply \/ \E r : reply' = [reply EXCEPT ![c] = r]
  PROVE  /\ View' = View /\ Calls' = [Calls EXCEPT ![c] = CallOf(c)'] /\ task'[c] = place
         /\ place # "put" /\ task[c] # "put" => InDoubt' = InDoubt
<1>1. View' = View
  BY ViewKept
<1>2. /\ task'[c] = place /\ \A d \in Clients \ {c} : task'[d] = task[d]
      /\ \A d \in Clients \ {c} : request'[d] = request[d] /\ reply'[d] = reply[d]
  BY DEF Goto, Step, ServerView, ServerInv, ServerTypeOK, LinkInv
<1>3. Calls' = [Calls EXCEPT ![c] = CallOf(c)']
  BY <1>1, <1>2, OthersKept
<1>4. ASSUME place # "put", task[c] # "put" PROVE Locked' <=> Locked
  BY <1>2, <1>4 DEF Locked
<1>5. QED
  BY <1>1, <1>2, <1>3, <1>4, DoubtsKept

------------------------------------------------------------------------------
(* The steps of the engine *)

\* The keys of the puts that are under way
Cut == {CallOf(c).key : c \in {d \in Clients : CallOf(d).status = "open" /\ CallOf(d).op = "PUT"}}

LEMMA UnderWay ==
  ASSUME ServerView, NEW c \in Clients, task[c] \in {"lock", "put"}, request[c].cmd = "PUT"
  PROVE  request[c].key \in Cut
<1>1. CallOf(c).status = "open" /\ CallOf(c).op = "PUT" /\ CallOf(c).key = request[c].key
  BY DEF ServerView, Shapes, LKV!Call
<1>2. QED
  BY <1>1 DEF Cut

\* A running put is that of a task, and the last record is its.
LEMMA RunningPut ==
  ASSUME ServerView, pc # "idle"
  PROVE  \E c \in Clients :
           /\ task[c] = "put" /\ request[c].key \in Keys /\ keyOf[appended] = request[c].key
           /\ request[c].cmd = "PUT" /\ appended \in 1..MaxAppends
           /\ \A d \in Clients \ {c} : task[d] # "put"
<1>1. PICK c \in Clients : task[c] = "put"
  BY DEF ServerView, ServerInv, OnePutAtATime
<1>2. request[c].key \in Keys
  BY <1>1, RequestKey DEF ServerView, ServerInv, ServerTypeOK
<1>3. QED
  BY <1>1, <1>2 DEF ServerView, ServerInv, OnePutAtATime, LinkInv

\* What is seen are versions appended so far.
LEMMA ViewBounds ==
  ASSUME ServerView
  PROVE  /\ View \in [Keys -> Nat] /\ appended \in Nat /\ \A v \in 1..appended : keyOf[v] \in Keys
         /\ \A k \in Keys : View[k] <= appended
<1>1. appended \in Nat /\ \A v \in 1..appended : keyOf[v] \in Keys
  BY ContextFacts DEF ServerView
<1>2. \A k \in Keys : View[k] \in {0} \cup Settled(k) /\ Settled(k) \subseteq 1..appended
  BY DEF ServerView, ViewInv, Settled, Live
<1>3. QED
  BY <1>1, <1>2 DEF ServerView, ViewInv

\* The process goes away: what the log has of the puts under way may still be seen
\* from now on, or later.
LEMMA GoingStep ==
  ASSUME Step, DropConnections, appended <= appended', appended' \in Nat,
         \A v \in 1..appended : keyOf'[v] = keyOf[v],
         \A v \in 1..appended' : v > appended \/ (Locked /\ v = appended) => keyOf'[v] \in Cut,
         \A h, a : a \in Settled(h)' /\ a \notin Settled(h) => h \in Cut
  PROVE  LinearStep
<1>1. Calls' = [c \in Clients |-> LKV!NoCall] /\ ~Locked'
  <2>1. \A c \in Clients : task'[c] = "none"
    BY DEF DropConnections
  <2>2. \A c \in Clients : CallOf(c)' = LKV!NoCall
    BY <2>1 DEF Step, ServerView, Shapes, LKV!NoCall
  <2>3. QED
    BY <2>1, <2>2 DEF Calls, Locked
<1>2. /\ View \in [Keys -> Nat] /\ appended \in Nat /\ \A v \in 1..appended : keyOf[v] \in Keys
      /\ View' \in [Keys -> Nat]
  BY ViewBounds DEF Step, ServerView, ViewInv
<1>3. \/ View' = View
      \/ \E h \in Cut \cap Keys : \E a \in (View[h] + 1)..MaxAppends :
           View' = [View EXCEPT ![h] = a]
  BY SettlingShows DEF Step, ServerView
<1>4. \A k \in Keys : View[k] <= View'[k]
  BY <1>2, <1>3
<1>5. \A k : k \in InDoubt <=>
               \E v \in 1..appended : keyOf[v] = k /\ v > View[k] /\ (Locked => v # appended)
  BY DEF Step, ServerView, Doubts
<1>6. \A k : k \in InDoubt' <=> \E v \in 1..appended' : keyOf'[v] = k /\ v > View'[k]
  BY <1>1 DEF Step, ServerView, Doubts
<1>7. ASSUME NEW k \in InDoubt' PROVE k \in InDoubt \cup Cut
  <2>1. PICK v \in 1..appended' : keyOf'[v] = k /\ v > View'[k]
    BY <1>6
  <2>2. CASE k \notin Cut
    <3>1. v \in 1..appended /\ (Locked => v # appended)
      BY <1>2, <2>1, <2>2
    <3>2. keyOf[v] = k /\ k \in Keys
      BY <1>2, <2>1, <3>1
    <3>3. v > View[k]
      BY <1>2, <1>4, <2>1, <3>1, <3>2
    <3>4. QED
      BY <1>5, <3>1, <3>2, <3>3
  <2>3. QED
    BY <2>2
<1>8. ASSUME NEW k \in Keys, View'[k] = View[k], k \in InDoubt PROVE k \in InDoubt'
  <2>1. PICK v \in 1..appended : keyOf[v] = k /\ v > View[k]
    BY <1>5, <1>8
  <2>2. v \in 1..appended' /\ keyOf'[v] = k /\ v > View'[k]
    BY <1>2, <1>8, <2>1
  <2>3. QED
    BY <1>6, <2>2
<1>9. ASSUME NEW k \in Keys
      PROVE  \/ View'[k] = View[k] /\ (k \in InDoubt => k \in InDoubt')
             \/ k \in InDoubt \cup Cut /\ View'[k] > View[k] /\ View'[k] <= MaxAppends
  <2>1. CASE View'[k] = View[k]
    BY <1>8, <2>1
  <2>2. CASE View'[k] # View[k]
    <3>1. PICK h \in Cut \cap Keys : \E a \in (View[h] + 1)..MaxAppends :
            View' = [View EXCEPT ![h] = a]
      BY <1>3, <2>2
    <3>2. PICK a \in (View[h] + 1)..MaxAppends : View' = [View EXCEPT ![h] = a]
      BY <3>1
    <3>3. k = h /\ View'[k] = a
      BY <1>2, <2>2, <3>1, <3>2
    <3>4. QED
      BY <1>2, <3>1, <3>2, <3>3, WalAssumption
  <2>3. QED
    BY <2>1, <2>2
<1>10. LKV!ServerGoes
  <2>1. Cut = {Calls[c].key : c \in {d \in Clients : LKV!Running(d, "PUT")}}
    BY DEF Cut, Calls, LKV!Running
  <2>2. QED
    BY <1>1, <1>7, <1>9, <2>1 DEF Calls, LKV!ServerGoes
<1>11. QED
  BY <1>10 DEF LinearStep, LKV!LNext

\* The process is killed at any step.
LEMMA KillStep == ASSUME Step, Kill PROVE LinearStep
<1>1. UNCHANGED <<appended, lost, keyOf>> /\ DropConnections
  BY EndKeeps DEF Kill, Step, ServerView
<1>2. appended \in Nat
  BY ViewBounds DEF Step
<1>3. Locked => keyOf[appended] \in Cut
  <2> SUFFICES ASSUME NEW c \in Clients, task[c] = "put" PROVE keyOf[appended] \in Cut
    BY DEF Locked
  <2>1. request[c].cmd = "PUT" /\ keyOf[appended] = request[c].key
    BY DEF Step, ServerView, LinkInv
  <2>2. QED
    BY <2>1, UnderWay DEF Step
<1>4. ASSUME NEW h, NEW a, a \in Settled(h)', a \notin Settled(h) PROVE h \in Cut
  <2>1. InFlight /\ keyOf[appended] = h
    BY <1>1, <1>4, NewlySettled
  <2>2. pc # "idle"
    BY <2>1 DEF InFlight
  <2>3. QED
    BY <1>3, <2>1, <2>2, RunningPut DEF Step, Locked
<1>5. QED
  BY <1>1, <1>2, <1>3, <1>4, GoingStep

\* A record whose put is in flight gets into the memtable: the put takes effect.
LEMMA EffectStep ==
  ASSUME Step, UNCHANGED <<appended, keyOf>>, UNCHANGED connections, pc # "idle",
         NEW h \in Keys, h = keyOf[appended], appended \in (View[h] + 1)..MaxAppends,
         View' = [View EXCEPT ![h] = appended]
  PROVE  LinearStep
<1>1. PICK c \in Clients :
        /\ task[c] = "put" /\ h = request[c].key /\ \A d \in Clients \ {c} : task[d] # "put"
  BY RunningPut DEF Step
<1>2. /\ View \in [Keys -> Nat] /\ appended \in Nat /\ \A v \in 1..appended : keyOf[v] \in Keys
      /\ View[h] # appended /\ View'[h] = appended
  BY ViewBounds DEF Step
<1>3. CallOf(c) = LKV!Call("PUT", h, 0, "open")
  BY <1>1, <1>2 DEF Step, ServerView, Shapes
<1>4. CallOf(c)' = LKV!Call("PUT", h, appended, "open")
  <2>1. task'[c] = "put" /\ request'[c].key = h /\ appended' = appended
    BY <1>1 DEF connections
  <2>2. CallOf(c)' = LKV!Call("PUT", request'[c].key,
                              IF View'[request'[c].key] = appended' THEN appended' ELSE 0, "open")
    BY <2>1 DEF Step, ServerView, Shapes, LKV!Call
  <2>3. QED
    BY <1>2, <2>1, <2>2
<1>5. Calls' = [Calls EXCEPT ![c] = LKV!Call("PUT", h, appended, "open")]
  BY <1>1, <1>4, OthersKept DEF connections
<1>6. InDoubt' = InDoubt \ {h}
  <2>1. Locked /\ Locked'
    BY <1>1 DEF Locked, connections
  <2>2. \A k : k \in InDoubt <=> \E v \in 1..appended : keyOf[v] = k /\ v > View[k] /\ v # appended
    BY <2>1 DEF Step, ServerView, Doubts
  <2>3. \A k : k \in InDoubt' <=>
                 \E v \in 1..appended : keyOf[v] = k /\ v > View'[k] /\ v # appended
    BY <2>1 DEF Step, ServerView, Doubts
  <2>4. \A k \in Keys \ {h} : View'[k] = View[k]
    BY <1>2
  <2>5. h \notin InDoubt'
    BY <1>2, <2>3
  <2>6. ASSUME NEW k, k # h PROVE k \in InDoubt' <=> k \in InDoubt
    BY <1>2, <2>2, <2>3, <2>4, <2>6
  <2>7. QED
    BY <2>5, <2>6
<1>7. LKV!TakeEffect(c)
  <2>1. Calls[c] = LKV!Call("PUT", h, 0, "open")
    BY <1>3 DEF Calls
  <2>2. LKV!Running(c, "PUT") /\ Calls[c].version = 0 /\ Calls[c].key = h
    BY <2>1 DEF LKV!Running, LKV!Call, Calls
  <2>3. LKV!Write(h)
    BY DEF LKV!Write
  <2>4. [Calls[c] EXCEPT !.version = appended] = LKV!Call("PUT", h, appended, "open")
    BY <2>1 DEF LKV!Call
  <2>5. Calls' = [Calls EXCEPT ![c].version = View'[h]]
    BY <1>2, <1>5, <2>4
  <2>6. QED
    BY <1>6, <2>2, <2>3, <2>5 DEF LKV!TakeEffect, Calls
<1>8. QED
  BY <1>7 DEF LinearStep, LKV!LNext

LEMMA EngineStep ==
  ASSUME Step, Start \/ EngineRuns \/ ThreadRuns \/ CtrlC PROVE LinearStep
<1>1. UNCHANGED <<appended, lost, keyOf>> /\ UNCHANGED connections
  BY RunKeeps, OpenKeeps, EndKeeps
     DEF Start, EngineRuns, ThreadRuns, CtrlC, Step, ServerView
<1>2. CASE Start \/ ThreadRuns \/ CtrlC
  <2>1. Start \/ ThreadRuns => pc' = pc /\ resume' = resume
    BY OpenKeeps DEF Start, ThreadRuns, FlushThread, BeginFlush, EndFlush, FlushThreadFails
  <2>2. CtrlC => pc = "idle"
    BY DEF CtrlC, StopEngine
  <2>3. ~InFlight \/ InFlight'
    BY <1>2, <2>1, <2>2 DEF InFlight
  <2>4. QED
    BY <1>1, <2>3, ViewKept, HiddenStep
<1>3. CASE EngineRuns
  <2>1. CASE View' = View
    BY <1>1, <2>1, HiddenStep
  <2>2. ASSUME NEW h \in Keys, NEW a \in (View[h] + 1)..MaxAppends, a \in Settled(h)',
               a \notin Settled(h), View' = [View EXCEPT ![h] = a]
        PROVE  LinearStep
    <3>1. a = appended /\ keyOf[appended] = h
      BY <1>1, <2>2, NewlySettled
    <3>2. pc # "idle"
      BY <1>3, PutStepRuns DEF EngineRuns
    <3>3. QED
      BY <1>1, <2>2, <3>1, <3>2, EffectStep
  <2>3. QED
    BY <2>1, <2>2, SettlingShows DEF Step, ServerView
<1>4. QED
  BY <1>2, <1>3

------------------------------------------------------------------------------
(* The steps of the tasks *)

\* A put takes the mutex and its record gets into the log: nobody sees that yet.
\* If the process dies in it, the record may be seen after the next start.
LEMMA StartPutStep ==
  ASSUME Step, NEW c \in Clients, StartPut(c) PROVE LinearStep
<1> DEFINE k == request[c].key
<1>1. /\ ~Locked /\ task[c] = "lock" /\ request[c].cmd = "PUT" /\ k \in Keys /\ PutAppend(k)
      /\ \A d \in Clients : task[d] # "put"
  BY RequestKey DEF StartPut, Locked, Step, ServerView, ServerInv, ServerTypeOK
<1> HIDE DEF k
<1>2. /\ appended \in Nat /\ appended' = appended + 1 /\ appended' \in 1..MaxAppends
      /\ keyOf'[appended'] = k /\ \A v \in 1..appended : keyOf'[v] = keyOf[v]
      /\ pc = "idle" /\ pc' = (IF up' THEN "check" ELSE "idle") /\ lost \subseteq lost'
  BY <1>1, AppendKeeps DEF Step, ServerView
<1>3. ASSUME NEW h, NEW a, a \in Settled(h)', a \notin Settled(h)
      PROVE  a = appended' /\ h = k /\ ~up'
  <2>1. a \in 1..appended' /\ a \notin lost' /\ keyOf'[a] = h /\ (InFlight' => a # appended')
    BY <1>3 DEF Settled, Live
  <2>2. ~InFlight /\ (up' => InFlight')
    BY <1>2 DEF InFlight
  <2>3. ~(a \in 1..appended /\ a \notin lost /\ keyOf[a] = h)
    BY <1>3, <2>2 DEF Settled, Live
  <2>4. a = appended'
    BY <1>2, <2>1, <2>3
  <2>5. QED
    BY <1>2, <2>1, <2>2, <2>4
<1>4. CASE ~up'
  <2>1. DropConnections
    BY <1>4 DEF StartPut
  <2>2. k \in Cut
    BY <1>1, UnderWay DEF Step, k
  <2>3. \A v \in 1..appended' : v > appended => v = appended'
    BY <1>2
  <2>4. QED
    BY <1>1, <1>2, <1>3, <2>1, <2>2, <2>3, GoingStep
<1>5. CASE up'
  <2>1. View' = View
    BY <1>3, <1>5, SettlingShows DEF Step, ServerView
  <2>2. /\ task'[c] = "put" /\ request' = request /\ reply' = reply
        /\ \A d \in Clients \ {c} : task'[d] = task[d]
    BY <1>5 DEF StartPut, Goto, Step, ServerView, ServerInv, ServerTypeOK
  <2>3. /\ View \in [Keys -> Nat] /\ View[k] <= appended
        /\ \A v \in 1..appended : keyOf[v] \in Keys
    BY <1>1, ViewBounds DEF Step
  <2>4. CallOf(c)' = CallOf(c)
    <3>1. CallOf(c) = LKV!Call("PUT", k, 0, "open")
      BY <1>1 DEF Step, ServerView, Shapes, k
    <3>2. CallOf(c)' = LKV!Call("PUT", request'[c].key,
                                IF View'[request'[c].key] = appended' THEN appended' ELSE 0, "open")
      BY <2>2 DEF Step, ServerView, Shapes, LKV!Call
    <3>3. request'[c].key = k /\ View'[k] # appended'
      BY <1>2, <2>1, <2>2, <2>3 DEF k
    <3>4. QED
      BY <3>1, <3>2, <3>3
  <2>5. Calls' = Calls
    <3>1. Calls' = [Calls EXCEPT ![c] = CallOf(c)']
      BY <1>1, <2>2, OthersKept
    <3>2. QED
      BY <2>4, <3>1 DEF Calls
  <2>6. InDoubt' = InDoubt
    <3>1. Locked'
      BY <2>2 DEF Locked
    <3>2. \A h : h \in InDoubt <=> \E v \in 1..appended : keyOf[v] = h /\ v > View[h]
      BY <1>1 DEF Step, ServerView, Doubts
    <3>3. \A h : h \in InDoubt' <=>
                   \E v \in 1..appended' : keyOf'[v] = h /\ v > View[h] /\ v # appended'
      BY <2>1, <3>1 DEF Step, ServerView, Doubts
    <3>4. ASSUME NEW h PROVE h \in InDoubt' <=> h \in InDoubt
      BY <1>2, <3>2, <3>3
    <3>5. QED
      BY <3>4
  <2>7. QED
    BY <2>1, <2>5, <2>6 DEF LinearStep
<1>6. QED
  BY <1>4, <1>5

\* The steps that leave the engine alone
LEMMA QuietEngine ==
  UNCHANGED evars => UNCHANGED <<up, appended, lost, keyOf>> /\ (~InFlight \/ InFlight')
BY DEF evars, vars, history, volatile, InFlight

LEMMA AcceptStep ==
  ASSUME Step, NEW c \in Clients, Accept(c) \/ ReadOther(c) PROVE LinearStep
<1> DEFINE place == IF task[c] = "none" THEN "read" ELSE "write"
<1>1. /\ task[c] \in {"none", "read"} /\ request[c] = NoRequest /\ UNCHANGED <<evars, request>>
      /\ Goto(c, place) /\ (reply' = reply \/ \E r : reply' = [reply EXCEPT ![c] = r])
  BY DEF Accept, ReadOther, Step, ServerView, LinkInv
<1> HIDE DEF place
<1>2. /\ View' = View /\ Calls' = [Calls EXCEPT ![c] = CallOf(c)'] /\ task'[c] = place
      /\ place # "put" => InDoubt' = InDoubt
  BY <1>1, QuietEngine, TaskStep
<1>3. place \in {"read", "write"}
  BY DEF place
<1>4. CallOf(c) = LKV!NoCall /\ CallOf(c)' = LKV!NoCall
  BY <1>1, <1>2, <1>3 DEF Step, ServerView, Shapes, NoRequest, LKV!NoCall
<1>5. Calls' = Calls
  BY <1>2, <1>4 DEF Calls
<1>6. QED
  BY <1>2, <1>3, <1>5 DEF LinearStep

\* A request comes in.
LEMMA ReadStep ==
  ASSUME Step, NEW c \in Clients, NEW r \in Requests, ReadRequest(c, r) PROVE LinearStep
<1>1. /\ task[c] = "read" /\ UNCHANGED <<evars, reply>> /\ Goto(c, "lock")
      /\ request' = [request EXCEPT ![c] = r] /\ request'[c] = r
  BY DEF ReadRequest, Step, ServerView, ServerInv, ServerTypeOK
<1>0. task[c] # "put" /\ "lock" # "put"
  BY <1>1
<1>2. /\ View' = View /\ Calls' = [Calls EXCEPT ![c] = CallOf(c)'] /\ task'[c] = "lock"
      /\ InDoubt' = InDoubt
  BY <1>0, <1>1, QuietEngine, TaskStep
<1>3. CallOf(c) = LKV!NoCall /\ CallOf(c)' = LKV!Call(r.cmd, r.key, 0, "open")
  BY <1>1, <1>2 DEF Step, ServerView, Shapes, LKV!NoCall, LKV!Call
<1>4. r.cmd \in {"PUT", "GET"} /\ r.key \in Keys
  BY DEF Requests, Request
<1>5. Calls[c].status = "none" /\ Calls' = [Calls EXCEPT ![c] = LKV!Call(r.cmd, r.key, 0, "open")]
  BY <1>2, <1>3 DEF Calls, LKV!NoCall
<1>6. LKV!Invoke(c)
  BY <1>2, <1>4, <1>5 DEF LKV!Invoke, Calls
<1>7. QED
  BY <1>6 DEF LinearStep, LKV!LNext

\* A GET takes its answer while it holds the mutex.
LEMMA GetStep ==
  ASSUME Step, NEW c \in Clients, ServeGet(c) PROVE LinearStep
<1> DEFINE k == request[c].key
<1>1. /\ task[c] = "lock" /\ UNCHANGED <<evars, request>> /\ Goto(c, "write")
      /\ reply' = [reply EXCEPT ![c] = Lookup(Get(k))] /\ request[c].cmd = "GET"
      /\ reply'[c] = Lookup(Get(k))
  BY DEF ServeGet, Step, ServerView, LinkInv
<1>0. task[c] # "put" /\ "write" # "put"
  BY <1>1
<1>2. /\ View' = View /\ Calls' = [Calls EXCEPT ![c] = CallOf(c)'] /\ task'[c] = "write"
      /\ InDoubt' = InDoubt
  BY <1>0, <1>1, QuietEngine, TaskStep
<1>3. k \in Keys /\ View[k] = Get(k)
  <2>1. up /\ k \in Keys
    BY <1>1, RequestKey DEF Step, ServerView, LinkInv, ServerInv, ServerTypeOK
  <2>2. QED
    BY <2>1 DEF View
<1>4. CallOf(c) = LKV!Call("GET", k, 0, "open")
  BY <1>1 DEF Step, ServerView, Shapes
<1>5. CallOf(c)' = LKV!Call("GET", k, View[k], "OK")
  <2>1. Lookup(Get(k)).version = View[k] /\ Lookup(Get(k)).kind # "ERROR"
    BY <1>3 DEF Lookup, Answer
  <2>2. QED
    BY <1>1, <1>2, <2>1 DEF Step, ServerView, Shapes, LKV!Call
<1>6. LKV!AnswerGet(c)
  <2>1. Calls[c] = LKV!Call("GET", k, 0, "open")
    BY <1>4 DEF Calls
  <2>2. Calls[c].key = k /\ LKV!Running(c, "GET")
    BY <2>1 DEF LKV!Running, LKV!Call, Calls
  <2>3. Calls' = [Calls EXCEPT ![c] = LKV!Call("GET", Calls[c].key, View[Calls[c].key], "OK")]
    BY <1>2, <1>5, <2>2
  <2>4. QED
    BY <1>2, <2>2, <2>3 DEF LKV!AnswerGet, Calls
<1>7. QED
  BY <1>6 DEF LinearStep, LKV!LNext

\* A PUT the log does not take
LEMMA RefuseStep ==
  ASSUME Step, NEW c \in Clients, RefusePut(c) PROVE LinearStep
<1> DEFINE k == request[c].key
<1>1. /\ task[c] = "lock" /\ request' = request /\ Goto(c, "write") /\ request[c].cmd = "PUT"
      /\ reply' = [reply EXCEPT ![c] = Answer("ERROR", 0)] /\ reply'[c] = Answer("ERROR", 0)
  BY DEF RefusePut, Step, ServerView, LinkInv
<1>2. UNCHANGED <<appended, lost, keyOf>> /\ (~InFlight \/ InFlight')
  BY QuietEngine, RefusedKeeps DEF RefusePut, InFlight
<1>0. task[c] # "put" /\ "write" # "put"
  BY <1>1
<1>3. /\ View' = View /\ Calls' = [Calls EXCEPT ![c] = CallOf(c)'] /\ task'[c] = "write"
      /\ InDoubt' = InDoubt
  BY <1>0, <1>1, <1>2, TaskStep
<1>4. Calls[c] = LKV!Call("PUT", k, 0, "open")
  BY <1>1 DEF Step, ServerView, Shapes, Calls
<1>5. CallOf(c)' = LKV!Call("PUT", k, 0, "ERROR")
  BY <1>1, <1>3 DEF Step, ServerView, Shapes, Answer, LKV!Call
<1>6. LKV!AnswerError(c)
  <2>1. Calls[c].key = k /\ LKV!Running(c, "PUT")
    BY <1>4 DEF LKV!Running, LKV!Call, Calls
  <2>2. QED
    BY <1>3, <1>5, <2>1 DEF LKV!AnswerError, Calls
<1>7. QED
  BY <1>6 DEF LinearStep, LKV!LNext

\* put has returned. What it was acknowledged with has taken effect; what it was not,
\* is in doubt unless it has.
LEMMA EndPutStep ==
  ASSUME Step, NEW c \in Clients, EndPut(c) PROVE LinearStep
<1> DEFINE k == request[c].key
<1>1. /\ task[c] = "put" /\ UNCHANGED <<evars, request>> /\ Goto(c, "write")
      /\ reply' = [reply EXCEPT ![c] = PutResult(k)] /\ reply'[c] = PutResult(k)
      /\ request[c].cmd = "PUT" /\ appended \in 1..MaxAppends /\ keyOf[appended] = k
  BY DEF EndPut, Step, ServerView, LinkInv
<1>2. /\ View' = View /\ Calls' = [Calls EXCEPT ![c] = CallOf(c)'] /\ task'[c] = "write"
      /\ UNCHANGED <<appended, keyOf>>
  BY <1>1, QuietEngine, TaskStep
<1>3. Locked /\ ~Locked'
  BY <1>1, <1>2 DEF Locked, Goto, Step, ServerView, ServerInv, ServerTypeOK, OnePutAtATime
<1>4. k \in Keys /\ View \in [Keys -> Nat] /\ appended \in Nat /\ View[k] <= appended
  BY <1>1, RequestKey, ViewBounds DEF Step, ServerView, ServerInv, ServerTypeOK
<1>5. Calls[c] = LKV!Call("PUT", k, IF View[k] = appended THEN appended ELSE 0, "open")
  BY <1>1 DEF Step, ServerView, Shapes, Calls
<1>6. Calls[c].key = k /\ LKV!Running(c, "PUT")
  BY <1>5 DEF LKV!Running, LKV!Call, Calls
<1>7. \A h : h \in InDoubt <=>
               \E v \in 1..appended : keyOf[v] = h /\ v > View[h] /\ v # appended
  BY <1>3 DEF Step, ServerView, Doubts
<1>8. \A h : h \in InDoubt' <=> \E v \in 1..appended : keyOf[v] = h /\ v > View[h]
  BY <1>2, <1>3 DEF Step, ServerView, Doubts
<1>9. CASE acked[k] = appended
  <2>1. View[k] = appended
    <3>1. acked[k] \in {0} \cup Settled(k)
      BY <1>4, AckedSettled DEF Step, ServerView
    <3>2. acked[k] <= View[k]
      BY <1>1, <1>4, <1>9, <3>1 DEF Step, ServerView, ViewInv
    <3>3. QED
      BY <1>4, <1>9, <3>2
  <2>2. CallOf(c)' = LKV!Call("PUT", k, appended, "OK")
    BY <1>1, <1>2, <1>9 DEF Step, ServerView, Shapes, PutResult, Answer, LKV!Call
  <2>3. InDoubt' = InDoubt
    <3>1. ASSUME NEW h PROVE h \in InDoubt' <=> h \in InDoubt
      BY <1>1, <1>4, <1>7, <1>8, <2>1
    <3>2. QED
      BY <3>1
  <2>4. Calls[c].version # 0 /\ [Calls[c] EXCEPT !.status = "OK"] = LKV!Call("PUT", k, appended, "OK")
    BY <1>1, <1>5, <2>1 DEF LKV!Call
  <2>5. Calls' = [Calls EXCEPT ![c].status = "OK"]
    BY <1>2, <2>2, <2>4
  <2>6. LKV!AnswerPut(c)
    BY <1>2, <1>6, <2>3, <2>4, <2>5 DEF LKV!AnswerPut, Calls
  <2>7. QED
    BY <2>6 DEF LinearStep, LKV!LNext
<1>10. CASE acked[k] # appended
  <2>1. CallOf(c)' = LKV!Call("PUT", k, 0, "ERROR")
    BY <1>1, <1>2, <1>10 DEF Step, ServerView, Shapes, PutResult, Answer, LKV!Call
  <2>2. InDoubt' \in {InDoubt, InDoubt \cup {k}}
    <3>1. ASSUME NEW h, h # k PROVE h \in InDoubt' <=> h \in InDoubt
      BY <1>1, <1>7, <1>8, <3>1
    <3>2. k \in InDoubt => k \in InDoubt'
      BY <1>7, <1>8
    <3>3. CASE k \in InDoubt'
      <4>1. InDoubt' = InDoubt \cup {k}
        BY <3>1, <3>3
      <4>2. QED
        BY <4>1
    <3>4. CASE k \notin InDoubt'
      <4>1. InDoubt' = InDoubt
        BY <3>1, <3>2, <3>4
      <4>2. QED
        BY <4>1
    <3>5. QED
      BY <3>3, <3>4
  <2>3. LKV!AnswerError(c)
    BY <1>2, <1>6, <2>1, <2>2 DEF LKV!AnswerError, Calls
  <2>4. QED
    BY <2>3 DEF LinearStep, LKV!LNext
<1>11. QED
  BY <1>9, <1>10

\* The reply is written, or the connection ends.
LEMMA ReturnStep ==
  ASSUME Step, NEW c \in Clients, WriteReply(c) \/ Leave(c) PROVE LinearStep
<1>1. PICK place \in {"none", "read"} : Goto(c, place)
  BY DEF WriteReply, Leave
<1>2. /\ task[c] \in {"read", "write"} /\ UNCHANGED evars
      /\ request' = [request EXCEPT ![c] = NoRequest] /\ reply' = [reply EXCEPT ![c] = NoReply]
  BY DEF WriteReply, Leave
<1>3. /\ View' = View /\ Calls' = [Calls EXCEPT ![c] = CallOf(c)'] /\ task'[c] = place
      /\ InDoubt' = InDoubt
  BY <1>1, <1>2, QuietEngine, TaskStep
<1>4. CallOf(c)' = LKV!NoCall
  BY <1>3 DEF Step, ServerView, Shapes, LKV!NoCall
<1>5. CASE CallOf(c) = LKV!NoCall
  <2>1. Calls' = Calls
    BY <1>3, <1>4, <1>5 DEF Calls
  <2>2. QED
    BY <1>3, <2>1 DEF LinearStep
<1>6. CASE CallOf(c) # LKV!NoCall
  <2>1. CallOf(c).status \in {"OK", "ERROR"}
    BY <1>2, <1>6 DEF Step, ServerView, Shapes, LKV!Call, LKV!NoCall
  <2>2. LKV!Return(c)
    BY <1>3, <1>4, <2>1 DEF LKV!Return, Calls
  <2>3. QED
    BY <2>2 DEF LinearStep, LKV!LNext
<1>7. QED
  BY <1>5, <1>6

\* Every step of the server is one of the store that LinearKV describes, or none.
LEMMA ServerStep ==
  ASSUME Step, [ServerNext]_servervars PROVE LinearStep
<1>1. CASE UNCHANGED servervars
  BY <1>1, QuietEngine, ViewKept, HiddenStep DEF servervars
<1>2. CASE ServerNext
  BY <1>2, EngineStep, KillStep, StartPutStep, AcceptStep, ReadStep, GetStep, RefuseStep,
     EndPutStep, ReturnStep DEF ServerNext, Serve
<1>3. QED
  BY <1>1, <1>2

------------------------------------------------------------------------------
(* The theorems *)

CalmServerSpec == ServerSpec /\ [][CalmStep]_evars

\* The server implements LinearKV: for every number of clients, keys, requests and
\* restarts, each GET answers with what the store has at one moment while it is
\* served, each PUT that is answered OK takes effect at one such moment, and one
\* without that answer takes effect at most once, and never over a later one.
THEOREM ServerIsLinearizable == CalmServerSpec => (Reliable => ImplementsLinearKV)
<1> SUFFICES ASSUME Reliable PROVE CalmServerSpec => ImplementsLinearKV
  OBVIOUS
<1>1. CalmServerSpec => CalmSpec
  BY ServerUsesEngine, PTL DEF CalmServerSpec, CalmSpec
<1>2. (Reliable => Context) /\ ServerInv /\ LinkInv => ServerView
  BY ViewNewest, ShapesHold, DoubtsHold DEF ServerView
<1>3. ServerView /\ [ServerNext]_servervars => ServerInv' /\ LinkInv'
  BY ServerNextInv, LinkNext DEF ServerView
<1>4. ServerInit /\ ServerView => LKV!LInit
  <2> SUFFICES ASSUME ServerInit, ServerView PROVE LKV!LInit
    OBVIOUS
  <2>1. appended = 0 /\ \A c \in Clients : task[c] = "none"
    BY DEF ServerInit, EngineInit, Init
  <2>2. \A k \in Keys : Settled(k) = {}
    BY <2>1 DEF Settled, Live
  <2>3. LKV!KVInit
    BY <2>2 DEF ServerView, ViewInv, LKV!KVInit
  <2>4. Calls = [c \in Clients |-> LKV!NoCall]
    BY <2>1 DEF ServerView, Shapes, Calls
  <2>5. InDoubt = {}
    BY <2>1 DEF ServerView, Doubts
  <2>6. QED
    BY <2>3, <2>4, <2>5 DEF LKV!LInit, Calls
<1>5. ServerView /\ ServerView' /\ [Reliable => SettlesOne]_evars /\ [ServerNext]_servervars
        => [LKV!LNext]_(LKV!lvars)
  <2> SUFFICES ASSUME ServerView, ServerView', [Reliable => SettlesOne]_evars,
                      [ServerNext]_servervars
               PROVE  LinearStep
    BY DEF LinearStep, LKV!lvars, Calls
  <2>1. SettlesOne
    BY NothingSettles
  <2>2. QED
    BY <2>1, ServerStep DEF Step
<1>6. QED
  BY <1>1, <1>2, <1>3, <1>4, <1>5, ServerInitInv, LinkInit, EngineDurable, PTL
     DEF CalmServerSpec, ServerSpec, ImplementsLinearKV, LKV!LSpec

\* So the server over a steady engine is linearizable in every behaviour it has.
THEOREM SteadyIsLinearizable == ServerSpec => (Steady => ImplementsLinearKV)
<1>1. Steady => Reliable
  BY DEF Steady, Reliable
<1>2. QED
  BY <1>1, ServerUsesEngine, SteadyIsCalm, ServerIsLinearizable, PTL DEF CalmServerSpec

==============================================================================
