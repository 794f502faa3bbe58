--------------------------------- MODULE Server ---------------------------------
(* The TCP server of src/commands/server.rs in front of the storage engine,  *)
(* and the clients of src/commands/client.rs: one task per connection, the   *)
(* engine in a mutex.                                                        *)
(*                                                                           *)
(* A task waits for a line ("read"), waits for the mutex ("lock"), runs put  *)
(* while it holds it ("put"), and writes the reply after it has released it  *)
(* ("write").  It awaits at "read" and "write" only, and holds nothing there. *)
EXTENDS StorageEngine

CONSTANT Clients

VARIABLES
  task,       \* client -> where the task of its connection stands
  request,    \* client -> the line that is being handled
  reply       \* client -> the reply that is being written

connections == <<task, request, reply>>
servervars == <<evars, connections>>

\* A line that is neither PUT with key and value nor GET with a key, but not
\* empty, is answered with an ERROR without the engine: DELETE, a usage error,
\* an unknown command.
Request(cmd, k) == [cmd |-> cmd, key |-> k]
Requests == {Request(cmd, k) : cmd \in {"PUT", "GET"}, k \in Keys}

\* OK; VALUE v; NOT_FOUND, which is version 0; ERROR
Answer(kind, version) == [kind |-> kind, version |-> version]
Lookup(v) == Answer(IF v = 0 THEN "NOT_FOUND" ELSE "VALUE", v)

NoRequest == [cmd |-> "none"]
NoReply == [kind |-> "none"]

ServerInit ==
  /\ EngineInit
  /\ task = [c \in Clients |-> "none"]
  /\ request = [c \in Clients |-> NoRequest]
  /\ reply = [c \in Clients |-> NoReply]

\* Seeded bug: the mutex is held until the reply is written.
LockedWhileReplying == \E c \in Clients : task[c] \in {"put", "write"}

\* Seeded bug: a put that waits for the flush thread releases the mutex.
UnlockedWhileWaiting == \E c \in Clients : task[c] = "put" /\ pc # "idle" /\ pc # "wait"

\* A task holds the mutex across several steps of the engine.
Locked == \E c \in Clients : task[c] = "put"

Goto(c, place) == task' = [task EXCEPT ![c] = place]

\* The accepted connection gets a task of its own.
Accept(c) ==
  /\ up /\ task[c] = "none"
  /\ Goto(c, "read")
  /\ UNCHANGED <<evars, request, reply>>

\* Seeded bug: the request is answered before its line is complete.
ReadPartRequest(c, r) ==
  /\ task[c] = "read"
  /\ Goto(c, "lock")
  /\ UNCHANGED <<evars, request, reply>>

\* read_line returns a request for the engine.  The bound on appends counts the
\* puts that are waiting.
Waiting(cmd) == {c \in Clients : task[c] = "lock" /\ request[c].cmd = cmd}

ReadRequest(c, r) ==
  /\ task[c] = "read"
  /\ r.cmd = "PUT" => appended + Cardinality(Waiting("PUT")) < MaxAppends
  /\ Goto(c, "lock")
  /\ request' = [request EXCEPT ![c] = r]
  /\ UNCHANGED <<evars, reply>>

\* read_line returns a line that is answered without the engine.
ReadOther(c) ==
  /\ task[c] = "read"
  /\ Goto(c, "write")
  /\ reply' = [reply EXCEPT ![c] = Answer("ERROR", 0)]
  /\ UNCHANGED <<evars, request>>

\* GET: lock, get, unlock
ServeGet(c) ==
  /\ task[c] = "lock" /\ ~Locked /\ request[c].cmd = "GET"
  /\ Goto(c, "write")
  /\ reply' = [reply EXCEPT ![c] = Lookup(Get(request[c].key))]
  /\ UNCHANGED <<evars, request>>

\* The process is gone, and every connection with it.
DropConnections ==
  /\ task' = [c \in Clients |-> "none"]
  /\ request' = [c \in Clients |-> NoRequest]
  /\ reply' = [c \in Clients |-> NoReply]

\* PUT: lock, and the first step of put
StartPut(c) ==
  /\ task[c] = "lock" /\ ~Locked /\ request[c].cmd = "PUT"
  /\ PutAppend(request[c].key)
  /\ IF up' THEN Goto(c, "put") /\ UNCHANGED <<request, reply>>
     ELSE DropConnections

\* PUT of an entry the log does not take: too large, or no rotation possible.
RefusePut(c) ==
  /\ task[c] = "lock" /\ ~Locked /\ request[c].cmd = "PUT"
  /\ PutRefused \/ (~RotationDue /\ UNCHANGED evars)
  /\ Goto(c, "write")
  /\ reply' = [reply EXCEPT ![c] = Answer("ERROR", 0)]
  /\ UNCHANGED request

\* What put of key k returned: Ok made it the acknowledged version.
PutResult(k) ==
  IF acked[k] = appended THEN Answer("OK", appended) ELSE Answer("ERROR", 0)

\* Seeded bug: put is handed to another task and answered at once.
EndPutEarly(c) ==
  /\ task[c] = "put"
  /\ Goto(c, "write")
  /\ reply' = [reply EXCEPT ![c] = Answer("OK", appended)]
  /\ UNCHANGED <<evars, request>>

\* put returns, the mutex is released.
EndPut(c) ==
  /\ task[c] = "put" /\ pc = "idle"
  /\ Goto(c, "write")
  /\ reply' = [reply EXCEPT ![c] = PutResult(request[c].key)]
  /\ UNCHANGED <<evars, request>>

\* write_all has written the reply, and the loop goes on with the next line ...
WriteReply(c) ==
  /\ task[c] = "write"
  /\ Goto(c, "read")
  /\ request' = [request EXCEPT ![c] = NoRequest]
  /\ reply' = [reply EXCEPT ![c] = NoReply]
  /\ UNCHANGED evars

\* ... or the task ends: end of file or an error at read_line, an error at
\* write_all, or the runtime shuts down after Ctrl-C.
Leave(c) ==
  /\ task[c] \in {"read", "write"}
  /\ Goto(c, "none")
  /\ request' = [request EXCEPT ![c] = NoRequest]
  /\ reply' = [reply EXCEPT ![c] = NoReply]
  /\ UNCHANGED evars

\* The process is killed.
Kill == CrashEngine /\ DropConnections

\* Ctrl-C: the runtime waits for the tasks that are not at an await, and drops
\* the others; then nobody holds the engine any more, and it is dropped.
CtrlC ==
  /\ \A c \in Clients : task[c] = "none"
  /\ StopEngine
  /\ UNCHANGED connections

Start == (\E n \in 1..MaxSegments : OpenEngine(n)) /\ UNCHANGED connections
EngineRuns == PutStep /\ UNCHANGED connections
ThreadRuns == FlushThread /\ UNCHANGED connections

\* What a task does from the moment it asks for the mutex
Serve(c) == ServeGet(c) \/ RefusePut(c) \/ StartPut(c) \/ EndPut(c)

ServerNext ==
  \/ Start \/ EngineRuns \/ ThreadRuns \/ Kill \/ CtrlC
  \/ \E c \in Clients :
        \/ Accept(c) \/ ReadOther(c) \/ Serve(c) \/ WriteReply(c) \/ Leave(c)
        \/ \E r \in Requests : ReadRequest(c, r)

ServerSpec == ServerInit /\ [][ServerNext]_servervars

------------------------------------------------------------------------------
(* Properties *)

\* A task that asks for the mutex or holds it has a request to serve.
ServerTypeOK ==
  /\ task \in [Clients -> {"none", "read", "lock", "put", "write"}]
  /\ request \in [Clients -> Requests \cup {NoRequest}]
  /\ \A c \in Clients : task[c] \in {"lock", "put"} => request[c] \in Requests

\* At most one put runs, and only while its task holds the mutex: between two
\* puts, and from a crash to the next, nothing of the engine is half done but
\* what the flush thread does (server.rs handle_client_connection).
OnePutAtATime ==
  /\ \A c, d \in Clients : task[c] = "put" /\ task[d] = "put" => c = d
  /\ pc # "idle" => \E c \in Clients : task[c] = "put"

\* The call of a client, as LinearKV sees it.  A running PUT has taken effect
\* once get would answer with it.
CallOf(c) ==
  LET r == request[c]
      v == IF task[c] = "put" /\ View[r.key] = appended THEN appended ELSE 0
  IN IF r.cmd = "none" THEN [op |-> "none", status |-> "none"]
     ELSE IF task[c] # "write"
       THEN [op |-> r.cmd, key |-> r.key, version |-> v, status |-> "open"]
     ELSE [op |-> r.cmd, key |-> r.key, version |-> reply[c].version,
           status |-> IF reply[c].kind = "ERROR" THEN "ERROR" ELSE "OK"]

\* The keys with a PUT that the log has, that nobody waits for, and that get
\* does not answer with: it failed after its record was appended.
InDoubt ==
  LET settled == 1..(IF Locked THEN appended - 1 ELSE appended)
  IN {keyOf[v] : v \in {w \in settled : w > View[keyOf[w]]}}

LKV == INSTANCE LinearKV
         WITH store <- View, MaxVersion <- MaxAppends,
              call <- [c \in Clients |-> CallOf(c)], doubtful <- InDoubt

\* The server is linearizable: a GET of one client never answers with a version
\* older than what any client was told before it asked, whatever flush, put or
\* restart comes in between; a PUT that was answered OK has taken effect by then;
\* and one that was answered ERROR after it was logged comes back with a restart
\* or not at all, but never over a later PUT (server.rs handle_client_connection,
\* storage_engine.rs put).
ImplementsLinearKV == LKV!LSpec

\* The tasks run on the worker threads of the runtime; parking_lot hands the
\* mutex over fairly once in a while, so a task that waits for it gets it.
\* Nothing is assumed of clients: one that does not read its reply may leave its
\* task at write_all for ever.
ServerFairness ==
  /\ WF_servervars(EngineRuns)
  /\ WF_servervars(ThreadRuns)
  /\ \A c \in Clients : SF_servervars(Serve(c))
FairServerSpec == ServerSpec /\ ServerFairness

\* Every request is answered, or the process dies: a put that waits for the
\* flush thread, a slow client or a stream of other requests does not keep a
\* task from the engine for ever (server.rs handle_client_connection).
EveryRequestAnswered ==
  \A c \in Clients : task[c] \in {"lock", "put"} ~> task[c] \in {"write", "none"}

==============================================================================
