-------------------------------- MODULE LinearKV --------------------------------
(* What the server promises to its clients: the store of module KVStore,     *)
(* used by several clients at a time, each of which sees one operation after *)
(* the other.  Every GET takes its answer at one moment between its request  *)
(* and its reply, and every PUT that is answered OK takes effect at one such  *)
(* moment.                                                                   *)
(*                                                                           *)
(* A PUT that is answered with an error, or not at all because the server    *)
(* went away, is in doubt unless it has taken effect: it may still do so when *)
(* the server goes away, but not after a later PUT of the same key.          *)
EXTENDS KVStore

CONSTANT Clients

VARIABLES
  call,        \* client -> its call
  doubtful     \* the keys with a PUT in doubt

lvars == <<store, call, doubtful>>

NoCall == [op |-> "none", status |-> "none"]

\* A PUT has version 0 until it takes effect; a GET answers with the version.
\* The status of a call is "open" until it has its answer, "OK" or "ERROR".
Call(op, k, version, status) ==
  [op |-> op, key |-> k, version |-> version, status |-> status]

LInit == KVInit /\ call = [c \in Clients |-> NoCall] /\ doubtful = {}

Invoke(c) ==
  /\ call[c].status = "none"
  /\ \E op \in {"PUT", "GET"}, k \in Keys :
        call' = [call EXCEPT ![c] = Call(op, k, 0, "open")]
  /\ UNCHANGED <<store, doubtful>>

Running(c, op) == call[c].status = "open" /\ call[c].op = op

TakeEffect(c) ==
  /\ Running(c, "PUT") /\ call[c].version = 0
  /\ Write(call[c].key)
  /\ call' = [call EXCEPT ![c].version = store'[call[c].key]]
  /\ doubtful' = doubtful \ {call[c].key}

AnswerPut(c) ==
  /\ Running(c, "PUT") /\ call[c].version # 0
  /\ call' = [call EXCEPT ![c].status = "OK"]
  /\ UNCHANGED <<store, doubtful>>

AnswerGet(c) ==
  /\ Running(c, "GET")
  /\ call' = [call EXCEPT ![c] = Call("GET", @.key, store[@.key], "OK")]
  /\ UNCHANGED <<store, doubtful>>

AnswerError(c) ==
  /\ Running(c, "PUT")
  /\ call' = [call EXCEPT ![c] = Call("PUT", @.key, 0, "ERROR")]
  /\ doubtful' \in {doubtful, doubtful \cup {call[c].key}}
  /\ UNCHANGED store

\* The reply arrives, or the client has gone.
Return(c) ==
  /\ call[c].status \in {"OK", "ERROR"}
  /\ call' = [call EXCEPT ![c] = NoCall]
  /\ UNCHANGED <<store, doubtful>>

\* The server goes away, and the calls with it.
ServerGoes ==
  LET cut == {call[c].key : c \in {d \in Clients : Running(d, "PUT")}}
  IN /\ call' = [c \in Clients |-> NoCall]
     /\ doubtful' \subseteq doubtful \cup cut
     /\ \A k \in Keys :
          \/ store'[k] = store[k] /\ (k \in doubtful => k \in doubtful')
          \/ k \in doubtful \cup cut /\ store'[k] > store[k] /\ store'[k] <= MaxVersion

LNext ==
  \/ \E c \in Clients :
        \/ Invoke(c) \/ TakeEffect(c) \/ Return(c)
        \/ AnswerPut(c) \/ AnswerGet(c) \/ AnswerError(c)
  \/ ServerGoes

LSpec == LInit /\ [][LNext]_lvars

==============================================================================
