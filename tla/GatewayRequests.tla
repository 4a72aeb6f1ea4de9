--------------------------- MODULE GatewayRequests ---------------------------
(***************************************************************************)
(* Mutating requests of the production gateway (guif/host_gateway.py):     *)
(* ProductionHostGateway._mutation and the idempotency records of          *)
(* GatewayRequestStore.                                                    *)
(*                                                                         *)
(* Every request is served by a thread of its own (ThreadingWSGIServer),   *)
(* and the host-loop gateway serves others on the same records.  A record  *)
(* is a file named after the Idempotency-Key; a step is one access to it.  *)
(* A client that gets no answer sends its request again, with the same     *)
(* key, to another thread or another process.                              *)
(***************************************************************************)
EXTENDS Naturals

CONSTANTS
    Threads,
    Keys,        \* Idempotency-Keys
    Requests,    \* request hashes
    OneTime,     \* requests answered with a one-time secret (a lease token)
    Quota,       \* bound of the model: requests served by a thread
    MaxCrashes,  \* bound of the model: deaths of a gateway
    None

ASSUME GatewayAssumption ==
    /\ OneTime \subseteq Requests
    /\ Quota \in Nat /\ MaxCrashes \in Nat

\* A request as a thread received it; it stands for the request_id, too.
Attempts == [thread : Threads, n : 1..Quota, key : Keys, req : Requests]

ASSUME NoneAssumption == None \notin Attempts

\* The file of a key: absent, created but not yet written, or a record.
Absent == [by |-> None, status |-> "absent"]
Blank == [by |-> None, status |-> "blank"]
Record == [by : Attempts, status : {"processing", "completed", "failed"}]

VARIABLES
    store,    \* [Keys -> the file of the key]
    server,   \* [Threads -> the attempt the thread serves, and its next step]
    served,   \* [Threads -> requests the thread has received]
    crashes,  \* gateways that died so far
    ran,      \* history: <<attempt, outcome>> of every operation that ran
    given     \* history: <<to, of>>, `to` was answered with the result of `of`

vars == <<store, server, served, crashes, ran, given>>

Steps == {"look", "create", "fill", "read", "act", "complete", "fail", "log"}
Waiting == [at |-> "idle", me |-> None]
Busy == [at : Steps, me : Attempts]

At(t, step) == server[t].at = step
Me(t) == server[t].me
FileOf(t) == store[Me(t).key]
Go(t, step) == server' = [server EXCEPT ![t].at = step]
Reply(t) == server' = [server EXCEPT ![t] = Waiting]
Write(t, status) == store' = [store EXCEPT ![Me(t).key] = [by |-> Me(t), status |-> status]]

-----------------------------------------------------------------------------
(* GatewayRequestStore.begin *)

Receive(t) ==
    /\ At(t, "idle") /\ served[t] < Quota
    /\ served' = [served EXCEPT ![t] = @ + 1]
    /\ \E k \in Keys, r \in Requests :
          server' = [server EXCEPT ![t] =
                       [at |-> "look",
                        me |-> [thread |-> t, n |-> served'[t], key |-> k, req |-> r]]]
    /\ UNCHANGED <<store, crashes, ran, given>>

Look(t) ==
    /\ At(t, "look")
    /\ Go(t, IF FileOf(t) = Absent THEN "create" ELSE "read")
    /\ UNCHANGED <<store, served, crashes, ran, given>>

\* mutant: the file is created whether or not it is there
Create_Overwrites(t) ==
    /\ At(t, "create")
    /\ store' = [store EXCEPT ![Me(t).key] = Blank]
    /\ Go(t, "fill")
    /\ UNCHANGED <<served, crashes, ran, given>>

\* O_CREAT | O_EXCL: one of the threads that saw no file creates it.
Create(t) ==
    /\ At(t, "create")
    /\ IF FileOf(t) = Absent
         THEN store' = [store EXCEPT ![Me(t).key] = Blank] /\ Go(t, "fill")
         ELSE UNCHANGED store /\ Go(t, "read")
    /\ UNCHANGED <<served, crashes, ran, given>>

\* mutant: the record does not say for which request it was made
Fill_Unlabelled(t) ==
    /\ At(t, "fill")
    /\ store' = [store EXCEPT ![Me(t).key] = [by |-> None, status |-> "processing"]]
    /\ Go(t, "act")
    /\ UNCHANGED <<served, crashes, ran, given>>

Fill(t) ==
    /\ At(t, "fill")
    /\ Write(t, "processing")
    /\ Go(t, "act")
    /\ UNCHANGED <<served, crashes, ran, given>>

-----------------------------------------------------------------------------
(* _mutation *)

\* The record answers the request: it is the same request, completed, and its
\* answer was no secret.
Replayable(t) ==
    /\ FileOf(t).status = "completed"
    /\ FileOf(t).by.req = Me(t).req
    /\ Me(t).req \notin OneTime

\* mutant: a record that is not finished is waited for
Read_Waits(t) ==
    /\ At(t, "read") /\ FileOf(t).status \notin {"blank", "processing"}
    /\ given' = IF Replayable(t) THEN given \cup {<<Me(t), FileOf(t).by>>} ELSE given
    /\ Reply(t)
    /\ UNCHANGED <<store, served, crashes, ran>>

\* Any other record is a conflict, and a blank file is not JSON: an error.
Read(t) ==
    /\ At(t, "read")
    /\ given' = IF Replayable(t) THEN given \cup {<<Me(t), FileOf(t).by>>} ELSE given
    /\ Reply(t)
    /\ UNCHANGED <<store, served, crashes, ran>>

\* The operation returns or raises; it may raise after its work is done.
Act(t) ==
    /\ At(t, "act")
    /\ \E outcome \in {"ok", "raised"} :
          /\ ran' = ran \cup {<<Me(t), outcome>>}
          /\ Go(t, IF outcome = "ok" THEN "complete" ELSE "fail")
    /\ UNCHANGED <<store, served, crashes, given>>

Complete(t) ==
    /\ At(t, "complete")
    /\ Write(t, "completed")
    /\ Go(t, "log")
    /\ UNCHANGED <<served, crashes, ran, given>>

\* The failure is appended to the ledger, or not, and reported as an error.
Fail(t) ==
    /\ At(t, "fail")
    /\ Write(t, "failed")
    /\ Reply(t)
    /\ UNCHANGED <<served, crashes, ran, given>>

\* mutant: an unavailable ledger is handled like an operation that raised
Log_InsideTry(t) ==
    /\ At(t, "log")
    /\ \/ given' = given \cup {<<Me(t), Me(t)>>} /\ Reply(t)
       \/ UNCHANGED given /\ Go(t, "fail")
    /\ UNCHANGED <<store, served, crashes, ran>>

\* The ledger takes the entry, or it is unavailable and the answer is an error
\* although the operation is done and recorded.
Log(t) ==
    /\ At(t, "log")
    /\ \/ given' = given \cup {<<Me(t), Me(t)>>}
       \/ UNCHANGED given
    /\ Reply(t)
    /\ UNCHANGED <<store, served, crashes, ran>>

\* A gateway dies, or is stopped: its threads are daemons and die with it.
Crash ==
    /\ crashes < MaxCrashes
    /\ crashes' = crashes + 1
    /\ \E dead \in SUBSET Threads \ {{}} :
          server' = [t \in Threads |-> IF t \in dead THEN Waiting ELSE server[t]]
    /\ UNCHANGED <<store, served, ran, given>>

Serve(t) ==
    \/ Look(t) \/ Create(t) \/ Fill(t) \/ Read(t)
    \/ Act(t) \/ Complete(t) \/ Fail(t) \/ Log(t)

Init ==
    /\ store = [k \in Keys |-> Absent]
    /\ server = [t \in Threads |-> Waiting]
    /\ served = [t \in Threads |-> 0]
    /\ crashes = 0 /\ ran = {} /\ given = {}

Next == Crash \/ \E t \in Threads : Receive(t) \/ Serve(t)

\* A thread that received a request runs; nobody has to send one.
Spec == Init /\ [][Next]_vars /\ \A t \in Threads : WF_vars(Serve(t))

-----------------------------------------------------------------------------
(* Properties *)

\* The records and the threads' requests have the shape the code gives them.
TypeOK ==
    /\ store \in [Keys -> {Absent, Blank} \cup Record]
    /\ server \in [Threads -> {Waiting} \cup Busy]
    /\ served \in [Threads -> 0..Quota]
    /\ crashes \in 0..MaxCrashes
    /\ ran \subseteq Attempts \X {"ok", "raised"}
    /\ given \subseteq Attempts \X Attempts

\* Whatever is sent again, and whoever dies when, the operation behind an
\* Idempotency-Key runs at most once.
OneRunPerKey == \A x, y \in ran : x[1].key = y[1].key => x = y

\* A one-time secret goes to the request that was promised it and never to
\* another that repeats it ("One-time secrets are never persisted").
SecretShownOnce == \A g \in given : g[1].req \in OneTime => g[1] = g[2]

\* Every request is answered, also one that finds a record nobody will finish.
RequestsEnd == \A t \in Threads : ~At(t, "idle") ~> At(t, "idle")

RunsOf(k) == {x \in ran : x[1].key = k}

\* The records implement the promise: a key is claimed when its record is
\* written, its outcome is what ran, and its result is the record's status.
Claims == [k \in Keys |-> store[k].by]
Ended(runs) == IF runs = {} THEN "none" ELSE (CHOOSE x \in runs : TRUE)[2]
Outcomes == [k \in Keys |-> Ended(RunsOf(k))]
Settlements == [k \in Keys |-> IF store[k].status \in {"completed", "failed"}
                                  THEN store[k].status ELSE "none"]

Promise == INSTANCE AtMostOnce WITH
    KeyOf <- [a \in Attempts |-> a.key],
    RequestOf <- [a \in Attempts |-> a.req],
    claim <- Claims, outcome <- Outcomes, settled <- Settlements

\* Seen from outside, the threads, files and crashes keep what AtMostOnce
\* promises of a key.
KeepsPromise == Promise!Spec

=============================================================================
