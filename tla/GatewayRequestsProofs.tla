------------------------ MODULE GatewayRequestsProofs ------------------------
(***************************************************************************)
(* Proofs about GatewayRequests, for any number of threads, keys, requests *)
(* and deaths.                                                             *)
(*                                                                         *)
(* That a key's operation runs once follows from who holds the key's file. *)
(* The thread that creates the file is alone between the creation and the  *)
(* record (Filling); from then on the record names the attempt that runs   *)
(* the operation (Owned), and whatever ran is named by a record (Traced).  *)
(***************************************************************************)
EXTENDS GatewayRequests, TLAPS

(***************************************************************************)
(* The inductive invariant                                                 *)
(***************************************************************************)

\* A thread serves its own attempt.
OwnAttempt == \A t \in Threads : ~At(t, "idle") => Me(t).thread = t

\* Between O_EXCL and the record, one thread is at work on a blank file.
Filling ==
    /\ \A t \in Threads : At(t, "fill") => FileOf(t) = Blank
    /\ \A t, u \in Threads :
          At(t, "fill") /\ At(u, "fill") /\ Me(t).key = Me(u).key => t = u

\* From the record to the answer, the record is the thread's own.
Owned ==
    \A t \in Threads :
        /\ server[t].at \in {"act", "complete", "fail", "log"} => FileOf(t).by = Me(t)
        /\ server[t].at \in {"act", "complete", "fail"} => FileOf(t).status = "processing"
        /\ At(t, "act") => \A x \in ran : x[1] # Me(t)
        /\ At(t, "complete") => <<Me(t), "ok">> \in ran
        /\ At(t, "fail") => <<Me(t), "raised">> \in ran
        /\ At(t, "log") => FileOf(t).status = "completed"

\* What ran has a record, and a finished record says how it ended.
Traced ==
    /\ \A x \in ran : store[x[1].key].by = x[1]
    /\ \A k \in Keys :
          /\ store[k].status = "completed" => <<store[k].by, "ok">> \in ran
          /\ store[k].status = "failed" => <<store[k].by, "raised">> \in ran
          /\ store[k] \in Record => store[k].by.key = k

IInv == TypeOK /\ OwnAttempt /\ Filling /\ Owned /\ Traced /\ OneRunPerKey

(***************************************************************************)
(* Type correctness                                                        *)
(***************************************************************************)

\* The file of an attempt and its fields.
LEMMA Serving ==
    ASSUME TypeOK, NEW t \in Threads, server[t].at # "idle"
    PROVE  /\ server[t] \in Busy /\ Me(t) \in Attempts
           /\ Me(t).key \in Keys /\ Me(t).req \in Requests
           /\ FileOf(t) \in {Absent, Blank} \cup Record
<1>1. server[t] \in Busy
  BY DEF TypeOK, Waiting
<1>2. Me(t) \in Attempts
  BY <1>1 DEF Busy, Me
<1> QED BY <1>1, <1>2 DEF TypeOK, Attempts, FileOf

\* Moving a thread to its next step, sending its answer and writing its record.
LEMMA Moving ==
    ASSUME TypeOK, NEW t \in Threads, server[t].at # "idle"
    PROVE  /\ \A step \in Steps : Go(t, step) => server' \in [Threads -> {Waiting} \cup Busy]
           /\ Reply(t) => server' \in [Threads -> {Waiting} \cup Busy]
           /\ \A status \in {"processing", "completed", "failed"} :
                 Write(t, status) => store' \in [Keys -> {Absent, Blank} \cup Record]
<1>1. server[t] \in Busy /\ Me(t) \in Attempts
  BY Serving
<1>2. ASSUME NEW step \in Steps, Go(t, step)
      PROVE  server' \in [Threads -> {Waiting} \cup Busy]
  <2>1. [server[t] EXCEPT !.at = step] \in Busy
    BY <1>1 DEF Busy
  <2> QED BY <1>2, <2>1 DEF TypeOK, Go
<1>3. ASSUME Reply(t) PROVE server' \in [Threads -> {Waiting} \cup Busy]
  BY <1>3 DEF TypeOK, Reply
<1>4. ASSUME NEW status \in {"processing", "completed", "failed"}, Write(t, status)
      PROVE  store' \in [Keys -> {Absent, Blank} \cup Record]
  <2>1. [by |-> Me(t), status |-> status] \in Record
    BY <1>1 DEF Record
  <2> QED BY <1>4, <2>1 DEF TypeOK, Write
<1> QED BY <1>2, <1>3, <1>4

\* The gateway starts with no record and no request in flight.
LEMMA TypeInit == Init => TypeOK
BY GatewayAssumption DEF Init, TypeOK

\* Every step of a thread, and a crash, keeps the types.
LEMMA TypeStep == TypeOK /\ [Next]_vars => TypeOK'
<1> SUFFICES ASSUME TypeOK, [Next]_vars PROVE TypeOK'
  OBVIOUS
<1> USE DEF At
<1>1. ASSUME NEW t \in Threads, Receive(t) PROVE TypeOK'
  <2>1. PICK k \in Keys, r \in Requests :
          server' = [server EXCEPT ![t] =
                       [at |-> "look",
                        me |-> [thread |-> t, n |-> served'[t], key |-> k, req |-> r]]]
    BY <1>1 DEF Receive
  <2>2. served' \in [Threads -> 0..Quota] /\ served'[t] \in 1..Quota
    BY <1>1, GatewayAssumption DEF Receive, TypeOK
  <2>3. [at |-> "look", me |-> [thread |-> t, n |-> served'[t], key |-> k, req |-> r]] \in Busy
    BY <2>2 DEF Busy, Attempts, Steps
  <2>4. server' \in [Threads -> {Waiting} \cup Busy]
    BY <2>1, <2>3 DEF TypeOK
  <2> QED BY <1>1, <2>2, <2>4 DEF Receive, TypeOK
<1>2. ASSUME NEW t \in Threads, Look(t) PROVE TypeOK'
  <2>1. server' \in [Threads -> {Waiting} \cup Busy]
    BY <1>2, Moving DEF Look, Steps
  <2> QED BY <1>2, <2>1 DEF Look, TypeOK
<1>3. ASSUME NEW t \in Threads, Create(t) PROVE TypeOK'
  <2>1. server' \in [Threads -> {Waiting} \cup Busy]
    BY <1>3, Moving DEF Create, Steps
  <2>2. store' \in [Keys -> {Absent, Blank} \cup Record]
    BY <1>3 DEF Create, TypeOK
  <2> QED BY <1>3, <2>1, <2>2 DEF Create, TypeOK
<1>4. ASSUME NEW t \in Threads, Fill(t) PROVE TypeOK'
  <2>1. /\ server' \in [Threads -> {Waiting} \cup Busy]
        /\ store' \in [Keys -> {Absent, Blank} \cup Record]
    BY <1>4, Moving DEF Fill, Steps
  <2> QED BY <1>4, <2>1 DEF Fill, TypeOK
<1>5. ASSUME NEW t \in Threads, Read(t) PROVE TypeOK'
  <2>1. server' \in [Threads -> {Waiting} \cup Busy]
    BY <1>5, Moving DEF Read
  <2>2. given' \subseteq Attempts \X Attempts
    <3>1. CASE Replayable(t)
      <4>1. Me(t) \in Attempts /\ FileOf(t) \in Record
        BY <1>5, <3>1, Serving DEF Read, Replayable, Absent, Blank
      <4> QED BY <1>5, <3>1, <4>1 DEF Read, TypeOK, Record
    <3>2. CASE ~Replayable(t)
      BY <1>5, <3>2 DEF Read, TypeOK
    <3> QED BY <3>1, <3>2
  <2> QED BY <1>5, <2>1, <2>2 DEF Read, TypeOK
<1>6. ASSUME NEW t \in Threads, Act(t) PROVE TypeOK'
  <2>1. PICK o \in {"ok", "raised"} :
          /\ ran' = ran \cup {<<Me(t), o>>}
          /\ Go(t, IF o = "ok" THEN "complete" ELSE "fail")
    BY <1>6 DEF Act
  <2>2. server' \in [Threads -> {Waiting} \cup Busy]
    BY <1>6, <2>1, Moving DEF Act, Steps
  <2>3. Me(t) \in Attempts
    BY <1>6, Serving DEF Act
  <2> QED BY <1>6, <2>1, <2>2, <2>3 DEF Act, TypeOK
<1>7. ASSUME NEW t \in Threads, Complete(t) PROVE TypeOK'
  <2>1. /\ server' \in [Threads -> {Waiting} \cup Busy]
        /\ store' \in [Keys -> {Absent, Blank} \cup Record]
    BY <1>7, Moving DEF Complete, Steps
  <2> QED BY <1>7, <2>1 DEF Complete, TypeOK
<1>8. ASSUME NEW t \in Threads, Fail(t) PROVE TypeOK'
  <2>1. /\ server' \in [Threads -> {Waiting} \cup Busy]
        /\ store' \in [Keys -> {Absent, Blank} \cup Record]
    BY <1>8, Moving DEF Fail
  <2> QED BY <1>8, <2>1 DEF Fail, TypeOK
<1>9. ASSUME NEW t \in Threads, Log(t) PROVE TypeOK'
  <2>1. server' \in [Threads -> {Waiting} \cup Busy] /\ Me(t) \in Attempts
    BY <1>9, Moving, Serving DEF Log
  <2> QED BY <1>9, <2>1 DEF Log, TypeOK
<1>10. ASSUME Crash PROVE TypeOK'
  BY <1>10, GatewayAssumption DEF Crash, TypeOK
<1>11. CASE UNCHANGED vars
  BY <1>11 DEF vars, TypeOK
<1> QED BY <1>1, <1>2, <1>3, <1>4, <1>5, <1>6, <1>7, <1>8, <1>9, <1>10, <1>11
        DEF Next, Serve

\* Type correctness of the records and the requests in flight.
THEOREM TypeCorrect == Spec => []TypeOK
BY TypeInit, TypeStep, PTL DEF Spec

\* A one-time secret is never shown to an attempt other than the one whose
\* operation issued it, however often the request is repeated.
THEOREM SecretsShownOnce == Spec => []SecretShownOnce
<1>1. Init => SecretShownOnce
  BY DEF Init, SecretShownOnce
<1>2. SecretShownOnce /\ [Next]_vars => SecretShownOnce'
  <2> SUFFICES ASSUME SecretShownOnce, [Next]_vars PROVE SecretShownOnce'
    OBVIOUS
  <2>1. ASSUME NEW t \in Threads, Read(t) PROVE SecretShownOnce'
    BY <2>1 DEF Read, Replayable, SecretShownOnce
  <2>2. ASSUME NEW t \in Threads, Log(t) PROVE SecretShownOnce'
    BY <2>2 DEF Log, SecretShownOnce
  <2>3. CASE UNCHANGED given
    BY <2>3 DEF SecretShownOnce
  <2> QED BY <2>1, <2>2, <2>3
          DEF Next, Serve, Receive, Look, Create, Fill, Act, Complete, Fail, Crash, vars
<1> QED BY <1>1, <1>2, PTL DEF Spec

(***************************************************************************)
(* One run per key                                                         *)
(***************************************************************************)

\* A step of one thread moves no other.
OthersStay(t) == \A u \in Threads \ {t} : server'[u] = server[u]

\* No file exists and nothing ran: the invariant holds trivially at first.
LEMMA InvariantInit == Init => IInv
BY TypeInit DEF Init, IInv, OwnAttempt, Filling, Owned, Traced, OneRunPerKey,
                At, Waiting, Absent, Record

\* Steps that write neither a record nor a run.
LEMMA QuietStep ==
    ASSUME IInv, TypeOK', NEW t \in Threads, UNCHANGED <<store, ran>>, OthersStay(t),
           server'[t].at \in {"idle", "look", "create", "read"},
           server'[t].at # "idle" => server'[t].me.thread = t
    PROVE  IInv'
<1>1. OwnAttempt'
  BY DEF IInv, OwnAttempt, At, Me, OthersStay
<1>2. Filling'
  BY DEF IInv, Filling, At, Me, FileOf, OthersStay
<1>3. Owned'
  BY DEF IInv, Owned, At, Me, FileOf, OthersStay
<1>4. Traced' /\ OneRunPerKey'
  BY DEF IInv, Traced, OneRunPerKey
<1> QED BY <1>1, <1>2, <1>3, <1>4 DEF IInv

\* What Go and Reply do to the thread that takes the step.
LEMMA GoServer ==
    ASSUME TypeOK, NEW t \in Threads, NEW step, Go(t, step)
    PROVE  server'[t].at = step /\ server'[t].me = Me(t) /\ OthersStay(t)
BY DEF TypeOK, Go, Me, OthersStay, Busy, Waiting

\* What Reply does to the thread that answers.
LEMMA ReplyServer ==
    ASSUME TypeOK, NEW t \in Threads, Reply(t)
    PROVE  server'[t].at = "idle" /\ OthersStay(t)
BY DEF TypeOK, Reply, Waiting, OthersStay

\* A thread takes a request: it starts an attempt of its own.
LEMMA ReceiveStep ==
    ASSUME IInv, TypeOK', NEW t \in Threads, Receive(t)
    PROVE  IInv'
<1>1. PICK k \in Keys, r \in Requests :
        server' = [server EXCEPT ![t] =
                     [at |-> "look",
                      me |-> [thread |-> t, n |-> served'[t], key |-> k, req |-> r]]]
  BY DEF Receive
<1>2. server'[t].at = "look" /\ server'[t].me.thread = t /\ OthersStay(t)
  BY <1>1 DEF IInv, TypeOK, OthersStay
<1> QED BY <1>2, QuietStep DEF Receive

\* Looking for the record of the key changes no record.
LEMMA LookStep ==
    ASSUME IInv, TypeOK', NEW t \in Threads, Look(t)
    PROVE  IInv'
<1>1. server'[t].at \in {"create", "read"} /\ server'[t].me = Me(t) /\ OthersStay(t)
  BY GoServer DEF Look, IInv
<1>2. Me(t).thread = t
  BY DEF Look, At, IInv, OwnAttempt
<1> QED BY <1>1, <1>2, QuietStep DEF Look

\* Reading the record and writing the ledger entry only end the attempt.
LEMMA ReadOrLogStep ==
    ASSUME IInv, TypeOK', NEW t \in Threads, Read(t) \/ Log(t)
    PROVE  IInv'
<1>1. server'[t].at = "idle" /\ OthersStay(t)
  BY ReplyServer DEF Read, Log, IInv
<1> QED BY <1>1, QuietStep DEF Read, Log

\* A crash idles threads; records, runs and answers stay.
LEMMA CrashStep ==
    ASSUME IInv, TypeOK', Crash
    PROVE  IInv'
<1>1. UNCHANGED <<store, ran>> /\ \A t \in Threads : server'[t] \in {server[t], Waiting}
  BY DEF Crash
<1>2. OwnAttempt'
  BY <1>1 DEF IInv, OwnAttempt, At, Me, Waiting
<1>3. Filling'
  BY <1>1 DEF IInv, Filling, At, Me, FileOf, Waiting
<1>4. Owned'
  BY <1>1 DEF IInv, Owned, At, Me, FileOf, Waiting
<1>5. Traced' /\ OneRunPerKey'
  BY <1>1 DEF IInv, Traced, OneRunPerKey
<1> QED BY <1>2, <1>3, <1>4, <1>5 DEF IInv

\* O_EXCL: one thread, alone, becomes the filler of the blank file.
LEMMA CreateStep ==
    ASSUME IInv, TypeOK', NEW t \in Threads, Create(t)
    PROVE  IInv'
<1> DEFINE k == Me(t).key
<1>0. TypeOK /\ At(t, "create") /\ Me(t).thread = t /\ k \in Keys /\ ran' = ran
  BY Serving DEF Create, At, IInv, OwnAttempt
<1>1. CASE FileOf(t) = Absent
  <2>1. /\ store' = [store EXCEPT ![k] = Blank]
        /\ server'[t].at = "fill" /\ server'[t].me = Me(t) /\ OthersStay(t)
    BY <1>0, <1>1, GoServer DEF Create
  <2>2. store[k] = Absent /\ store'[k] = Blank
        /\ \A j \in Keys \ {k} : store'[j] = store[j]
    BY <1>0, <1>1, <2>1 DEF FileOf, TypeOK
  <2>3. \A u \in Threads \ {t} :
          server[u].at \in {"fill", "act", "complete", "fail", "log"} => Me(u).key # k
    <3> SUFFICES ASSUME NEW u \in Threads \ {t}, Me(u).key = k,
                        server[u].at \in {"fill", "act", "complete", "fail", "log"}
                 PROVE  FALSE
      OBVIOUS
    <3>1. FileOf(u).status = "absent"
      BY <2>2 DEF FileOf, Absent
    <3>2. server[u].at = "fill" => FileOf(u).status = "blank"
      BY DEF IInv, Filling, At, Blank
    <3>3. server[u].at # "fill" => FileOf(u).status \in {"processing", "completed"}
      BY DEF IInv, Owned, At
    <3> QED BY <3>1, <3>2, <3>3
  <2>4. OwnAttempt'
    BY <1>0, <2>1 DEF IInv, OwnAttempt, At, Me, OthersStay
  <2>5. Filling'
    BY <1>0, <2>1, <2>2, <2>3 DEF IInv, Filling, At, Me, FileOf, OthersStay
  <2>6. Owned'
    BY <1>0, <2>1, <2>2, <2>3 DEF IInv, Owned, At, Me, FileOf, OthersStay
  <2>7. Traced'
    <3>1. \A j \in Keys : /\ store'[j].by = store[j].by
                          /\ store'[j] = store[j] \/ store'[j] = Blank
      BY <2>2 DEF Absent, Blank
    <3>2. \A x \in ran' : store'[x[1].key].by = x[1]
      BY <1>0, <3>1 DEF IInv, Traced, TypeOK, Attempts
    <3>3. Blank.status = "blank" /\ Blank \notin Record
      BY DEF Blank, Record
    <3>4. \A j \in Keys :
            /\ store'[j].status = "completed" => <<store'[j].by, "ok">> \in ran'
            /\ store'[j].status = "failed" => <<store'[j].by, "raised">> \in ran'
            /\ store'[j] \in Record => store'[j].by.key = j
      BY <1>0, <3>1, <3>3 DEF IInv, Traced
    <3> QED BY <3>2, <3>4 DEF Traced
  <2>8. OneRunPerKey'
    BY <1>0 DEF IInv, OneRunPerKey
  <2> QED BY <2>4, <2>5, <2>6, <2>7, <2>8 DEF IInv
<1>2. CASE FileOf(t) # Absent
  <2>1. server'[t].at = "read" /\ server'[t].me = Me(t) /\ OthersStay(t)
        /\ UNCHANGED <<store, ran>>
    BY <1>0, <1>2, GoServer DEF Create
  <2> QED BY <1>0, <2>1, QuietStep
<1> QED BY <1>1, <1>2

\* The record is written: its writer becomes the owner of the key.
LEMMA FillStep ==
    ASSUME IInv, TypeOK', NEW t \in Threads, Fill(t)
    PROVE  IInv'
<1> DEFINE k == Me(t).key
           rec == [by |-> Me(t), status |-> "processing"]
<1>1. /\ TypeOK /\ At(t, "fill") /\ Me(t).thread = t /\ Me(t) \in Attempts /\ k \in Keys
      /\ ran' = ran
  BY Serving DEF Fill, At, IInv, OwnAttempt
<1>2. /\ store' = [store EXCEPT ![k] = rec]
      /\ server'[t].at = "act" /\ server'[t].me = Me(t) /\ OthersStay(t)
  BY <1>1, GoServer DEF Fill, Write
<1>3. store[k].status = "blank" /\ store'[k] = rec /\ rec.by = Me(t)
      /\ rec.status = "processing" /\ \A j \in Keys \ {k} : store'[j] = store[j]
  BY <1>1, <1>2 DEF FileOf, TypeOK, IInv, Filling, Blank
<1>4. \A u \in Threads \ {t} :
        server[u].at \in {"fill", "act", "complete", "fail", "log"} => Me(u).key # k
  <2> SUFFICES ASSUME NEW u \in Threads \ {t}, Me(u).key = k,
                      server[u].at \in {"fill", "act", "complete", "fail", "log"}
               PROVE  FALSE
    OBVIOUS
  <2>1. server[u].at # "fill"
    BY <1>1 DEF IInv, Filling, At
  <2>2. FileOf(u).status = "blank"
    BY <1>3 DEF FileOf
  <2> QED BY <2>1, <2>2 DEF IInv, Owned, At
<1>5. \A x \in ran : x[1].key # k
  <2> SUFFICES ASSUME NEW x \in ran, x[1].key = k PROVE FALSE
    OBVIOUS
  <2>1. x[1] = None /\ x[1] \in Attempts
    BY <1>1 DEF IInv, Traced, TypeOK, Filling, At, FileOf, Blank
  <2> QED BY <2>1, NoneAssumption
<1> HIDE DEF rec
<1>6. OwnAttempt'
  BY <1>1, <1>2 DEF IInv, OwnAttempt, At, Me, OthersStay
<1>7. Filling'
  BY <1>1, <1>2, <1>3, <1>4 DEF IInv, Filling, At, Me, FileOf, OthersStay
<1>8. Owned'
  BY <1>1, <1>2, <1>3, <1>4, <1>5 DEF IInv, Owned, At, Me, FileOf, OthersStay
<1>9. Traced'
  BY <1>1, <1>3, <1>5 DEF IInv, Traced, TypeOK, Attempts
<1>10. OneRunPerKey'
  BY <1>1 DEF IInv, OneRunPerKey
<1> QED BY <1>6, <1>7, <1>8, <1>9, <1>10 DEF IInv

\* The thread that runs the operation, records its end, or answers, is alone
\* with its key.
LEMMA Alone ==
    ASSUME IInv, NEW t \in Threads, server[t].at \in {"act", "complete", "fail", "log"}
    PROVE  /\ TypeOK /\ Me(t).thread = t /\ Me(t) \in Attempts /\ Me(t).key \in Keys
           /\ store[Me(t).key].by = Me(t)
           /\ \A u \in Threads \ {t} :
                 server[u].at \in {"fill", "act", "complete", "fail", "log"} =>
                     Me(u).key # Me(t).key /\ Me(u) # Me(t)
<1>1. /\ TypeOK /\ Me(t).thread = t /\ Me(t) \in Attempts /\ Me(t).key \in Keys
      /\ store[Me(t).key].by = Me(t)
  BY Serving DEF IInv, OwnAttempt, Owned, At, FileOf
<1>2. ASSUME NEW u \in Threads \ {t}, Me(u).key = Me(t).key,
             server[u].at \in {"fill", "act", "complete", "fail", "log"}
      PROVE  FALSE
  <2>1. CASE server[u].at = "fill"
    BY <1>1, <1>2, <2>1, NoneAssumption DEF IInv, Filling, At, FileOf, Blank
  <2>2. CASE server[u].at # "fill"
    <3>1. store[Me(u).key].by = Me(u)
      BY <1>2, <2>2 DEF IInv, Owned, FileOf
    <3>2. Me(u).thread = u
      BY <1>2, <2>2 DEF IInv, OwnAttempt, At
    <3> QED BY <1>1, <1>2, <3>1, <3>2
  <2> QED BY <2>1, <2>2
<1>3. ASSUME NEW u \in Threads \ {t},
             server[u].at \in {"fill", "act", "complete", "fail", "log"}
      PROVE  Me(u).key # Me(t).key /\ Me(u) # Me(t)
  BY <1>2, <1>3
<1> QED BY <1>1, <1>3

\* The owner runs the operation: nothing had run for the key before.
LEMMA ActStep ==
    ASSUME IInv, TypeOK', NEW t \in Threads, Act(t)
    PROVE  IInv'
<1>1. /\ TypeOK /\ At(t, "act") /\ Me(t).thread = t /\ Me(t) \in Attempts
      /\ store' = store /\ store[Me(t).key].by = Me(t)
      /\ store[Me(t).key].status = "processing"
  BY Alone DEF Act, At, IInv, Owned, FileOf
<1>2. \A u \in Threads \ {t} :
        server[u].at \in {"fill", "act", "complete", "fail", "log"} => Me(u) # Me(t)
  BY Alone DEF Act, At
<1>3. PICK o \in {"ok", "raised"} :
        /\ ran' = ran \cup {<<Me(t), o>>}
        /\ Go(t, IF o = "ok" THEN "complete" ELSE "fail")
  BY DEF Act
<1>4. /\ server'[t].at = IF o = "ok" THEN "complete" ELSE "fail"
      /\ server'[t].me = Me(t) /\ OthersStay(t)
  BY <1>1, <1>3, GoServer
<1>5. OwnAttempt'
  BY <1>1, <1>4 DEF IInv, OwnAttempt, At, Me, OthersStay
<1>6. Filling'
  BY <1>1, <1>3, <1>4 DEF IInv, Filling, At, Me, FileOf, OthersStay
<1>7. Owned'
  BY <1>1, <1>2, <1>3, <1>4 DEF IInv, Owned, At, Me, FileOf, OthersStay
<1>8. Traced'
  BY <1>1, <1>3 DEF IInv, Traced
<1>9. OneRunPerKey'
  <2>1. \A x \in ran : x[1].key # Me(t).key
    <3>1. /\ \A x \in ran : store[x[1].key].by = x[1]
          /\ \A x \in ran : x[1] # Me(t)
      BY <1>1 DEF IInv, Traced, Owned
    <3> QED BY <1>1, <3>1
  <2> QED BY <1>3, <2>1 DEF IInv, OneRunPerKey
<1> QED BY <1>5, <1>6, <1>7, <1>8, <1>9 DEF IInv

\* The owner writes how its run ended.
LEMMA SettleStep ==
    ASSUME IInv, TypeOK', NEW t \in Threads, Complete(t) \/ Fail(t)
    PROVE  IInv'
<1> DEFINE k == Me(t).key
           status == IF At(t, "complete") THEN "completed" ELSE "failed"
           rec == [by |-> Me(t), status |-> status]
<1>0. server[t].at \in {"complete", "fail"}
  BY DEF Complete, Fail, At
<1>1. /\ TypeOK /\ Me(t).thread = t /\ Me(t) \in Attempts /\ k \in Keys
      /\ store[k].by = Me(t) /\ ran' = ran
      /\ \A u \in Threads \ {t} :
            server[u].at \in {"fill", "act", "complete", "fail", "log"} => Me(u).key # k
  BY <1>0, Alone DEF Complete, Fail
<1>2. /\ store' = [store EXCEPT ![k] = rec]
      /\ server'[t].at = IF At(t, "complete") THEN "log" ELSE "idle"
      /\ At(t, "complete") => server'[t].me = Me(t)
      /\ OthersStay(t)
  BY <1>1, GoServer, ReplyServer DEF Complete, Fail, Write, At
<1>3. /\ store'[k] = rec /\ rec.by = Me(t) /\ rec.status = status
      /\ \A j \in Keys \ {k} : store'[j] = store[j]
  BY <1>1, <1>2 DEF TypeOK
<1>4. /\ status = "completed" => At(t, "complete") /\ <<Me(t), "ok">> \in ran
      /\ status = "failed" => <<Me(t), "raised">> \in ran
  BY <1>0 DEF IInv, Owned, At
<1>5. status \in {"completed", "failed"} /\ (At(t, "complete") => status = "completed")
  OBVIOUS
<1> HIDE DEF rec, status
<1>6. OwnAttempt'
  BY <1>1, <1>2 DEF IInv, OwnAttempt, At, Me, OthersStay
<1>7. Filling'
  BY <1>1, <1>2, <1>3 DEF IInv, Filling, At, Me, FileOf, OthersStay
<1>8. Owned'
  BY <1>1, <1>2, <1>3, <1>5 DEF IInv, Owned, At, Me, FileOf, OthersStay
<1>9. Traced'
  <2>1. \A x \in ran' : store'[x[1].key].by = x[1]
    BY <1>1, <1>3 DEF IInv, Traced, TypeOK, Attempts
  <2>2. \A j \in Keys :
          /\ store'[j].status = "completed" => <<store'[j].by, "ok">> \in ran'
          /\ store'[j].status = "failed" => <<store'[j].by, "raised">> \in ran'
          /\ store'[j] \in Record => store'[j].by.key = j
    BY <1>1, <1>3, <1>4, <1>5 DEF IInv, Traced
  <2> QED BY <2>1, <2>2 DEF Traced
<1>10. OneRunPerKey'
  BY <1>1 DEF IInv, OneRunPerKey
<1> QED BY <1>6, <1>7, <1>8, <1>9, <1>10 DEF IInv

\* Every step keeps the inductive invariant.
LEMMA InvariantStep == IInv /\ [Next]_vars => IInv'
<1> SUFFICES ASSUME IInv, [Next]_vars PROVE IInv'
  OBVIOUS
<1>1. TypeOK'
  BY TypeStep DEF IInv
<1>2. CASE Crash
  BY <1>1, <1>2, CrashStep
<1>3. ASSUME NEW t \in Threads, Receive(t) \/ Serve(t) PROVE IInv'
  BY <1>1, <1>3, ReceiveStep, LookStep, CreateStep, FillStep, ReadOrLogStep,
     ActStep, SettleStep DEF Serve
<1>4. CASE UNCHANGED vars
  BY <1>4 DEF vars, IInv, TypeOK, OwnAttempt, Filling, Owned, Traced, OneRunPerKey,
              At, Me, FileOf
<1> QED BY <1>2, <1>3, <1>4 DEF Next

\* The inductive invariant holds in every reachable state.
THEOREM Invariant == Spec => []IInv
BY InvariantInit, InvariantStep, PTL DEF Spec

\* The operation behind an Idempotency-Key runs at most once, for any number of
\* threads and gateways that race for it, retries that repeat it and crashes
\* that cut it short.
THEOREM RunsOnce == Spec => []OneRunPerKey
<1>1. IInv => OneRunPerKey
  BY DEF IInv
<1> QED BY <1>1, Invariant, PTL

(***************************************************************************)
(* The records implement the promise                                       *)
(***************************************************************************)

\* What a step does to one key's outcome: none if nothing ran, or the only run.
LEMMA OutcomeOf ==
    ASSUME IInv, NEW k \in Keys
    PROVE  /\ (\A x \in ran : x[1].key # k) => Outcomes[k] = "none"
           /\ \A x \in ran : x[1].key = k => Outcomes[k] = x[2]
<1>1. (\A x \in ran : x[1].key # k) => Outcomes[k] = "none"
  BY DEF Outcomes, RunsOf, Ended
<1>2. ASSUME NEW x \in ran, x[1].key = k PROVE Outcomes[k] = x[2]
  <2>1. x \in RunsOf(k) /\ \A y \in RunsOf(k) : y = x
    BY <1>2 DEF RunsOf, IInv, OneRunPerKey
  <2> QED BY <2>1 DEF Outcomes, Ended
<1> QED BY <1>1, <1>2

\* The initial state maps to an initial state of AtMostOnce.
LEMMA PromiseInit == Init => Promise!Init
<1> SUFFICES ASSUME Init PROVE Promise!Init
  OBVIOUS
<1>1. Claims = [k \in Keys |-> None] /\ Settlements = [k \in Keys |-> "none"]
  BY DEF Init, Claims, Settlements, Absent
<1>2. Outcomes = [k \in Keys |-> "none"]
  BY DEF Init, Outcomes, RunsOf, Ended
<1> QED BY <1>1, <1>2 DEF Init, Promise!Init

\* Steps that touch neither a record nor a run nor an answer are invisible.
LEMMA Invisible ==
    ASSUME UNCHANGED <<store, ran, given>>
    PROVE  UNCHANGED Promise!vars
BY DEF Promise!vars, Claims, Outcomes, Settlements, RunsOf

\* The file that O_EXCL created says nothing yet.
LEMMA CreateIsInvisible ==
    ASSUME IInv, NEW t \in Threads, Create(t)
    PROVE  UNCHANGED Promise!vars
<1>1. At(t, "create") /\ UNCHANGED <<ran, given>> /\ TypeOK
  BY DEF Create, IInv
<1>2. \A k \in Keys : store'[k] = store[k] \/ (store[k] = Absent /\ store'[k] = Blank)
  BY <1>1 DEF Create, FileOf, TypeOK
<1>3. UNCHANGED Claims
  BY <1>2 DEF Claims, Absent, Blank
<1>4. UNCHANGED Settlements
  BY <1>2 DEF Settlements, Absent, Blank
<1>5. UNCHANGED Outcomes
  BY <1>1 DEF Outcomes, RunsOf
<1> QED BY <1>1, <1>3, <1>4, <1>5 DEF Promise!vars

\* Writing the record is Claim.
LEMMA FillClaims ==
    ASSUME IInv, NEW t \in Threads, Fill(t)
    PROVE  Promise!Claim(Me(t).key)
<1> DEFINE k == Me(t).key
<1>1. /\ TypeOK /\ At(t, "fill") /\ Me(t) \in Attempts /\ k \in Keys
      /\ UNCHANGED <<ran, given>> /\ store[k] = Blank
      /\ store' = [store EXCEPT ![k] = [by |-> Me(t), status |-> "processing"]]
  BY Serving DEF Fill, Write, At, IInv, Filling, FileOf
<1>2. Claims[k] = None /\ Claims' = [Claims EXCEPT ![k] = Me(t)]
  BY <1>1 DEF Claims, Blank, TypeOK
<1>3. UNCHANGED Settlements
  BY <1>1 DEF Settlements, Blank, TypeOK
<1>4. UNCHANGED Outcomes
  BY <1>1 DEF Outcomes, RunsOf
<1>5. [a \in Attempts |-> a.key][Me(t)] = k
  BY <1>1
<1> QED BY <1>1, <1>2, <1>3, <1>4, <1>5 DEF Promise!Claim

\* The end of the only run.
LEMMA OnlyRun ==
    ASSUME NEW a, NEW o
    PROVE  Ended({<<a, o>>}) = o
<1>1. (CHOOSE x \in {<<a, o>>} : TRUE) = <<a, o>>
  OBVIOUS
<1> QED BY <1>1 DEF Ended

\* Running the operation is Operate.
LEMMA ActOperates ==
    ASSUME IInv, IInv', NEW t \in Threads, Act(t)
    PROVE  Promise!Operate(Me(t).key)
<1>0. PICK k \in Keys : k = Me(t).key
  BY Alone DEF Act, At
<1>1. /\ TypeOK /\ At(t, "act") /\ Me(t) \in Attempts
      /\ UNCHANGED <<store, given>> /\ store[k].by = Me(t)
  BY <1>0, Alone DEF Act, At
<1>2. PICK o \in {"ok", "raised"} : ran' = ran \cup {<<Me(t), o>>}
  BY DEF Act
<1>3. \A x \in ran : x[1].key # k
  <2>1. /\ \A x \in ran : store[x[1].key].by = x[1]
        /\ \A x \in ran : x[1] # Me(t)
    BY <1>1 DEF IInv, Traced, Owned
  <2> QED BY <1>1, <2>1
<1>4. Outcomes[k] = "none"
  BY <1>3, OutcomeOf
<1>5. Outcomes' = [Outcomes EXCEPT ![k] = o]
  <2>1. RunsOf(k)' = {<<Me(t), o>>}
    BY <1>0, <1>1, <1>2, <1>3 DEF RunsOf
  <2>2. \A j \in Keys \ {k} : RunsOf(j)' = RunsOf(j)
    BY <1>0, <1>2 DEF RunsOf
  <2>3. Ended({<<Me(t), o>>}) = o
    BY <1>2, OnlyRun
  <2>4. \A j \in Keys : Outcomes[j] = Ended(RunsOf(j)) /\ Outcomes'[j] = Ended(RunsOf(j)')
    BY DEF Outcomes
  <2>5. \A j \in Keys : Outcomes'[j] = IF j = k THEN o ELSE Outcomes[j]
    BY <1>1, <2>1, <2>2, <2>3, <2>4
  <2>6. Outcomes = [j \in Keys |-> Outcomes[j]] /\ Outcomes' = [j \in Keys |-> Outcomes'[j]]
    BY DEF Outcomes
  <2> QED BY <2>5, <2>6
<1>6. UNCHANGED <<Claims, Settlements>> /\ Claims[k] # None
  BY <1>1, NoneAssumption DEF Claims, Settlements
<1> QED BY <1>0, <1>1, <1>4, <1>5, <1>6 DEF Promise!Operate

\* Writing the end into the record is Settle.
LEMMA EndSettles ==
    ASSUME IInv, NEW t \in Threads, Complete(t) \/ Fail(t)
    PROVE  Promise!Settle(Me(t).key)
<1> DEFINE k == Me(t).key
           status == IF At(t, "complete") THEN "completed" ELSE "failed"
<1>1. /\ TypeOK /\ server[t].at \in {"complete", "fail"} /\ Me(t) \in Attempts
      /\ k \in Keys /\ UNCHANGED <<ran, given>>
      /\ store[k].by = Me(t) /\ store[k].status = "processing"
      /\ store' = [store EXCEPT ![k] = [by |-> Me(t), status |-> status]]
  BY Alone DEF Complete, Fail, Write, At, IInv, Owned, FileOf
<1>2. Outcomes[k] = IF At(t, "complete") THEN "ok" ELSE "raised"
  <2>1. <<Me(t), IF At(t, "complete") THEN "ok" ELSE "raised">> \in ran
    BY <1>1 DEF IInv, Owned, At
  <2> QED BY <1>1, <2>1, OutcomeOf
<1>3. UNCHANGED Claims
  BY <1>1 DEF Claims, TypeOK
<1>4. UNCHANGED Outcomes
  BY <1>1 DEF Outcomes, RunsOf
<1>5. Settlements[k] = "none" /\ Settlements' = [Settlements EXCEPT ![k] = status]
  BY <1>1 DEF Settlements, TypeOK
<1> QED BY <1>1, <1>2, <1>3, <1>4, <1>5 DEF Promise!Settle

\* Answering from a completed record is Answer, or repeats an answer.
LEMMA ReplyAnswers ==
    ASSUME IInv, NEW t \in Threads, Read(t) \/ Log(t)
    PROVE  Promise!Answer(Me(t).key) \/ UNCHANGED Promise!vars
<1> DEFINE k == Me(t).key
<1>1. /\ TypeOK /\ server[t].at \in {"read", "log"} /\ Me(t) \in Attempts
      /\ k \in Keys /\ UNCHANGED <<store, ran>> /\ FileOf(t) = store[k]
  BY Serving DEF Read, Log, At, IInv, FileOf
<1>2. CASE UNCHANGED given
  BY <1>1, <1>2, Invisible
<1>3. CASE ~UNCHANGED given
  <2>1. /\ store[k].status = "completed" /\ store[k].by.req = Me(t).req
        /\ given' = given \cup {<<Me(t), store[k].by>>}
    BY <1>1, <1>3 DEF Read, Log, Replayable, At, IInv, Owned
  <2>2. store[k].by \in Attempts
    BY <1>1, <2>1 DEF TypeOK, Record, Absent, Blank
  <2>3. Claims[k] = store[k].by /\ Settlements[k] = "completed"
    BY <1>1, <2>1 DEF Claims, Settlements
  <2>4. UNCHANGED <<Claims, Outcomes, Settlements>>
    BY <1>1 DEF Claims, Outcomes, Settlements, RunsOf
  <2>5. /\ [a \in Attempts |-> a.key][Me(t)] = k
        /\ [a \in Attempts |-> a.req][Me(t)] = [a \in Attempts |-> a.req][Claims[k]]
    BY <1>1, <2>1, <2>2, <2>3
  <2> QED BY <1>1, <2>1, <2>3, <2>4, <2>5 DEF Promise!Answer
<1> QED BY <1>2, <1>3

\* Every step is a step of AtMostOnce or leaves what it shows unchanged.
LEMMA PromiseStep == IInv /\ IInv' /\ [Next]_vars => [Promise!Next]_Promise!vars
<1> SUFFICES ASSUME IInv, IInv', [Next]_vars
             PROVE  UNCHANGED Promise!vars \/ Promise!Next
  OBVIOUS
<1>1. ASSUME NEW t \in Threads, server[t].at # "idle" PROVE Me(t).key \in Keys
  BY <1>1, Serving DEF IInv
<1>2. ASSUME NEW t \in Threads, Fill(t) \/ Act(t) \/ Complete(t) \/ Fail(t) \/ Read(t) \/ Log(t)
      PROVE  UNCHANGED Promise!vars \/ Promise!Next
  <2>1. Me(t).key \in Keys
    BY <1>1, <1>2 DEF Fill, Act, Complete, Fail, Read, Log, At
  <2>2. \/ UNCHANGED Promise!vars \/ Promise!Claim(Me(t).key) \/ Promise!Operate(Me(t).key)
        \/ Promise!Settle(Me(t).key) \/ Promise!Answer(Me(t).key)
    BY <1>2, FillClaims, ActOperates, EndSettles, ReplyAnswers
  <2> QED BY <2>1, <2>2 DEF Promise!Next
<1>3. ASSUME NEW t \in Threads, Create(t) PROVE UNCHANGED Promise!vars
  BY <1>3, CreateIsInvisible
<1>4. ASSUME UNCHANGED <<store, ran, given>> PROVE UNCHANGED Promise!vars
  BY <1>4, Invisible
<1> QED BY <1>2, <1>3, <1>4 DEF Next, Serve, Receive, Look, Crash, vars

\* The gateway keeps its promise for every number of threads, keys and crashes:
\* GatewayRequests implements AtMostOnce, one run, one settled result per key,
\* and no answer but that result.
THEOREM Implements == Spec => KeepsPromise
<1>1. Spec => []IInv
  BY Invariant
<1> QED BY <1>1, PromiseInit, PromiseStep, PTL DEF Spec, KeepsPromise, Promise!Spec
=============================================================================
