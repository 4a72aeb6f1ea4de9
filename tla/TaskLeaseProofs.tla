--------------------------- MODULE TaskLeaseProofs ---------------------------
(***************************************************************************)
(* What a lease is worth, for any number of clients, calls at once,        *)
(* leases, decisions and crashes: the types, that a decision is lost only  *)
(* to a call that overlaps its own, that none is credited to the wrong     *)
(* lease, and that a lease pays again only for calls that overlap.         *)
(***************************************************************************)
EXTENDS TaskLease, SequenceTheorems, TLAPS

(***************************************************************************)
(* Types                                                                   *)
(***************************************************************************)

Paying == {"check_etag", "load", "save", "mark", "consume"}
Holding == {"save", "local_save", "mark"}
Acquiring == {"acquire_get", "acquire_expire", "acquire_write"}

\* What a call knows of its copy, its goal and its lease where it is.
Sound(r) ==
    /\ r.at = "load" => r.goal \in Approvals
    /\ r.at \in Holding => r.copy # Undecided
    /\ r.at \in Paying => r.sent.id # 0
    /\ r.at \in Acquiring => r.who \in Clients

TypeInv == TypeOK /\ \A c \in Calls : Sound(call[c])

LEMMA DecideType ==
    ASSUME NEW t \in Task, NEW a \in Approvals, NEW who \in Actors,
           decisions \in Nat, decisions < MaxDecisions
    PROVE  /\ Decide(t, a, who) \in Task
           /\ Decide(t, a, who) # Undecided
<1> DEFINE x == [n |-> decisions + 1, approval |-> a, who |-> who, lease |-> 0]
<1>1. x \in Decision
  BY LeaseAssumption DEF Decision, LeaseId
<1>2. Decide(t, a, who) = Append(t, x)
  BY DEF Decide
<1> HIDE DEF x
<1>3. Append(t, x) \in Task /\ Append(t, x) # Undecided
  BY <1>1, AppendProperties DEF Task, Undecided
<1> QED
  BY <1>2, <1>3

\* A record that is read has the type of the file; the status may be changed.
LEMMA LeaseType ==
    ASSUME NEW rec \in Lease, NEW s \in LeaseStatus
    PROVE  [rec EXCEPT !.status = s] \in Lease
BY DEF Lease

LEMMA OlderType ==
    ASSUME NEW rec \in Lease
    PROVE  Older(rec) \in Lease
<1>1. (IF rec.left > 0 THEN rec.left - 1 ELSE 0) \in 0..TTL
  BY LeaseAssumption DEF Lease
<1> QED
  BY <1>1 DEF Lease, Older

LEMMA NoCallType ==
    /\ Undecided \in Task /\ Unleased \in Lease /\ NoToken \in Token
    /\ NoCall \in Call /\ NoCall.at = "idle" /\ NoCall.sent = NoToken
<1>1. Undecided \in Task
  BY DEF Undecided, Task
<1>2. Unleased \in Lease
  BY <1>1, LeaseAssumption DEF Unleased, Lease, LeaseId, LeaseStatus, Etag
<1>3. NoToken \in Token
  BY <1>1, LeaseAssumption DEF NoToken, Token, LeaseId, Etag
<1> QED
  BY <1>1, <1>2, <1>3 DEF NoCall, Call, Steps, Actors

\* The decision a call made, and the copy with its mark.
LEMMA MadeType ==
    ASSUME TypeInv, NEW c \in Calls, call[c].at \in Holding
    PROVE  /\ Len(call[c].copy) \in Nat \ {0}
           /\ call[c].copy[Len(call[c].copy)] \in Decision
           /\ Made(c) \in Decision
           /\ [call[c].copy EXCEPT ![Len(call[c].copy)] = Made(c)] \in Task
<1>1. call[c].copy \in Seq(Decision) /\ call[c].copy # << >> /\ call[c].sent.id \in LeaseId
  BY DEF TypeInv, TypeOK, Sound, Call, Task, Undecided, Token
<1> DEFINE t == call[c].copy
           n == Len(t)
<1>2. n \in Nat \ {0} /\ n \in 1..n
  BY <1>1, EmptySeq
<1>3. t[n] \in Decision
  BY <1>1, <1>2, ElementOfSeq
<1>4. Made(c) \in Decision
  BY <1>1, <1>3 DEF Made, Decision
<1>5. [t EXCEPT ![n] = Made(c)] \in Seq(Decision)
  BY <1>1, <1>2, <1>4, ExceptSeq
<1> QED
  BY <1>2, <1>3, <1>4, <1>5 DEF Task

LEMMA InitTypeInv == Init => TypeInv
BY NoCallType, LeaseAssumption
   DEF Init, TypeInv, TypeOK, Sound, NoCall, NoToken, LeaseId, Paying, Holding, Acquiring

LEMMA OvertakeType ==
    ASSUME TypeInv, NEW c \in Calls, NEW t \in Task, NEW s \in SUBSET (1..MaxDecisions),
           Overtake(c, t, s)
    PROVE  /\ rivals' \in [Calls -> SUBSET (1..MaxDecisions)]
           /\ missed' \in [Calls -> SUBSET (1..MaxDecisions)]
<1>1. \A i \in DOMAIN t : t[i].n \in 1..MaxDecisions
  <2>1. \A i \in DOMAIN t : t[i] \in Decision
    BY ElementOfSeq, LenProperties DEF Task
  <2> QED
    BY <2>1 DEF Decision
<1>2. Named(t) \in SUBSET (1..MaxDecisions)
  BY <1>1 DEF Named
<1> QED
  BY <1>2 DEF Overtake, TypeInv, TypeOK

LEMMA StepTypeInv == TypeInv /\ [Next]_vars => TypeInv'
<1> SUFFICES ASSUME TypeInv, [Next]_vars PROVE TypeInv'
  OBVIOUS
<1>a. /\ Undecided \in Task /\ Unleased \in Lease /\ NoCall \in Call /\ NoToken \in Token
      /\ NoCall.at = "idle"
  BY NoCallType
\* A call that goes on with a sound record leaves the calls sound.
<1>b. ASSUME NEW c \in Calls, NEW r \in Call, Become(c, r), Sound(r)
      PROVE  call' \in [Calls -> Call] /\ \A d \in Calls : Sound(call'[d])
  BY <1>b DEF TypeInv, TypeOK, Become
<1>c. ASSUME NEW c \in Calls, End(c)
      PROVE  call' \in [Calls -> Call] /\ \A d \in Calls : Sound(call'[d])
  <2>1. Sound(NoCall)
    BY <1>a DEF Sound, Paying, Holding, Acquiring
  <2> QED
    BY <1>a, <1>b, <1>c, <2>1 DEF End
<1>d. ASSUME NEW c \in Calls
      PROVE  /\ call[c] \in Call /\ call[c].rec \in Lease /\ call[c].copy \in Task
             /\ call[c].goal \in Approvals \cup {None} /\ call[c].sent \in Token
             /\ call[c].who \in Actors /\ Sound(call[c])
  BY DEF TypeInv, TypeOK, Call
<1>u. /\ lease \in Lease /\ task \in Task /\ issued \in LeaseId /\ token \in [Clients -> Token]
      /\ decisions \in 0..MaxDecisions /\ crashes \in 0..MaxCrashes /\ applied \subseteq Decision
      /\ rivals \in [Calls -> SUBSET (1..MaxDecisions)]
      /\ missed \in [Calls -> SUBSET (1..MaxDecisions)]
      /\ decisions \in Nat /\ issued \in Nat /\ crashes \in Nat
  BY LeaseAssumption DEF TypeInv, TypeOK, LeaseId
\* What is left to show of each action is that its variables keep their types.
<1>t. ASSUME call' \in [Calls -> Call] /\ \A d \in Calls : Sound(call'[d]),
             task' \in Task, lease' \in Lease, token' \in [Clients -> Token],
             issued' \in LeaseId, crashes' \in 0..MaxCrashes, decisions' \in 0..MaxDecisions,
             applied' \subseteq Decision, rivals' \in [Calls -> SUBSET (1..MaxDecisions)],
             missed' \in [Calls -> SUBSET (1..MaxDecisions)]
      PROVE  TypeInv'
  BY <1>t DEF TypeInv, TypeOK
\* The call is at a step that knows nothing of a copy, and has no lease to pay with.
<1>e. ASSUME NEW c \in Calls, NEW r \in Call, Become(c, r),
             r.at \in Steps \ ({"load"} \cup Holding \cup Paying),
             r.at \in Acquiring => r.who \in Clients
      PROVE  call' \in [Calls -> Call] /\ \A d \in Calls : Sound(call'[d])
  <2>1. Sound(r)
    BY <1>e DEF Sound, Paying
  <2> QED
    BY <1>b, <1>e, <2>1
<1>1. ASSUME NEW c \in Calls, AcquireEtag(c) PROVE TypeInv'
  <2>1. PICK who \in Clients :
           Become(c, [NoCall EXCEPT !.at = "acquire_get", !.who = who, !.copy = task])
    BY <1>1 DEF AcquireEtag
  <2> DEFINE r == [NoCall EXCEPT !.at = "acquire_get", !.who = who, !.copy = task]
  <2>2. r \in Call /\ r.at = "acquire_get" /\ r.who = who /\ Become(c, r)
    BY <1>a, <1>u, <2>1 DEF Call, Steps, Actors
  <2> HIDE DEF r
  <2>3. call' \in [Calls -> Call] /\ \A d \in Calls : Sound(call'[d])
    BY <1>e, <2>2 DEF Steps, Holding, Paying
  <2> QED
    BY <1>1, <1>t, <1>u, <2>3 DEF AcquireEtag, Unseen
<1>2. ASSUME NEW c \in Calls, AcquireGet(c) PROVE TypeInv'
  <2>1. CASE lease.status # "active"
    <3> DEFINE r == [call[c] EXCEPT !.at = "acquire_write"]
    <3>1. Become(c, r)
      BY <1>2, <2>1 DEF AcquireGet, Go
    <3>2. r \in Call /\ r.at = "acquire_write" /\ r.who = call[c].who
      BY <1>d DEF Call, Steps
    <3> HIDE DEF r
    <3>3. call[c].who \in Clients
      BY <1>2, <1>d DEF AcquireGet, At, Sound, Acquiring
    <3>4. call' \in [Calls -> Call] /\ \A d \in Calls : Sound(call'[d])
      BY <1>e, <3>1, <3>2, <3>3 DEF Steps, Holding, Paying
    <3> QED
      BY <1>2, <1>t, <1>u, <3>4 DEF AcquireGet, Unseen
  <2>2. CASE lease.status = "active" /\ Due(lease)
    <3> DEFINE r == [call[c] EXCEPT !.at = "acquire_expire", !.rec = lease]
    <3>1. Become(c, r)
      BY <1>2, <2>2 DEF AcquireGet
    <3>2. r \in Call /\ r.at = "acquire_expire" /\ r.who = call[c].who
      BY <1>d, <1>u DEF Call, Steps
    <3> HIDE DEF r
    <3>3. call[c].who \in Clients
      BY <1>2, <1>d DEF AcquireGet, At, Sound, Acquiring
    <3>4. call' \in [Calls -> Call] /\ \A d \in Calls : Sound(call'[d])
      BY <1>e, <3>1, <3>2, <3>3 DEF Steps, Holding, Paying
    <3> QED
      BY <1>2, <1>t, <1>u, <3>4 DEF AcquireGet, Unseen
  <2>3. CASE lease.status = "active" /\ ~Due(lease)
    <3>1. End(c)
      BY <1>2, <2>3 DEF AcquireGet
    <3> QED
      BY <1>2, <1>c, <1>t, <1>u, <3>1 DEF AcquireGet, Unseen
  <2> QED
    BY <2>1, <2>2, <2>3
<1>3. ASSUME NEW c \in Calls, AcquireExpire(c) PROVE TypeInv'
  <2> DEFINE r == [call[c] EXCEPT !.at = "acquire_write", !.rec = Unleased]
  <2>1. Become(c, r)
    BY <1>3 DEF AcquireExpire
  <2>4. r \in Call /\ r.at = "acquire_write" /\ r.who = call[c].who
    BY <1>a, <1>d DEF Call, Steps
  <2> HIDE DEF r
  <2>5. call[c].who \in Clients
    BY <1>3, <1>d DEF AcquireExpire, At, Sound, Acquiring
  <2>2. call' \in [Calls -> Call] /\ \A d \in Calls : Sound(call'[d])
    BY <1>e, <2>1, <2>4, <2>5 DEF Steps, Holding, Paying
  <2>3. lease' \in Lease
    BY <1>3, <1>d, LeaseType DEF AcquireExpire, LeaseStatus
  <2> QED
    BY <1>3, <1>t, <1>u, <2>2, <2>3 DEF AcquireExpire, Unseen
\* The lease that acquire() writes.
<1>f. ASSUME NEW c \in Calls, Issue(c)
      PROVE  /\ issued' \in LeaseId /\ issued' = issued + 1 /\ call[c].at = "acquire_write"
             /\ call' \in [Calls -> Call] /\ \A d \in Calls : Sound(call'[d])
             /\ lease' \in Lease
             /\ UNCHANGED <<task, decisions, applied, rivals, missed>>
  <2>1. issued + 1 \in LeaseId
    BY <1>f, <1>u, LeaseAssumption DEF Issue, LeaseId
  <2>2. lease' \in Lease
    <3>1. call[c].who \in Clients \cup {None}
      BY <1>f, <1>d DEF Issue, Sound, At, Acquiring
    <3> QED
      BY <1>f, <1>d, <2>1, <3>1, LeaseAssumption DEF Issue, Lease, LeaseStatus, Etag
  <2> QED
    BY <1>f, <1>c, <2>1, <2>2 DEF Issue, At, Unseen
<1>4. ASSUME NEW c \in Calls, AcquireWrite(c) PROVE TypeInv'
  <2>1. Issue(c) /\ UNCHANGED crashes
        /\ token' = [token EXCEPT ![call[c].who] = [id |-> issued + 1, base |-> call[c].copy]]
    BY <1>4 DEF AcquireWrite
  <2>2. [id |-> issued + 1, base |-> call[c].copy] \in Token
    BY <1>d, <1>f, <2>1 DEF Token, Etag
  <2>3. token' \in [Clients -> Token]
    BY <1>u, <2>1, <2>2
  <2> QED
    BY <1>f, <1>t, <1>u, <2>1, <2>3
<1>5. ASSUME NEW c \in Calls, Get(c) PROVE TypeInv'
  <2> DEFINE r == [NoCall EXCEPT !.at = "get_expire", !.rec = lease]
  <2>1. r \in Call /\ r.at = "get_expire" /\ Become(c, r)
    BY <1>5, <1>a, <1>u DEF Get, Call, Steps
  <2> HIDE DEF r
  <2>2. call' \in [Calls -> Call] /\ \A d \in Calls : Sound(call'[d])
    BY <1>e, <2>1 DEF Steps, Holding, Paying, Acquiring
  <2> QED
    BY <1>5, <1>t, <1>u, <2>2 DEF Get, Unseen
<1>6. ASSUME NEW c \in Calls, GetExpire(c) PROVE TypeInv'
  <2>1. lease' \in Lease
    BY <1>6, <1>d, LeaseType DEF GetExpire, LeaseStatus
  <2> QED
    BY <1>6, <1>c, <1>t, <1>u, <2>1 DEF GetExpire, Unseen
<1>7. ASSUME NEW c \in Calls, Validate(c) PROVE TypeInv'
  <2>1. PICK who \in Clients, goal \in Approvals \cup {None} :
          \/ /\ Usable(token[who], lease)
             /\ Become(c, [NoCall EXCEPT !.at = "check_etag", !.who = who,
                             !.sent = token[who], !.rec = lease, !.goal = goal])
          \/ \E rec \in {lease, [lease EXCEPT !.status = "expired"]} :
               Become(c, [NoCall EXCEPT !.at = "reject", !.rec = rec])
    BY <1>7 DEF Validate
  <2>2. CASE /\ Usable(token[who], lease)
             /\ Become(c, [NoCall EXCEPT !.at = "check_etag", !.who = who,
                             !.sent = token[who], !.rec = lease, !.goal = goal])
    <3> DEFINE r == [NoCall EXCEPT !.at = "check_etag", !.who = who,
                       !.sent = token[who], !.rec = lease, !.goal = goal]
    <3>1. Become(c, r)
      BY <2>2
    <3>2. r \in Call /\ r.at = "check_etag" /\ r.sent = token[who]
      BY <1>a, <1>u DEF Call, Steps, Actors
    <3> HIDE DEF r
    <3>3. Sound(r)
      BY <2>2, <3>2 DEF Sound, Usable, Holds, Holding, Acquiring
    <3> QED
      BY <1>7, <1>b, <1>t, <1>u, <3>1, <3>2, <3>3 DEF Validate, Unseen
  <2>3. ASSUME NEW rec \in {lease, [lease EXCEPT !.status = "expired"]},
               Become(c, [NoCall EXCEPT !.at = "reject", !.rec = rec])
        PROVE  TypeInv'
    <3> DEFINE r == [NoCall EXCEPT !.at = "reject", !.rec = rec]
    <3>1. rec \in Lease
      BY <1>u, LeaseType DEF LeaseStatus
    <3>2. r \in Call /\ r.at = "reject" /\ Become(c, r)
      BY <1>a, <2>3, <3>1 DEF Call, Steps
    <3> HIDE DEF r
    <3>3. call' \in [Calls -> Call] /\ \A d \in Calls : Sound(call'[d])
      BY <1>e, <3>2 DEF Steps, Holding, Paying, Acquiring
    <3> QED
      BY <1>7, <1>t, <1>u, <3>3 DEF Validate, Unseen
  <2> QED
    BY <2>1, <2>2, <2>3
<1>8. ASSUME NEW c \in Calls, Reject(c) PROVE TypeInv'
  BY <1>8, <1>c, <1>d, <1>t, <1>u DEF Reject, Unseen
<1>9. ASSUME NEW c \in Calls, CheckEtag(c) PROVE TypeInv'
  <2>1. CASE End(c)
    BY <1>9, <1>c, <1>t, <1>u, <2>1 DEF CheckEtag, Unseen
  <2>2. CASE Become(c, [NoCall EXCEPT !.at = "renew"])
    <3> DEFINE r == [NoCall EXCEPT !.at = "renew"]
    <3>1. r \in Call /\ r.at = "renew" /\ Become(c, r)
      BY <1>a, <2>2 DEF Call, Steps
    <3> HIDE DEF r
    <3>2. call' \in [Calls -> Call] /\ \A d \in Calls : Sound(call'[d])
      BY <1>e, <3>1 DEF Steps, Holding, Paying, Acquiring
    <3> QED
      BY <1>9, <1>t, <1>u, <3>2 DEF CheckEtag, Unseen
  <2>3. CASE /\ call[c].goal # None
             /\ Become(c, [call[c] EXCEPT !.at = "load", !.rec = Unleased])
    <3> DEFINE r == [call[c] EXCEPT !.at = "load", !.rec = Unleased]
    <3>1. r \in Call /\ r.at = "load" /\ r.goal \in Approvals /\ r.sent = call[c].sent
      BY <1>a, <1>d, <2>3 DEF Call, Steps
    <3>2. Become(c, r)
      BY <2>3
    <3> HIDE DEF r
    <3>3. Sound(r)
      BY <1>9, <1>d, <3>1 DEF Sound, CheckEtag, At, Paying, Holding, Acquiring
    <3> QED
      BY <1>9, <1>b, <1>t, <1>u, <3>1, <3>2, <3>3 DEF CheckEtag, Unseen
  <2> QED
    BY <1>9, <2>1, <2>2, <2>3 DEF CheckEtag
<1>10. ASSUME NEW c \in Calls, RenewRead(c) PROVE TypeInv'
  <2> DEFINE r == [call[c] EXCEPT !.at = "renew_write", !.rec = lease]
  <2>1. r \in Call /\ r.at = "renew_write" /\ Become(c, r)
    BY <1>10, <1>d, <1>u DEF RenewRead, Call, Steps
  <2> HIDE DEF r
  <2>2. call' \in [Calls -> Call] /\ \A d \in Calls : Sound(call'[d])
    BY <1>e, <2>1 DEF Steps, Holding, Paying, Acquiring
  <2> QED
    BY <1>10, <1>t, <1>u, <2>2 DEF RenewRead, Unseen
<1>11. ASSUME NEW c \in Calls, RenewWrite(c) PROVE TypeInv'
  <2>1. [call[c].rec EXCEPT !.left = TTL] \in Lease
    BY <1>d, LeaseAssumption DEF Lease
  <2> QED
    BY <1>11, <1>c, <1>t, <1>u, <2>1 DEF RenewWrite, Unseen
<1>12. ASSUME NEW c \in Calls, Load(c) PROVE TypeInv'
  <2>1. call[c].goal \in Approvals /\ call[c].sent.id # 0
    BY <1>12, <1>d DEF Load, At, Sound, Paying
  <2> DEFINE t == Decide(task, call[c].goal, call[c].who)
             r == [call[c] EXCEPT !.at = "save", !.copy = t]
  <2>2. t \in Task /\ t # Undecided
    BY <1>12, <1>d, <1>u, <2>1, DecideType DEF Load
  <2>3. Become(c, r)
    BY <1>12 DEF Load
  <2> HIDE DEF t
  <2>4. r \in Call /\ r.at = "save" /\ r.copy # Undecided /\ r.sent.id # 0
    BY <1>d, <2>1, <2>2 DEF Call, Steps
  <2> HIDE DEF r
  <2>5. Sound(r)
    BY <2>4 DEF Sound, Acquiring
  <2>6. decisions' \in 0..MaxDecisions
    BY <1>12, <1>u, LeaseAssumption DEF Load
  <2> QED
    BY <1>12, <1>b, <1>t, <1>u, <2>3, <2>4, <2>5, <2>6 DEF Load, Unseen
<1>13. ASSUME NEW c \in Calls, Save(c) PROVE TypeInv'
  <2>1. /\ Made(c) \in Decision /\ Made(c).n \in 1..MaxDecisions
        /\ call[c].copy # Undecided /\ call[c].sent.id # 0
    BY <1>13, <1>d, MadeType DEF Save, At, Sound, Holding, Paying, Decision
  <2> DEFINE r == [call[c] EXCEPT !.at = "mark"]
  <2>2. r \in Call /\ r.at = "mark" /\ r.copy # Undecided /\ r.sent.id # 0
    BY <1>d, <2>1 DEF Call, Steps
  <2>3. Become(c, r)
    BY <1>13 DEF Save, Go
  <2> HIDE DEF r
  <2>4. Sound(r)
    BY <2>2 DEF Sound, Acquiring
  <2>5. /\ rivals' \in [Calls -> SUBSET (1..MaxDecisions)]
        /\ missed' \in [Calls -> SUBSET (1..MaxDecisions)]
    BY <1>13, <1>d, <2>1, OvertakeType DEF Save
  <2> QED
    BY <1>13, <1>b, <1>d, <1>t, <1>u, <2>1, <2>2, <2>3, <2>4, <2>5 DEF Save
<1>14. ASSUME NEW c \in Calls, Mark(c) PROVE TypeInv'
  <2> DEFINE marked == [call[c].copy EXCEPT ![Len(call[c].copy)] = Made(c)]
  <2>1. marked \in Task
    BY <1>14, MadeType DEF Mark, At, Holding
  <2>2. /\ task' = marked /\ Overtake(c, marked, {})
        /\ Become(c, [NoCall EXCEPT !.at = "consume", !.sent = call[c].sent])
        /\ UNCHANGED <<lease, token, issued, crashes, decisions, applied>>
    BY <1>14 DEF Mark
  <2> HIDE DEF marked
  <2> DEFINE r == [NoCall EXCEPT !.at = "consume", !.sent = call[c].sent]
  <2>3. r \in Call /\ r.at = "consume" /\ r.sent.id # 0
    BY <1>14, <1>a, <1>d DEF Call, Steps, Mark, At, Sound, Paying
  <2>4. Become(c, r)
    BY <2>2
  <2> HIDE DEF r
  <2>5. Sound(r)
    BY <2>3 DEF Sound, Acquiring, Holding
  <2>6. /\ rivals' \in [Calls -> SUBSET (1..MaxDecisions)]
        /\ missed' \in [Calls -> SUBSET (1..MaxDecisions)]
    BY <2>1, <2>2, OvertakeType
  <2> QED
    BY <1>b, <1>t, <1>u, <2>1, <2>2, <2>3, <2>4, <2>5, <2>6
<1>15. ASSUME NEW c \in Calls, Consume(c) PROVE TypeInv'
  <2>1. CASE Become(c, [NoCall EXCEPT !.at = "consume_write", !.rec = lease])
    <3> DEFINE r == [NoCall EXCEPT !.at = "consume_write", !.rec = lease]
    <3>1. r \in Call /\ r.at = "consume_write" /\ Become(c, r)
      BY <1>a, <1>u, <2>1 DEF Call, Steps
    <3> HIDE DEF r
    <3>2. call' \in [Calls -> Call] /\ \A d \in Calls : Sound(call'[d])
      BY <1>e, <3>1 DEF Steps, Holding, Paying, Acquiring
    <3> QED
      BY <1>15, <1>t, <1>u, <3>2 DEF Consume, Unseen
  <2>2. CASE End(c)
    BY <1>15, <1>c, <1>t, <1>u, <2>2 DEF Consume, Unseen
  <2> QED
    BY <1>15, <2>1, <2>2 DEF Consume
<1>16. ASSUME NEW c \in Calls, ConsumeWrite(c) \/ ReleaseWrite(c) PROVE TypeInv'
  <2>1. lease' \in Lease
    BY <1>16, <1>d, LeaseType DEF ConsumeWrite, ReleaseWrite, LeaseStatus
  <2> QED
    BY <1>16, <1>c, <1>t, <1>u, <2>1 DEF ConsumeWrite, ReleaseWrite, Unseen
<1>17. ASSUME NEW c \in Calls, Release(c) PROVE TypeInv'
  <2> DEFINE r == [NoCall EXCEPT !.at = "release_write", !.rec = lease]
  <2>1. r \in Call /\ r.at = "release_write" /\ Become(c, r)
    BY <1>17, <1>a, <1>u DEF Release, Call, Steps
  <2> HIDE DEF r
  <2>2. call' \in [Calls -> Call] /\ \A d \in Calls : Sound(call'[d])
    BY <1>e, <2>1 DEF Steps, Holding, Paying, Acquiring
  <2> QED
    BY <1>17, <1>t, <1>u, <2>2 DEF Release, Unseen
<1>18. CASE Tick
  <2>1. \A c \in Calls : call'[c] = [call[c] EXCEPT !.rec = Older(call[c].rec)]
    BY <1>18 DEF Tick
  <2>2. ASSUME NEW c \in Calls
        PROVE  call'[c] \in Call /\ Sound(call'[c])
    <3>1. call[c] \in Call /\ Older(call[c].rec) \in Lease /\ Sound(call[c])
      BY <1>d, OlderType
    <3>2. /\ call'[c] \in Call
          /\ call'[c].at = call[c].at /\ call'[c].who = call[c].who
          /\ call'[c].sent = call[c].sent /\ call'[c].copy = call[c].copy
          /\ call'[c].goal = call[c].goal
      BY <2>1, <3>1 DEF Call
    <3> QED
      BY <3>1, <3>2 DEF Sound
  <2>3. call' \in [Calls -> Call]
    BY <1>18, <2>2 DEF Tick
  <2>4. lease' \in Lease
    BY <1>18, <1>u, OlderType DEF Tick
  <2> QED
    BY <1>18, <1>t, <1>u, <2>2, <2>3, <2>4 DEF Tick, Unseen
<1>19. ASSUME NEW c \in Calls, Crash(c) PROVE TypeInv'
  <2>1. crashes' \in 0..MaxCrashes
    BY <1>19, <1>u, LeaseAssumption DEF Crash
  <2>2. /\ rivals' \in [Calls -> SUBSET (1..MaxDecisions)]
        /\ missed' \in [Calls -> SUBSET (1..MaxDecisions)]
    BY <1>19, <1>u DEF Crash
  <2> QED
    BY <1>19, <1>c, <1>t, <1>u, <2>1, <2>2 DEF Crash
<1>20. ASSUME NEW c \in Calls, CrashAfterWrite(c) PROVE TypeInv'
  <2>1. crashes' \in 0..MaxCrashes
    BY <1>20, <1>u, LeaseAssumption DEF CrashAfterWrite
  <2> QED
    BY <1>20, <1>f, <1>t, <1>u, <2>1 DEF CrashAfterWrite
<1>21. ASSUME NEW c \in Calls, LocalLoad(c) PROVE TypeInv'
  <2>1. PICK a \in Approvals :
          Become(c, [NoCall EXCEPT !.at = "local_save", !.copy = Decide(task, a, Local)])
    BY <1>21 DEF LocalLoad
  <2> DEFINE t == Decide(task, a, Local)
             r == [NoCall EXCEPT !.at = "local_save", !.copy = t]
  <2>2. t \in Task /\ t # Undecided
    BY <1>21, <1>u, DecideType DEF LocalLoad, Actors
  <2>3. Become(c, r)
    BY <2>1
  <2> HIDE DEF t
  <2>4. r \in Call /\ r.at = "local_save" /\ r.copy # Undecided
    BY <1>a, <2>2 DEF Call, Steps
  <2> HIDE DEF r
  <2>5. Sound(r)
    BY <2>4 DEF Sound, Acquiring, Paying
  <2>6. decisions' \in 0..MaxDecisions
    BY <1>21, <1>u, LeaseAssumption DEF LocalLoad
  <2> QED
    BY <1>21, <1>b, <1>t, <1>u, <2>3, <2>4, <2>5, <2>6 DEF LocalLoad, Unseen
<1>22. ASSUME NEW c \in Calls, LocalSave(c) PROVE TypeInv'
  <2>1. Made(c) \in Decision /\ Made(c).n \in 1..MaxDecisions
    BY <1>22, MadeType DEF LocalSave, At, Holding, Decision
  <2>2. /\ rivals' \in [Calls -> SUBSET (1..MaxDecisions)]
        /\ missed' \in [Calls -> SUBSET (1..MaxDecisions)]
    BY <1>22, <1>d, <2>1, OvertakeType DEF LocalSave
  <2> QED
    BY <1>22, <1>c, <1>d, <1>t, <1>u, <2>1, <2>2 DEF LocalSave
<1>23. CASE UNCHANGED vars
  BY <1>23, <1>d, <1>t, <1>u DEF vars, TypeInv, TypeOK
<1> QED
  BY <1>1, <1>2, <1>3, <1>4, <1>5, <1>6, <1>7, <1>8, <1>9, <1>10, <1>11, <1>12, <1>13,
     <1>14, <1>15, <1>16, <1>17, <1>18, <1>19, <1>20, <1>21, <1>22, <1>23 DEF Next, Proceed

\* The task, the lease, the tokens and every call keep their types, and a lease
\* never has more than its ttl left (concurrency.py).
THEOREM TypeCorrect == Spec => []TypeOK
<1>1. TypeInv => TypeOK
  BY DEF TypeInv
<1> QED
  BY InitTypeInv, StepTypeInv, <1>1, PTL DEF Spec


(***************************************************************************)
(* The inductive invariant                                                 *)
(***************************************************************************)

Entries(t) == {t[i] : i \in DOMAIN t}
Latest(t) == t[Len(t)]
Bare(d) == [d EXCEPT !.lease = 0]

\* The entries are decisions of a, marked or not.
Known(a, es) == \A e \in es : \E d \in a : e = d \/ e = Bare(d)

\* No entry numbered n bears a lease.
Unmarked(es, n) == \A e \in es : e.n = n => e.lease = 0

Writing == {"save", "local_save"}

\* The tasks somebody holds an etag of, and the one in the file.
Etags == {task} \cup {token[w].base : w \in Clients} \cup {call[c].sent.base : c \in Calls}
           \cup {call[c].copy : c \in {d \in Calls : call[d].at \in Acquiring}}

\* An etag is of decisions that were saved, and not of a mark still to be saved.
EtagOK(b) ==
    /\ Known(applied, Entries(b))
    /\ \A c \in Calls : call[c].at = "mark" => Unmarked(Entries(b), Latest(call[c].copy).n)
EtagInv == \A b \in Etags : EtagOK(b)

\* A copy that is about to be saved ends with the decision of its own call.
CopyOK(c) ==
    LET es == Entries(call[c].copy)
        x == Latest(call[c].copy)
    IN /\ call[c].at \in Writing =>
            /\ x.lease = 0 /\ x.n <= decisions /\ Known(applied, es \ {x})
            /\ \A d \in applied : d.n # x.n
       /\ call[c].at = "mark" => Known(applied, es) /\ Made(c) \in applied
CopiesApart(c, d) ==
    /\ call[c].at \in Holding /\ call[d].at \in Holding =>
          Latest(call[c].copy).n # Latest(call[d].copy).n
    /\ call[c].at \in Holding /\ call[d].at = "mark" =>
          Unmarked(Entries(call[c].copy), Latest(call[d].copy).n)
CopyInv ==
    /\ \A c \in Calls : CopyOK(c)
    /\ \A c, d \in Calls : c # d => CopiesApart(c, d)

AppliedInv ==
    /\ \A d \in applied : d.n <= decisions /\ d.lease <= issued
    /\ \A d, e \in applied : d.n = e.n => d = e

\* A lease that has paid, among those issued and by the decisions a, no longer
\* fits the task t.
Spent(k, n, a, t) == k.id <= n /\ (k.id # 0 => \A d \in a : d.lease = k.id => t # k.base)
PaidInv ==
    /\ \A w \in Clients : Spent(token[w], issued, applied, task)
    /\ \A c \in Calls : Spent(call[c].sent, issued, applied, task)

\* What was paid for with the lease of a call came after its etag check.
RivalInv ==
    \A c \in Calls : call[c].at \in {"load", "save"} =>
        \A d \in applied : d.lease = call[c].sent.id => d.n \in rivals[c]

\* What a copy lacks came into the file after it was loaded.
Within(d, es) == d \in es \/ Bare(d) \in es
MissedInv ==
    \A c \in Calls : call[c].at \in Holding =>
        \A d \in applied : Within(d, Entries(task)) =>
            Within(d, Entries(call[c].copy)) \/ d.n \in missed[c]

Inv == EtagInv /\ CopyInv /\ AppliedInv /\ PaidInv /\ RivalInv /\ MissedInv

(***************************************************************************)
(* Entries, marked and unmarked                                            *)
(***************************************************************************)

LEMMA BareFacts ==
    ASSUME NEW d \in Decision
    PROVE  Bare(d) \in Decision /\ Bare(d).n = d.n /\ Bare(d).lease = 0
BY LeaseAssumption DEF Bare, Decision, LeaseId

\* A known entry has the number of a saved decision.
LEMMA KnownNumber ==
    ASSUME NEW a \in SUBSET Decision, NEW es, Known(a, es), NEW e \in es
    PROVE  \E d \in a : d.n = e.n /\ (e = d \/ e = Bare(d))
<1>1. PICK d \in a : e = d \/ e = Bare(d)
  BY DEF Known
<1>2. Bare(d).n = d.n
  BY BareFacts
<1> QED
  BY <1>1, <1>2

LEMMA KnownMore ==
    ASSUME NEW a, NEW b, a \subseteq b, NEW es, Known(a, es), NEW fs, fs \subseteq es
    PROVE  Known(b, fs)
BY DEF Known

LEMMA EntriesOfTask ==
    ASSUME NEW t \in Task
    PROVE  /\ Entries(t) \subseteq Decision
           /\ Entries(t) = {t[i] : i \in 1..Len(t)}
           /\ t # Undecided => Latest(t) \in Entries(t)
<1>1. t \in Seq(Decision) /\ DOMAIN t = 1..Len(t) /\ Len(t) \in Nat
  BY LenProperties DEF Task
<1>2. \A i \in 1..Len(t) : t[i] \in Decision
  BY <1>1, ElementOfSeq
<1>3. t # Undecided => Len(t) \in 1..Len(t)
  BY <1>1, EmptySeq DEF Undecided
<1> QED
  BY <1>1, <1>2, <1>3 DEF Entries, Latest

LEMMA EntriesOfUndecided == Entries(Undecided) = {}
<1>1. Undecided \in Task /\ Len(Undecided) = 0
  BY NoCallType, EmptySeq DEF Undecided
<1>2. Entries(Undecided) = {Undecided[i] : i \in 1..0}
  BY <1>1, EntriesOfTask
<1> QED
  BY <1>2

LEMMA EntriesOfAppend ==
    ASSUME NEW t \in Task, NEW x \in Decision
    PROVE  /\ Append(t, x) \in Task
           /\ Entries(Append(t, x)) = Entries(t) \cup {x}
           /\ Latest(Append(t, x)) = x
<1> DEFINE u == Append(t, x)
<1>1. t \in Seq(Decision) /\ Len(t) \in Nat
  BY LenProperties DEF Task
<1>2. /\ u \in Seq(Decision) /\ Len(u) = Len(t) + 1
      /\ \A i \in 1..Len(t) : u[i] = t[i]
      /\ u[Len(t) + 1] = x
  BY <1>1, AppendProperties
<1>3. Entries(t) = {t[i] : i \in 1..Len(t)} /\ Entries(u) = {u[i] : i \in 1..Len(u)}
  BY <1>2, EntriesOfTask DEF Task
<1> HIDE DEF u
<1>4. 1..Len(u) = 1..Len(t) \cup {Len(t) + 1}
  BY <1>1, <1>2
<1>5. Entries(u) = Entries(t) \cup {x}
  BY <1>2, <1>3, <1>4
<1>6. Latest(u) = x
  BY <1>2 DEF Latest
<1> QED
  BY <1>2, <1>5, <1>6 DEF Task, u

LEMMA EntriesOfMark ==
    ASSUME NEW t \in Task, t # Undecided, NEW y \in Decision
    PROVE  /\ Entries([t EXCEPT ![Len(t)] = y]) \subseteq Entries(t) \cup {y}
           /\ y \in Entries([t EXCEPT ![Len(t)] = y])
           /\ Entries(t) \ {Latest(t)} \subseteq Entries([t EXCEPT ![Len(t)] = y])
<1> DEFINE u == [t EXCEPT ![Len(t)] = y]
<1>1. t \in Seq(Decision) /\ Len(t) \in 1..Len(t) /\ DOMAIN t = 1..Len(t)
  BY LenProperties, EmptySeq DEF Task, Undecided
<1>2. /\ DOMAIN u = 1..Len(t) /\ u[Len(t)] = y
      /\ \A i \in 1..Len(t) : i # Len(t) => u[i] = t[i]
  BY <1>1
<1>3. Entries(u) = {u[i] : i \in 1..Len(t)} /\ Entries(t) = {t[i] : i \in 1..Len(t)}
  BY <1>1, <1>2 DEF Entries
<1> HIDE DEF u
<1>4. Entries(u) \subseteq Entries(t) \cup {y} /\ y \in Entries(u)
  BY <1>1, <1>2, <1>3
<1>5. ASSUME NEW e \in Entries(t) \ {Latest(t)} PROVE e \in Entries(u)
  <2>1. PICK i \in 1..Len(t) : e = t[i]
    BY <1>3, <1>5
  <2>2. i # Len(t)
    BY <1>5, <2>1 DEF Latest
  <2> QED
    BY <1>2, <1>3, <2>1, <2>2
<1> QED
  BY <1>4, <1>5 DEF u

\* What a call that holds a copy is about to save.
LEMMA HoldingFacts ==
    ASSUME TypeInv, NEW c \in Calls, call[c].at \in Holding
    PROVE  /\ call[c].copy \in Task /\ call[c].copy # Undecided
           /\ Entries(call[c].copy) \subseteq Decision
           /\ Latest(call[c].copy) \in Entries(call[c].copy)
           /\ Made(c) \in Decision /\ Made(c).n = Latest(call[c].copy).n
           /\ Made(c).lease = call[c].sent.id
           /\ Bare(Made(c)) = Bare(Latest(call[c].copy))
           /\ Latest(call[c].copy).lease = 0 => Bare(Made(c)) = Latest(call[c].copy)
           /\ call[c].sent \in Token
<1>1. call[c].copy \in Task /\ call[c].copy # Undecided /\ call[c].sent \in Token
  BY DEF TypeInv, TypeOK, Sound, Call
<1>2. Made(c) \in Decision
  BY MadeType
<1>3. /\ Entries(call[c].copy) \subseteq Decision
      /\ Latest(call[c].copy) \in Entries(call[c].copy)
  BY <1>1, EntriesOfTask
<1> DEFINE x == Latest(call[c].copy)
<1>4. x \in Decision /\ Made(c) = [x EXCEPT !.lease = call[c].sent.id]
  BY <1>3 DEF Made, Latest
<1> HIDE DEF x
<1>5. /\ Made(c).n = x.n /\ Made(c).lease = call[c].sent.id
      /\ Bare(Made(c)) = Bare(x) /\ (x.lease = 0 => Bare(Made(c)) = x)
  BY <1>4 DEF Decision, Bare
<1> QED
  BY <1>1, <1>2, <1>3, <1>5 DEF x


(***************************************************************************)
(* Four kinds of step: one that leaves the decisions alone, the load that  *)
(* makes one, the save, and the save of the mark                           *)
(***************************************************************************)

\* Where the call is, with what: not what it has read of the lease.
Same(c) ==
    /\ call'[c].at = call[c].at /\ call'[c].sent = call[c].sent
    /\ call'[c].copy = call[c].copy
    /\ rivals'[c] = rivals[c] /\ missed'[c] = missed[c]

\* The call goes on, and comes to hold no decision.
Moves(c) ==
    /\ call'[c].at \notin Holding
    /\ call'[c].sent \in {NoToken, call[c].sent} \cup {token[w] : w \in Clients}
    /\ call'[c].at \in Acquiring => call'[c].copy \in Etags
    /\ call'[c].at = "load" =>
          /\ call'[c].sent = call[c].sent /\ call[c].sent.id # 0
          /\ task = call[c].sent.base

\* A token is kept, or replaced by that of a lease that is new.
Fresh(w) ==
    \/ token'[w] = token[w]
    \/ token'[w].id = issued + 1 /\ issued' = issued + 1 /\ token'[w].base \in Etags

Harmless ==
    /\ task' = task /\ applied' = applied /\ decisions' = decisions
    /\ issued' \in {issued, issued + 1}
    /\ \A w \in Clients : Fresh(w)
    /\ \A c \in Calls : Same(c) \/ Moves(c)

\* c makes a decision on the task it loads.
Loads(c) ==
    /\ call'[c].at \in Writing
    /\ call'[c].sent \in {NoToken, call[c].sent}
    /\ call'[c].at = "save" => call[c].at = "load" /\ call'[c].sent = call[c].sent
    /\ rivals'[c] = rivals[c] /\ missed'[c] = missed[c]
    /\ \E x \in Decision : /\ x.n = decisions + 1 /\ x.lease = 0
                           /\ call'[c].copy = Append(task, x)
LoadStep(c) ==
    /\ task' = task /\ applied' = applied /\ decisions' = decisions + 1
    /\ issued' = issued /\ token' = token
    /\ \A d \in Calls \ {c} : Same(d)
    /\ Loads(c)

\* Another call meanwhile: what it misses, and what it has for rivals.
Overtaken(d, t, n) ==
    /\ call'[d].at = call[d].at /\ call'[d].sent = call[d].sent
    /\ call'[d].copy = call[d].copy
    /\ call[d].at \in {"load", "save"} => rivals[d] \cup n \subseteq rivals'[d]
    /\ call[d].at \in Holding => missed[d] \cup (Named(t) \ Named(task)) \subseteq missed'[d]

SaveStep(c) ==
    /\ call[c].at \in Writing
    /\ task' = call[c].copy /\ applied' = applied \cup {Made(c)}
    /\ decisions' = decisions /\ issued' = issued /\ token' = token
    /\ call'[c].sent \in {NoToken, call[c].sent}
    /\ \/ call'[c].at = "idle"
       \/ call'[c].at = "mark" /\ call'[c].copy = call[c].copy /\ call'[c].sent = call[c].sent
    /\ \A d \in Calls \ {c} : Overtaken(d, call[c].copy, {Made(c).n})

MarkStep(c) ==
    /\ call[c].at = "mark"
    /\ task' = [call[c].copy EXCEPT ![Len(call[c].copy)] = Made(c)]
    /\ UNCHANGED <<applied, decisions, issued, token>>
    /\ call'[c].at = "consume" /\ call'[c].sent = call[c].sent
    /\ \A d \in Calls \ {c} : Overtaken(d, task', {})

LEMMA NumbersOf ==
    ASSUME TypeInv
    PROVE  /\ decisions \in Nat /\ issued \in Nat /\ applied \subseteq Decision
           /\ \A w \in Clients : token[w] \in Token
           /\ \A c \in Calls : call[c].sent \in Token
           /\ \A k \in Token : k.id \in Nat /\ k.base \in Task
           /\ \A d \in Decision : d.n \in Nat /\ d.lease \in Nat
           /\ task \in Task
BY LeaseAssumption DEF TypeInv, TypeOK, Call, Token, LeaseId, Etag, Decision

LEMMA HarmlessKeeps ==
    ASSUME TypeInv, Inv, Harmless
    PROVE  Inv'
<1>t. /\ task' = task /\ applied' = applied /\ decisions' = decisions
      /\ issued' \in {issued, issued + 1}
      /\ \A w \in Clients : Fresh(w)
      /\ \A c \in Calls : Same(c) \/ Moves(c)
  BY DEF Harmless
<1>h. ASSUME NEW c \in Calls, call'[c].at \in Holding
      PROVE  Same(c) /\ call[c].at \in Holding
  BY <1>h, <1>t DEF Same, Moves
<1>n. NoToken.base = Undecided /\ NoToken.id = 0
  BY DEF NoToken
<1>1. ASSUME NEW b \in Etags'
      PROVE  b \in Etags \/ b = Undecided
  <2>1. CASE b = task'
    BY <1>t, <2>1 DEF Etags
  <2>2. ASSUME NEW w \in Clients, b = token'[w].base PROVE b \in Etags
    BY <1>t, <2>2 DEF Etags, Fresh
  <2>3. ASSUME NEW c \in Calls, b = call'[c].sent.base PROVE b \in Etags \/ b = Undecided
    BY <1>n, <1>t, <2>3 DEF Etags, Same, Moves
  <2>4. ASSUME NEW c \in Calls, call'[c].at \in Acquiring, b = call'[c].copy
        PROVE  b \in Etags
    BY <1>t, <2>4 DEF Etags, Same, Moves
  <2> QED
    BY <2>1, <2>2, <2>3, <2>4 DEF Etags
<1>2. EtagInv'
  <2>1. ASSUME NEW b \in Etags' PROVE EtagOK(b)'
    <3>1. EtagOK(b)
      BY <1>1, EntriesOfUndecided DEF Inv, EtagInv, EtagOK, Known, Unmarked
    <3>2. ASSUME NEW c \in Calls, call'[c].at = "mark"
          PROVE  Unmarked(Entries(b), Latest(call'[c].copy).n)
      BY <1>h, <3>1, <3>2 DEF EtagOK, Same, Holding
    <3> QED
      BY <1>t, <3>1, <3>2 DEF EtagOK
  <2> QED
    BY <2>1 DEF EtagInv
<1>3. CopyInv'
  <2>1. ASSUME NEW c \in Calls PROVE CopyOK(c)'
    <3>1. CASE call'[c].at \in Holding
      <4>1. CopyOK(c) /\ Same(c)
        BY <1>h, <3>1 DEF Inv, CopyInv
      <4>2. Made(c)' = Made(c)
        BY <4>1 DEF Made, Same
      <4> QED
        BY <1>t, <4>1, <4>2 DEF CopyOK, Same
    <3>2. CASE call'[c].at \notin Holding
      BY <3>2 DEF CopyOK, Holding, Writing
    <3> QED
      BY <3>1, <3>2
  <2>2. ASSUME NEW c \in Calls, NEW d \in Calls, c # d PROVE CopiesApart(c, d)'
    <3>1. CASE call'[c].at \in Holding /\ call'[d].at \in Holding
      <4>1. CopiesApart(c, d) /\ Same(c) /\ Same(d)
        BY <1>h, <2>2, <3>1 DEF Inv, CopyInv
      <4> QED
        BY <4>1 DEF CopiesApart, Same
    <3>2. CASE ~(call'[c].at \in Holding /\ call'[d].at \in Holding)
      BY <3>2 DEF CopiesApart, Holding
    <3> QED
      BY <3>1, <3>2
  <2> QED
    BY <2>1, <2>2 DEF CopyInv
<1>4. AppliedInv'
  BY <1>t, NumbersOf DEF Inv, AppliedInv
<1>5. PaidInv'
  <2>1. ASSUME NEW k \in Token, Spent(k, issued, applied, task)
        PROVE  Spent(k, issued', applied', task')
    BY <1>t, <2>1, NumbersOf DEF Spent
  <2>2. Spent(NoToken, issued', applied', task')
    BY <1>n, <1>t, NumbersOf DEF Spent
  <2>3. ASSUME NEW w \in Clients PROVE Spent(token'[w], issued', applied', task')
    <3>1. CASE token'[w] = token[w]
      BY <2>1, <3>1, NumbersOf DEF Inv, PaidInv
    <3>2. CASE token'[w].id = issued + 1 /\ issued' = issued + 1
      <4>1. \A d \in applied' : d.lease # issued + 1
        BY <1>t, NumbersOf DEF Inv, AppliedInv
      <4>2. issued + 1 <= issued + 1
        BY NumbersOf
      <4> QED
        BY <3>2, <4>1, <4>2 DEF Spent
    <3> QED
      BY <1>t, <3>1, <3>2 DEF Fresh
  <2>4. ASSUME NEW c \in Calls PROVE Spent(call'[c].sent, issued', applied', task')
    <3>1. call'[c].sent \in {NoToken, call[c].sent} \cup {token[w] : w \in Clients}
      BY <1>t DEF Same, Moves
    <3> QED
      BY <2>1, <2>2, <3>1, NumbersOf DEF Inv, PaidInv
  <2> QED
    BY <2>3, <2>4 DEF PaidInv
<1>6. RivalInv'
  <2>1. ASSUME NEW c \in Calls, call'[c].at \in {"load", "save"}, NEW d \in applied',
               d.lease = call'[c].sent.id
        PROVE  d.n \in rivals'[c]
    <3>1. CASE Same(c)
      BY <1>t, <2>1, <3>1 DEF Inv, RivalInv, Same
    <3>2. CASE Moves(c)
      <4>1. call'[c].at = "load"
        BY <2>1, <3>2 DEF Moves, Holding
      <4>2. Spent(call[c].sent, issued, applied, task)
        BY DEF Inv, PaidInv
      <4> QED
        BY <1>t, <2>1, <3>2, <4>1, <4>2 DEF Moves, Spent
    <3> QED
      BY <1>t, <3>1, <3>2
  <2> QED
    BY <2>1 DEF RivalInv
<1>7. MissedInv'
  BY <1>h, <1>t DEF Inv, MissedInv, Same
<1> QED
  BY <1>2, <1>3, <1>4, <1>5, <1>6, <1>7 DEF Inv


LEMMA LoadKeeps ==
    ASSUME TypeInv, Inv, NEW c \in Calls, LoadStep(c)
    PROVE  Inv'
<1>t. /\ task' = task /\ applied' = applied /\ decisions' = decisions + 1
      /\ issued' = issued /\ token' = token
      /\ \A d \in Calls \ {c} : Same(d)
  BY DEF LoadStep
<1>l. /\ call'[c].at \in Writing
      /\ call'[c].sent \in {NoToken, call[c].sent}
      /\ call'[c].at = "save" => call[c].at = "load" /\ call'[c].sent = call[c].sent
      /\ rivals'[c] = rivals[c] /\ missed'[c] = missed[c]
  BY DEF LoadStep, Loads
<1>x. PICK x \in Decision : /\ x.n = decisions + 1 /\ x.lease = 0
                            /\ call'[c].copy = Append(task, x)
  BY DEF LoadStep, Loads
<1>e. /\ Entries(call'[c].copy) = Entries(task) \cup {x}
      /\ Latest(call'[c].copy) = x
  BY <1>x, NumbersOf, EntriesOfAppend
<1>n. NoToken.base = Undecided /\ NoToken.id = 0
  BY DEF NoToken
<1>w. call'[c].at \in Holding /\ call'[c].at # "mark" /\ call'[c].at \notin Acquiring
  BY <1>l DEF Writing, Holding, Acquiring
<1>k. EtagOK(task)
  BY DEF Inv, EtagInv, Etags
\* The decisions in flight and those saved have smaller numbers.
<1>s. /\ \A d \in applied : d.n <= decisions /\ d.n # x.n
      /\ \A d \in Calls : call[d].at \in Holding => Latest(call[d].copy).n # x.n
  <2>1. \A d \in applied : d.n <= decisions
    BY DEF Inv, AppliedInv
  <2>2. ASSUME NEW d \in Calls, call[d].at \in Holding
        PROVE  Latest(call[d].copy).n <= decisions
    <3>1. CopyOK(d)
      BY DEF Inv, CopyInv
    <3>2. CASE call[d].at \in Writing
      BY <3>1, <3>2 DEF CopyOK
    <3>3. CASE call[d].at = "mark"
      BY <2>1, <2>2, <3>1, <3>3, HoldingFacts DEF CopyOK
    <3> QED
      BY <2>2, <3>2, <3>3 DEF Holding, Writing
  <2>3. \A n \in Nat : n <= decisions => n # decisions + 1
    BY NumbersOf
  <2>4. \A d \in Calls : call[d].at \in Holding => Latest(call[d].copy).n \in Nat
    BY HoldingFacts, NumbersOf
  <2> QED
    BY <1>x, <2>1, <2>2, <2>3, <2>4, NumbersOf
<1>1. EtagInv'
  <2>1. ASSUME NEW b \in Etags'
        PROVE  b \in Etags \/ b = Undecided
    BY <1>l, <1>n, <1>t, <1>w, <2>1 DEF Etags, Same
  <2>2. ASSUME NEW b \in Etags' PROVE EtagOK(b)'
    <3>1. EtagOK(b)
      BY <2>1, EntriesOfUndecided DEF Inv, EtagInv, EtagOK, Known, Unmarked
    <3> QED
      BY <1>t, <1>w, <3>1 DEF EtagOK, Same
  <2> QED
    BY <2>2 DEF EtagInv
<1>2. CopyInv'
  <2>1. CopyOK(c)'
    <3>1. Known(applied, (Entries(task) \cup {x}) \ {x})
      BY <1>k DEF EtagOK, Known
    <3>2. x.n <= decisions + 1
      BY <1>x, NumbersOf
    <3> QED
      BY <1>e, <1>s, <1>t, <1>w, <1>x, <3>1, <3>2 DEF CopyOK
  <2>2. ASSUME NEW d \in Calls \ {c} PROVE CopyOK(d)'
    <3>1. CopyOK(d) /\ Same(d)
      BY <1>t DEF Inv, CopyInv
    <3>2. Made(d)' = Made(d)
      BY <3>1 DEF Made, Same
    <3>3. call[d].at \in Writing => Latest(call[d].copy).n <= decisions + 1
      <4>1. call[d].at \in Writing =>
              Latest(call[d].copy).n <= decisions /\ Latest(call[d].copy).n \in Nat
        BY <3>1, HoldingFacts, NumbersOf DEF CopyOK, Writing, Holding
      <4> QED
        BY <4>1, NumbersOf
    <3> QED
      BY <1>t, <3>1, <3>2, <3>3 DEF CopyOK, Same
  <2>3. ASSUME NEW d \in Calls \ {c} PROVE CopiesApart(c, d)' /\ CopiesApart(d, c)'
    <3>1. Same(d)
      BY <1>t
    <3>2. call[d].at = "mark" => Unmarked(Entries(task) \cup {x}, Latest(call[d].copy).n)
      BY <1>k, <1>x DEF EtagOK, Unmarked
    <3> QED
      BY <1>e, <1>s, <1>w, <3>1, <3>2 DEF CopiesApart, Same
  <2>4. ASSUME NEW d \in Calls \ {c}, NEW e \in Calls \ {c}, d # e
        PROVE  CopiesApart(d, e)'
    <3>1. CopiesApart(d, e) /\ Same(d) /\ Same(e)
      BY <1>t, <2>4 DEF Inv, CopyInv
    <3> QED
      BY <3>1 DEF CopiesApart, Same
  <2> QED
    BY <2>1, <2>2, <2>3, <2>4 DEF CopyInv
<1>3. AppliedInv'
  BY <1>t, NumbersOf DEF Inv, AppliedInv
<1>4. PaidInv'
  <2>1. Spent(NoToken, issued, applied, task)
    BY <1>n, NumbersOf DEF Spent
  <2> QED
    BY <1>l, <1>t, <2>1 DEF Inv, PaidInv, Same
<1>5. RivalInv'
  BY <1>l, <1>t DEF Inv, RivalInv, Same, Writing
<1>6. MissedInv'
  <2>1. ASSUME NEW d \in Calls \ {c}, call'[d].at \in Holding, NEW e \in applied',
               Within(e, Entries(task'))
        PROVE  Within(e, Entries(call'[d].copy)) \/ e.n \in missed'[d]
    BY <1>t, <2>1 DEF Inv, MissedInv, Same
  <2>2. ASSUME NEW e \in applied', Within(e, Entries(task'))
        PROVE  Within(e, Entries(call'[c].copy))
    BY <1>e, <1>t, <2>2 DEF Within
  <2> QED
    BY <2>1, <2>2 DEF MissedInv
<1> QED
  BY <1>1, <1>2, <1>3, <1>4, <1>5, <1>6 DEF Inv

\* A decision that another write brings into the file is one the copies miss.
LEMMA OvertakenMissed ==
    ASSUME TypeInv, Inv, NEW t \in Task, NEW n, NEW d \in Calls, Overtaken(d, t, n),
           call[d].at \in Holding, NEW e \in applied, Within(e, Entries(t))
    PROVE  Within(e, Entries(call[d].copy)) \/ e.n \in missed'[d]
<1>1. CASE Within(e, Entries(task))
  BY <1>1 DEF Inv, MissedInv, Overtaken
<1>2. CASE ~Within(e, Entries(task))
  <2>1. e \in Decision /\ Bare(e).n = e.n
    BY NumbersOf, BareFacts
  <2>2. e.n \in Named(t)
    BY <2>1 DEF Within, Entries, Named
  <2>3. ASSUME NEW f \in Entries(task), f.n = e.n PROVE FALSE
    <3>1. Known(applied, Entries(task))
      BY DEF Inv, EtagInv, EtagOK, Etags
    <3>2. PICK g \in applied : g.n = f.n /\ (f = g \/ f = Bare(g))
      BY <3>1, KnownNumber, NumbersOf
    <3>3. g = e
      BY <2>3, <3>2 DEF Inv, AppliedInv
    <3> QED
      BY <1>2, <3>2, <3>3 DEF Within
  <2>4. e.n \notin Named(task)
    BY <2>3 DEF Named, Entries
  <2> QED
    BY <2>2, <2>4 DEF Overtaken
<1> QED
  BY <1>1, <1>2


LEMMA SaveKeeps ==
    ASSUME TypeInv, Inv, NEW c \in Calls, SaveStep(c)
    PROVE  Inv'
<1> DEFINE t == call[c].copy
           x == Latest(t)
           m == Made(c)
<1>t. /\ call[c].at \in Writing
      /\ task' = t /\ applied' = applied \cup {m}
      /\ decisions' = decisions /\ issued' = issued /\ token' = token
      /\ call'[c].sent \in {NoToken, call[c].sent}
      /\ \/ call'[c].at = "idle"
         \/ call'[c].at = "mark" /\ call'[c].copy = t /\ call'[c].sent = call[c].sent
      /\ \A d \in Calls \ {c} : Overtaken(d, t, {m.n})
  BY DEF SaveStep
<1>h. /\ t \in Task /\ Entries(t) \subseteq Decision /\ x \in Entries(t)
      /\ m \in Decision /\ m.n = x.n /\ m.lease = call[c].sent.id
      /\ x.lease = 0 => Bare(m) = x
  BY <1>t, HoldingFacts DEF Writing, Holding
<1>c. /\ x.lease = 0 /\ x.n <= decisions /\ Known(applied, Entries(t) \ {x})
      /\ \A d \in applied : d.n # x.n
  BY <1>t DEF Inv, CopyInv, CopyOK
<1>s. \A d \in Calls \ {c} :
        /\ call'[d].at = call[d].at /\ call'[d].sent = call[d].sent
        /\ call'[d].copy = call[d].copy /\ Made(d)' = Made(d)
  BY <1>t DEF Overtaken, Made
<1>m. call'[c].at = "mark" => /\ call'[c].copy = t /\ call'[c].sent = call[c].sent
                              /\ Made(c)' = m
  BY <1>t DEF Made
<1>n. NoToken.base = Undecided /\ NoToken.id = 0
  BY DEF NoToken
<1> HIDE DEF t, x, m
\* No saved entry has the number of this decision.
<1>u. ASSUME NEW es, Known(applied, es), NEW e \in es PROVE e.n # x.n
  <2>1. PICK d \in applied : d.n = e.n
    BY <1>u, KnownNumber, NumbersOf
  <2> QED
    BY <1>c, <2>1
<1>k. Known(applied', Entries(t))
  <2>1. ASSUME NEW e \in Entries(t) PROVE \E d \in applied' : e = d \/ e = Bare(d)
    <3>1. CASE e = x
      BY <1>c, <1>h, <1>t, <3>1
    <3>2. CASE e # x
      BY <1>c, <1>t, <3>2 DEF Known
    <3> QED
      BY <3>1, <3>2
  <2> QED
    BY <2>1 DEF Known
<1>e. ASSUME NEW b \in Etags PROVE Known(applied, Entries(b)) /\ EtagOK(b)
  BY DEF Inv, EtagInv, EtagOK
<1>1. EtagInv'
  <2>1. ASSUME NEW b \in Etags'
        PROVE  b \in Etags \/ b = Undecided \/ b = t
    BY <1>n, <1>s, <1>t, <2>1 DEF Etags, Acquiring
  <2>2. ASSUME NEW b, b \in Etags \/ b = Undecided PROVE EtagOK(b)'
    <3>1. Known(applied, Entries(b)) /\ EtagOK(b)
      BY <1>e, <2>2, EntriesOfUndecided DEF EtagOK, Known, Unmarked
    <3>2. Known(applied', Entries(b))
      BY <1>t, <3>1, KnownMore
    <3>3. ASSUME NEW d \in Calls, call'[d].at = "mark"
          PROVE  Unmarked(Entries(b), Latest(call'[d].copy).n)
      <4>1. CASE d = c
        BY <1>m, <1>u, <3>1, <3>3, <4>1 DEF Unmarked, x
      <4>2. CASE d # c
        BY <1>s, <3>1, <3>3, <4>2 DEF EtagOK
      <4> QED
        BY <4>1, <4>2
    <3> QED
      BY <3>2, <3>3 DEF EtagOK
  <2>3. ASSUME NEW b, b = t PROVE EtagOK(b)'
    <3>1. ASSUME NEW d \in Calls, call'[d].at = "mark"
          PROVE  Unmarked(Entries(t), Latest(call'[d].copy).n)
      <4>1. CASE d = c
        <5>1. \A e \in Entries(t) \ {x} : e.n # x.n
          BY <1>c, <1>u
        <5> QED
          BY <1>c, <1>m, <3>1, <4>1, <5>1 DEF Unmarked, x
      <4>2. CASE d # c
        <5>1. CopiesApart(c, d)
          BY <4>2 DEF Inv, CopyInv
        <5> QED
          BY <1>s, <1>t, <3>1, <4>2, <5>1 DEF CopiesApart, Writing, Holding, t
      <4> QED
        BY <4>1, <4>2
    <3> QED
      BY <1>k, <2>3, <3>1 DEF EtagOK
  <2> QED
    BY <2>1, <2>2, <2>3 DEF EtagInv
<1>2. CopyInv'
  <2>1. CopyOK(c)'
    BY <1>k, <1>m, <1>t DEF CopyOK, Writing
  <2>2. ASSUME NEW d \in Calls \ {c} PROVE CopyOK(d)'
    <3>1. CopyOK(d) /\ CopiesApart(c, d)
      BY DEF Inv, CopyInv
    <3>2. CASE call[d].at \in Writing
      <4>1. Latest(call[d].copy).n # m.n
        BY <1>h, <1>t, <3>1, <3>2 DEF CopiesApart, Writing, Holding, x, t
      <4>2. Known(applied', Entries(call[d].copy) \ {Latest(call[d].copy)})
        BY <1>t, <3>1, <3>2, KnownMore DEF CopyOK
      <4> QED
        BY <1>s, <1>t, <3>1, <3>2, <4>1, <4>2 DEF CopyOK, Writing
    <3>3. CASE call[d].at = "mark"
      <4>1. Known(applied', Entries(call[d].copy))
        BY <1>t, <3>1, <3>3, KnownMore DEF CopyOK
      <4> QED
        BY <1>s, <1>t, <3>1, <3>3, <4>1 DEF CopyOK, Writing
    <3>4. CASE call[d].at \notin Writing /\ call[d].at # "mark"
      BY <1>s, <3>4 DEF CopyOK
    <3> QED
      BY <3>2, <3>3, <3>4
  <2>3. ASSUME NEW d \in Calls \ {c} PROVE CopiesApart(c, d)' /\ CopiesApart(d, c)'
    <3>1. CopiesApart(c, d) /\ CopiesApart(d, c) /\ CopyOK(d)
      BY DEF Inv, CopyInv
    <3>2. ASSUME call[d].at \in Holding PROVE Unmarked(Entries(call[d].copy), x.n)
      <4> DEFINE y == Latest(call[d].copy)
      <4>1. y.n # x.n
        BY <1>t, <3>1, <3>2 DEF CopiesApart, Writing, Holding, x, t
      <4>2. Known(applied, Entries(call[d].copy) \ {y})
        BY <3>1, <3>2, KnownMore DEF CopyOK, Writing, Holding, Known
      <4> HIDE DEF y
      <4>3. \A e \in Entries(call[d].copy) \ {y} : e.n # x.n
        BY <1>u, <4>2
      <4> QED
        BY <4>1, <4>3 DEF Unmarked
    <3>3. call'[c].at \in Holding => call'[c].at = "mark"
      BY <1>t DEF Holding
    <3> QED
      BY <1>m, <1>s, <1>t, <3>1, <3>2, <3>3 DEF CopiesApart, Writing, Holding, x, t
  <2>4. ASSUME NEW d \in Calls \ {c}, NEW e \in Calls \ {c}, d # e
        PROVE  CopiesApart(d, e)'
    <3>1. CopiesApart(d, e)
      BY <2>4 DEF Inv, CopyInv
    <3> QED
      BY <1>s, <3>1 DEF CopiesApart
  <2> QED
    BY <2>1, <2>2, <2>3, <2>4 DEF CopyInv
<1>3. AppliedInv'
  <2>1. m.n <= decisions /\ m.lease <= issued /\ \A d \in applied : d.n # m.n
    BY <1>c, <1>h DEF Inv, PaidInv, Spent
  <2> QED
    BY <1>t, <2>1 DEF Inv, AppliedInv
<1>4. PaidInv'
  <2>1. ASSUME NEW k \in Token, k.base \in Etags \cup {Undecided},
               Spent(k, issued, applied, task)
        PROVE  Spent(k, issued', applied', task')
    <3>1. Known(applied, Entries(k.base))
      BY <1>e, <2>1, EntriesOfUndecided DEF Known
    <3>2. x \notin Entries(k.base)
      BY <1>u, <3>1
    <3>3. task' # k.base
      BY <1>h, <1>t, <3>2
    <3> QED
      BY <1>t, <2>1, <3>3 DEF Spent
  <2>2. Spent(NoToken, issued', applied', task')
    BY <1>n, <1>t, NumbersOf DEF Spent
  <2>3. ASSUME NEW d \in Calls PROVE Spent(call'[d].sent, issued', applied', task')
    <3>1. call'[d].sent \in {NoToken, call[d].sent}
      BY <1>s, <1>t
    <3>2. Spent(call[d].sent, issued', applied', task')
      BY <2>1, NumbersOf DEF Inv, PaidInv, Etags
    <3> QED
      BY <2>2, <3>1, <3>2
  <2>4. ASSUME NEW w \in Clients PROVE Spent(token'[w], issued', applied', task')
    BY <1>t, <2>1, NumbersOf DEF Inv, PaidInv, Etags
  <2> QED
    BY <2>3, <2>4 DEF PaidInv
<1>5. RivalInv'
  <2>1. ASSUME NEW d \in Calls \ {c}, call'[d].at \in {"load", "save"}, NEW e \in applied',
               e.lease = call'[d].sent.id
        PROVE  e.n \in rivals'[d]
    <3>1. rivals[d] \cup {m.n} \subseteq rivals'[d]
      BY <1>t, <2>1 DEF Overtaken
    <3>2. e \in applied => e.n \in rivals[d]
      BY <1>s, <2>1 DEF Inv, RivalInv
    <3> QED
      BY <1>t, <3>1, <3>2
  <2> QED
    BY <1>t, <2>1 DEF RivalInv
<1>6. MissedInv'
  <2>1. ASSUME NEW d \in Calls \ {c}, call'[d].at \in Holding, NEW e \in applied',
               Within(e, Entries(t))
        PROVE  Within(e, Entries(call'[d].copy)) \/ e.n \in missed'[d]
    <3>1. Overtaken(d, t, {m.n}) /\ call[d].at \in Holding /\ call'[d].copy = call[d].copy
      BY <1>s, <1>t, <2>1
    <3>2. CASE e \in applied
      BY <1>h, <2>1, <3>1, <3>2, OvertakenMissed
    <3>3. CASE e = m
      <4>1. x.n \in Named(t)
        BY <1>h DEF Named, Entries
      <4>2. Known(applied, Entries(task))
        BY <1>e DEF Etags
      <4>3. x.n \notin Named(task)
        BY <1>u, <4>2 DEF Named, Entries
      <4> QED
        BY <1>h, <3>1, <3>3, <4>1, <4>3 DEF Overtaken
    <3> QED
      BY <1>t, <3>2, <3>3
  <2>2. call'[c].at \in Holding => call'[c].copy = task'
    BY <1>t DEF Holding
  <2> QED
    BY <1>t, <2>1, <2>2 DEF MissedInv
<1> QED
  BY <1>1, <1>2, <1>3, <1>4, <1>5, <1>6 DEF Inv

LEMMA MarkKeeps ==
    ASSUME TypeInv, Inv, NEW c \in Calls, MarkStep(c)
    PROVE  Inv'
<1> DEFINE t == call[c].copy
           x == Latest(t)
           m == Made(c)
           u == [t EXCEPT ![Len(t)] = m]
<1>t. /\ call[c].at = "mark" /\ task' = u
      /\ applied' = applied /\ decisions' = decisions /\ issued' = issued /\ token' = token
      /\ call'[c].at = "consume" /\ call'[c].sent = call[c].sent
      /\ \A d \in Calls \ {c} : Overtaken(d, u, {})
  BY DEF MarkStep
<1>h. /\ t \in Task /\ t # Undecided /\ Entries(t) \subseteq Decision /\ x \in Entries(t)
      /\ m \in Decision /\ m.n = x.n /\ m.lease = call[c].sent.id /\ m.lease # 0
      /\ Bare(m) = Bare(x)
  BY <1>t, HoldingFacts DEF Holding, TypeInv, Sound, Paying
<1>c. Known(applied, Entries(t)) /\ m \in applied
  BY <1>t DEF Inv, CopyInv, CopyOK
<1>m. u \in Task
  BY <1>t, MadeType DEF Holding
<1>n. NoToken.base = Undecided /\ NoToken.id = 0
  BY DEF NoToken
<1> HIDE DEF m
<1>u. /\ Entries(u) \subseteq Entries(t) \cup {m} /\ m \in Entries(u)
      /\ Entries(t) \ {x} \subseteq Entries(u)
  BY <1>h, EntriesOfMark
<1> HIDE DEF u
<1>s. \A d \in Calls \ {c} :
        /\ call'[d].at = call[d].at /\ call'[d].sent = call[d].sent
        /\ call'[d].copy = call[d].copy /\ Made(d)' = Made(d)
  BY <1>t DEF Overtaken, Made
<1>e. ASSUME NEW b \in Etags PROVE EtagOK(b)
  BY DEF Inv, EtagInv
<1>1. EtagInv'
  <2>1. ASSUME NEW b \in Etags'
        PROVE  b \in Etags \/ b = u
    BY <1>s, <1>t, <2>1 DEF Etags, Acquiring
  <2>2. ASSUME NEW b \in Etags PROVE EtagOK(b)'
    BY <1>e, <1>s, <1>t DEF EtagOK
  <2>3. ASSUME NEW b, b = u PROVE EtagOK(b)'
    <3>1. Known(applied, Entries(u))
      BY <1>c, <1>u DEF Known
    <3>2. ASSUME NEW d \in Calls \ {c}, call[d].at = "mark"
          PROVE  Unmarked(Entries(u), Latest(call[d].copy).n)
      <4>1. CopiesApart(c, d)
        BY DEF Inv, CopyInv
      <4>2. Unmarked(Entries(t), Latest(call[d].copy).n) /\ m.n # Latest(call[d].copy).n
        BY <1>h, <1>t, <3>2, <4>1 DEF CopiesApart, Holding
      <4> QED
        BY <1>u, <4>2 DEF Unmarked
    <3> QED
      BY <1>s, <1>t, <2>3, <3>1, <3>2 DEF EtagOK
  <2> QED
    BY <2>1, <2>2, <2>3 DEF EtagInv
<1>2. CopyInv'
  <2>1. CopyOK(c)'
    BY <1>t DEF CopyOK, Writing
  <2>2. ASSUME NEW d \in Calls \ {c} PROVE CopyOK(d)'
    BY <1>s, <1>t DEF Inv, CopyInv, CopyOK
  <2>3. ASSUME NEW d \in Calls \ {c} PROVE CopiesApart(c, d)' /\ CopiesApart(d, c)'
    BY <1>t DEF CopiesApart, Holding
  <2>4. ASSUME NEW d \in Calls \ {c}, NEW e \in Calls \ {c}, d # e
        PROVE  CopiesApart(d, e)'
    <3>1. CopiesApart(d, e)
      BY <2>4 DEF Inv, CopyInv
    <3> QED
      BY <1>s, <3>1 DEF CopiesApart
  <2> QED
    BY <2>1, <2>2, <2>3, <2>4 DEF CopyInv
<1>3. AppliedInv'
  BY <1>t DEF Inv, AppliedInv
<1>4. PaidInv'
  <2>1. ASSUME NEW b \in Etags PROVE task' # b
    <3>1. Unmarked(Entries(b), x.n)
      BY <1>e, <1>t DEF EtagOK
    <3>2. m \notin Entries(b)
      BY <1>h, <3>1 DEF Unmarked
    <3> QED
      BY <1>t, <1>u, <3>2
  <2>2. ASSUME NEW d \in Calls PROVE Spent(call'[d].sent, issued', applied', task')
    <3>1. call'[d].sent = call[d].sent /\ call[d].sent.base \in Etags
      BY <1>s, <1>t DEF Etags
    <3>2. task' # call[d].sent.base
      BY <2>1, <3>1
    <3> QED
      BY <1>t, <3>1, <3>2 DEF Inv, PaidInv, Spent
  <2>3. ASSUME NEW w \in Clients PROVE Spent(token'[w], issued', applied', task')
    <3>1. task' # token[w].base
      BY <2>1 DEF Etags
    <3> QED
      BY <1>t, <3>1 DEF Inv, PaidInv, Spent
  <2> QED
    BY <2>2, <2>3 DEF PaidInv
<1>5. RivalInv'
  <2>1. ASSUME NEW d \in Calls \ {c}, call'[d].at \in {"load", "save"}, NEW e \in applied,
               e.lease = call'[d].sent.id
        PROVE  e.n \in rivals'[d]
    <3>1. rivals[d] \subseteq rivals'[d]
      BY <1>s, <1>t, <2>1 DEF Overtaken
    <3> QED
      BY <1>s, <2>1, <3>1 DEF Inv, RivalInv
  <2> QED
    BY <1>t, <2>1 DEF RivalInv
<1>6. MissedInv'
  <2>1. ASSUME NEW d \in Calls \ {c}, call'[d].at \in Holding, NEW e \in applied,
               Within(e, Entries(u))
        PROVE  Within(e, Entries(call'[d].copy)) \/ e.n \in missed'[d]
    <3>1. Overtaken(d, u, {}) /\ call[d].at \in Holding /\ call'[d].copy = call[d].copy
      BY <1>s, <1>t, <2>1
    <3> QED
      BY <1>m, <2>1, <3>1, OvertakenMissed
  <2> QED
    BY <1>t, <2>1 DEF MissedInv, Holding
<1> QED
  BY <1>1, <1>2, <1>3, <1>4, <1>5, <1>6 DEF Inv


(***************************************************************************)
(* Every action is one of the four kinds of step                           *)
(***************************************************************************)

\* A call that goes on without a decision leaves the others where they are.
LEMMA GoesOn ==
    ASSUME TypeInv, NEW c \in Calls, NEW r \in Call, Become(c, r),
           \A d \in Calls \ {c} : rivals'[d] = rivals[d] /\ missed'[d] = missed[d],
           r.at \notin Holding,
           r.sent \in {NoToken, call[c].sent} \cup {token[w] : w \in Clients},
           r.at \in Acquiring => r.copy \in Etags,
           r.at = "load" => /\ r.sent = call[c].sent /\ call[c].sent.id # 0
                            /\ task = call[c].sent.base
    PROVE  \A d \in Calls : Same(d) \/ Moves(d)
<1>1. call' = [call EXCEPT ![c] = r] /\ call \in [Calls -> Call]
  BY DEF Become, TypeInv, TypeOK
<1>2. call'[c] = r /\ \A d \in Calls \ {c} : call'[d] = call[d]
  BY <1>1
<1>3. Moves(c)
  BY <1>2 DEF Moves
<1>4. \A d \in Calls \ {c} : Same(d)
  BY <1>2 DEF Same
<1> QED
  BY <1>3, <1>4

\* The end of a call is such a step.
LEMMA Ends ==
    ASSUME TypeInv, NEW c \in Calls, End(c),
           \A d \in Calls \ {c} : rivals'[d] = rivals[d] /\ missed'[d] = missed[d]
    PROVE  \A d \in Calls : Same(d) \/ Moves(d)
<1>1. NoCall \in Call /\ NoCall.at = "idle" /\ NoCall.sent = NoToken
  BY NoCallType
<1>2. Become(c, NoCall)
  BY DEF End
<1> QED
  BY <1>1, <1>2, GoesOn DEF Holding, Acquiring

\* acquire(), get(), release() and renew(), and what leads to a decision.
LEMMA ReadsAndLeases ==
    ASSUME TypeInv, NEW c \in Calls,
           \/ AcquireEtag(c) \/ AcquireGet(c) \/ AcquireExpire(c) \/ Get(c) \/ GetExpire(c)
           \/ Validate(c) \/ Reject(c) \/ CheckEtag(c) \/ RenewRead(c) \/ RenewWrite(c)
           \/ Consume(c) \/ ConsumeWrite(c) \/ Release(c) \/ ReleaseWrite(c)
    PROVE  Harmless
<1>a. /\ Undecided \in Task /\ Unleased \in Lease /\ NoCall \in Call /\ NoToken \in Token
      /\ NoCall.at = "idle" /\ NoCall.sent = NoToken
  BY NoCallType
<1>d. /\ call[c] \in Call /\ call[c].rec \in Lease /\ call[c].copy \in Task
      /\ call[c].goal \in Approvals \cup {None} /\ call[c].sent \in Token
      /\ call[c].who \in Actors /\ Sound(call[c])
      /\ lease \in Lease /\ task \in Task /\ token \in [Clients -> Token]
  BY DEF TypeInv, TypeOK, Call
<1>u. /\ UNCHANGED <<task, token, issued, decisions, applied>> /\ Unseen
  BY DEF AcquireEtag, AcquireGet, AcquireExpire, Get, GetExpire, Validate, Reject, CheckEtag,
         RenewRead, RenewWrite, Consume, ConsumeWrite, Release, ReleaseWrite
<1>s. \A d \in Calls \ {c} : rivals'[d] = rivals[d] /\ missed'[d] = missed[d]
  BY <1>u DEF Unseen
<1>e. ASSUME End(c) PROVE \A d \in Calls : Same(d) \/ Moves(d)
  BY <1>e, <1>s, Ends
\* The call goes on to a step that is neither the load nor in acquire().
<1>r. ASSUME NEW r \in Call, Become(c, r), r.at \notin Holding \cup Acquiring \cup {"load"},
             r.sent \in {NoToken, call[c].sent} \cup {token[w] : w \in Clients}
      PROVE  \A d \in Calls : Same(d) \/ Moves(d)
  BY <1>r, <1>s, GoesOn
<1>p. ASSUME NEW r \in Call, Become(c, r), r.at \in Acquiring, r.copy \in Etags,
             r.sent \in {NoToken, call[c].sent}
      PROVE  \A d \in Calls : Same(d) \/ Moves(d)
  BY <1>p, <1>s, GoesOn DEF Acquiring, Holding
<1> DEFINE Goal == \A d \in Calls : Same(d) \/ Moves(d)
<1> HIDE DEF Goal
<1>0. ASSUME Goal PROVE Harmless
  BY <1>0, <1>u DEF Goal, Harmless, Fresh
<1>1. ASSUME AcquireEtag(c) PROVE Goal
  <2>1. PICK who \in Clients :
           Become(c, [NoCall EXCEPT !.at = "acquire_get", !.who = who, !.copy = task])
    BY <1>1 DEF AcquireEtag
  <2> DEFINE r == [NoCall EXCEPT !.at = "acquire_get", !.who = who, !.copy = task]
  <2>2. r \in Call /\ r.at = "acquire_get" /\ r.copy = task /\ r.sent = NoToken /\ Become(c, r)
    BY <1>a, <1>d, <2>1 DEF Call, Steps, Actors
  <2> HIDE DEF r
  <2> QED
    BY <1>p, <2>2 DEF Goal, Acquiring, Etags
<1>2. ASSUME AcquireGet(c) PROVE Goal
  <2>1. CASE lease.status # "active"
    <3> DEFINE r == [call[c] EXCEPT !.at = "acquire_write"]
    <3>1. Become(c, r)
      BY <1>2, <2>1 DEF AcquireGet, Go
    <3>2. r \in Call /\ r.at = "acquire_write" /\ r.copy = call[c].copy /\ r.sent = call[c].sent
      BY <1>d DEF Call, Steps
    <3> HIDE DEF r
    <3> QED
      BY <1>2, <1>p, <3>1, <3>2 DEF Goal, Acquiring, Etags, AcquireGet, At
  <2>2. CASE lease.status = "active" /\ Due(lease)
    <3> DEFINE r == [call[c] EXCEPT !.at = "acquire_expire", !.rec = lease]
    <3>1. Become(c, r)
      BY <1>2, <2>2 DEF AcquireGet
    <3>2. r \in Call /\ r.at = "acquire_expire" /\ r.copy = call[c].copy /\ r.sent = call[c].sent
      BY <1>d DEF Call, Steps
    <3> HIDE DEF r
    <3> QED
      BY <1>2, <1>p, <3>1, <3>2 DEF Goal, Acquiring, Etags, AcquireGet, At
  <2>3. CASE lease.status = "active" /\ ~Due(lease)
    BY <1>2, <1>e, <2>3 DEF AcquireGet, Goal
  <2> QED
    BY <2>1, <2>2, <2>3
<1>3. ASSUME AcquireExpire(c) PROVE Goal
  <2> DEFINE r == [call[c] EXCEPT !.at = "acquire_write", !.rec = Unleased]
  <2>1. Become(c, r)
    BY <1>3 DEF AcquireExpire
  <2>2. r \in Call /\ r.at = "acquire_write" /\ r.copy = call[c].copy /\ r.sent = call[c].sent
    BY <1>a, <1>d DEF Call, Steps
  <2> HIDE DEF r
  <2> QED
    BY <1>3, <1>p, <2>1, <2>2 DEF Goal, Acquiring, Etags, AcquireExpire, At
<1>4. ASSUME Get(c) PROVE Goal
  <2> DEFINE r == [NoCall EXCEPT !.at = "get_expire", !.rec = lease]
  <2>1. r \in Call /\ r.at = "get_expire" /\ r.sent = NoToken /\ Become(c, r)
    BY <1>4, <1>a, <1>d DEF Get, Call, Steps
  <2> HIDE DEF r
  <2> QED
    BY <1>r, <2>1 DEF Goal, Holding, Acquiring
<1>5. ASSUME GetExpire(c) \/ Reject(c) \/ RenewWrite(c) \/ ConsumeWrite(c) \/ ReleaseWrite(c)
      PROVE  Goal
  BY <1>5, <1>e DEF Goal, GetExpire, Reject, RenewWrite, ConsumeWrite, ReleaseWrite
<1>6. ASSUME Validate(c) PROVE Goal
  <2>1. PICK who \in Clients, goal \in Approvals \cup {None} :
          \/ Become(c, [NoCall EXCEPT !.at = "check_etag", !.who = who,
                          !.sent = token[who], !.rec = lease, !.goal = goal])
          \/ \E rec \in {lease, [lease EXCEPT !.status = "expired"]} :
               Become(c, [NoCall EXCEPT !.at = "reject", !.rec = rec])
    BY <1>6 DEF Validate
  <2>2. CASE Become(c, [NoCall EXCEPT !.at = "check_etag", !.who = who,
                          !.sent = token[who], !.rec = lease, !.goal = goal])
    <3> DEFINE r == [NoCall EXCEPT !.at = "check_etag", !.who = who,
                       !.sent = token[who], !.rec = lease, !.goal = goal]
    <3>1. Become(c, r)
      BY <2>2
    <3>2. r \in Call /\ r.at = "check_etag" /\ r.sent = token[who]
      BY <1>a, <1>d DEF Call, Steps, Actors
    <3> HIDE DEF r
    <3> QED
      BY <1>r, <3>1, <3>2 DEF Goal, Holding, Acquiring
  <2>3. ASSUME NEW rec \in {lease, [lease EXCEPT !.status = "expired"]},
               Become(c, [NoCall EXCEPT !.at = "reject", !.rec = rec])
        PROVE  Goal
    <3> DEFINE r == [NoCall EXCEPT !.at = "reject", !.rec = rec]
    <3>1. rec \in Lease
      BY <1>d, LeaseType DEF LeaseStatus
    <3>2. r \in Call /\ r.at = "reject" /\ r.sent = NoToken /\ Become(c, r)
      BY <1>a, <2>3, <3>1 DEF Call, Steps
    <3> HIDE DEF r
    <3> QED
      BY <1>r, <3>2 DEF Goal, Holding, Acquiring
  <2> QED
    BY <2>1, <2>2, <2>3
<1>7. ASSUME CheckEtag(c) PROVE Goal
  <2>1. CASE End(c)
    BY <1>e, <2>1 DEF Goal
  <2>2. CASE Become(c, [NoCall EXCEPT !.at = "renew"])
    <3> DEFINE r == [NoCall EXCEPT !.at = "renew"]
    <3>1. r \in Call /\ r.at = "renew" /\ r.sent = NoToken /\ Become(c, r)
      BY <1>a, <2>2 DEF Call, Steps
    <3> HIDE DEF r
    <3> QED
      BY <1>r, <3>1 DEF Goal, Holding, Acquiring
  <2>3. CASE Unchanged(c) /\ Become(c, [call[c] EXCEPT !.at = "load", !.rec = Unleased])
    <3> DEFINE r == [call[c] EXCEPT !.at = "load", !.rec = Unleased]
    <3>1. r \in Call /\ r.at = "load" /\ r.sent = call[c].sent /\ Become(c, r)
      BY <1>a, <1>d, <2>3 DEF Call, Steps
    <3> HIDE DEF r
    <3>2. call[c].sent.id # 0 /\ task = call[c].sent.base
      BY <1>7, <1>d, <2>3 DEF CheckEtag, At, Sound, Paying, Unchanged
    <3> QED
      BY <1>s, <3>1, <3>2, GoesOn DEF Goal, Holding, Acquiring
  <2> QED
    BY <1>7, <2>1, <2>2, <2>3 DEF CheckEtag
<1>8. ASSUME RenewRead(c) PROVE Goal
  <2> DEFINE r == [call[c] EXCEPT !.at = "renew_write", !.rec = lease]
  <2>1. r \in Call /\ r.at = "renew_write" /\ r.sent = call[c].sent /\ Become(c, r)
    BY <1>8, <1>d DEF RenewRead, Call, Steps
  <2> HIDE DEF r
  <2> QED
    BY <1>r, <2>1 DEF Goal, Holding, Acquiring
<1>9. ASSUME Consume(c) PROVE Goal
  <2>1. CASE Become(c, [NoCall EXCEPT !.at = "consume_write", !.rec = lease])
    <3> DEFINE r == [NoCall EXCEPT !.at = "consume_write", !.rec = lease]
    <3>1. r \in Call /\ r.at = "consume_write" /\ r.sent = NoToken /\ Become(c, r)
      BY <1>a, <1>d, <2>1 DEF Call, Steps
    <3> HIDE DEF r
    <3> QED
      BY <1>r, <3>1 DEF Goal, Holding, Acquiring
  <2>2. CASE End(c)
    BY <1>e, <2>2 DEF Goal
  <2> QED
    BY <1>9, <2>1, <2>2 DEF Consume
<1>10. ASSUME Release(c) PROVE Goal
  <2> DEFINE r == [NoCall EXCEPT !.at = "release_write", !.rec = lease]
  <2>1. r \in Call /\ r.at = "release_write" /\ r.sent = NoToken /\ Become(c, r)
    BY <1>10, <1>a, <1>d DEF Release, Call, Steps
  <2> HIDE DEF r
  <2> QED
    BY <1>r, <2>1 DEF Goal, Holding, Acquiring
<1> QED
  BY <1>0, <1>1, <1>2, <1>3, <1>4, <1>5, <1>6, <1>7, <1>8, <1>9, <1>10

\* The lease that acquire() writes is a new one, with an etag it has read.
LEMMA Issues ==
    ASSUME TypeInv, NEW c \in Calls, AcquireWrite(c) \/ CrashAfterWrite(c)
    PROVE  Harmless
<1>1. Issue(c)
  BY DEF AcquireWrite, CrashAfterWrite
<1>2. /\ UNCHANGED <<task, decisions, applied, rivals, missed>>
      /\ issued' = issued + 1 /\ End(c) /\ call[c].copy \in Etags
  BY <1>1 DEF Issue, Unseen, At, Acquiring, Etags
<1>3. \A w \in Clients : Fresh(w)
  <2>1. \/ token' = token
        \/ token' = [token EXCEPT ![call[c].who] = [id |-> issued + 1, base |-> call[c].copy]]
    BY DEF AcquireWrite, CrashAfterWrite
  <2>2. token \in [Clients -> Token]
    BY DEF TypeInv, TypeOK
  <2> QED
    BY <1>2, <2>1, <2>2 DEF Fresh
<1>4. \A d \in Calls : Same(d) \/ Moves(d)
  BY <1>2, Ends
<1> QED
  BY <1>2, <1>3, <1>4 DEF Harmless

LEMMA TicksAndCrashes ==
    ASSUME TypeInv, Tick \/ (\E c \in Calls : Crash(c)) \/ UNCHANGED vars
    PROVE  Harmless
<1>1. CASE Tick
  <2>1. ASSUME NEW c \in Calls PROVE Same(c)
    <3>1. call'[c] = [call[c] EXCEPT !.rec = Older(call[c].rec)] /\ call[c] \in Call
      BY <1>1 DEF Tick, TypeInv, TypeOK
    <3> QED
      BY <1>1, <3>1 DEF Same, Tick, Unseen, Call
  <2> QED
    BY <1>1, <2>1 DEF Harmless, Tick, Fresh
<1>2. ASSUME NEW c \in Calls, Crash(c) PROVE Harmless
  <2>1. \A d \in Calls \ {c} : rivals'[d] = rivals[d] /\ missed'[d] = missed[d]
    BY <1>2 DEF Crash, TypeInv, TypeOK
  <2>2. \A d \in Calls : Same(d) \/ Moves(d)
    BY <1>2, <2>1, Ends DEF Crash
  <2> QED
    BY <1>2, <2>2 DEF Harmless, Crash, Fresh
<1>3. CASE UNCHANGED vars
  BY <1>3 DEF Harmless, vars, Fresh, Same
<1> QED
  BY <1>1, <1>2, <1>3


LEMMA DecideFacts ==
    ASSUME NEW t \in Task, NEW a \in Approvals, NEW who \in Actors,
           decisions \in Nat, decisions < MaxDecisions
    PROVE  \E x \in Decision : /\ x.n = decisions + 1 /\ x.lease = 0
                               /\ Decide(t, a, who) = Append(t, x)
<1> DEFINE x == [n |-> decisions + 1, approval |-> a, who |-> who, lease |-> 0]
<1>1. x \in Decision /\ x.n = decisions + 1 /\ x.lease = 0
  BY LeaseAssumption DEF Decision, LeaseId
<1>2. Decide(t, a, who) = Append(t, x)
  BY DEF Decide
<1> HIDE DEF x
<1> QED
  BY <1>1, <1>2

LEMMA LoadIsLoad ==
    ASSUME TypeInv, NEW c \in Calls, Load(c) \/ LocalLoad(c)
    PROVE  LoadStep(c)
<1>d. /\ call \in [Calls -> Call] /\ call[c] \in Call /\ call[c].goal \in Approvals \cup {None}
      /\ call[c].who \in Actors /\ Sound(call[c]) /\ task \in Task /\ decisions \in Nat
  BY LeaseAssumption DEF TypeInv, TypeOK, Call
<1>u. /\ UNCHANGED <<task, token, issued, applied>> /\ Unseen /\ decisions' = decisions + 1
      /\ decisions < MaxDecisions
  BY DEF Load, LocalLoad
<1>1. ASSUME NEW a \in Approvals, NEW who \in Actors, NEW r \in Call, Become(c, r),
             r.copy = Decide(task, a, who), r.at \in Writing,
             r.sent \in {NoToken, call[c].sent},
             r.at = "save" => call[c].at = "load" /\ r.sent = call[c].sent
      PROVE  LoadStep(c)
  <2>1. call'[c] = r /\ \A d \in Calls \ {c} : call'[d] = call[d]
    BY <1>1, <1>d DEF Become
  <2>2. \E x \in Decision : /\ x.n = decisions + 1 /\ x.lease = 0
                            /\ r.copy = Append(task, x)
    BY <1>1, <1>d, <1>u, DecideFacts
  <2>3. Loads(c)
    BY <1>1, <1>u, <2>1, <2>2 DEF Loads, Unseen
  <2>4. \A d \in Calls \ {c} : Same(d)
    BY <1>u, <2>1 DEF Same, Unseen
  <2> QED
    BY <1>u, <2>3, <2>4 DEF LoadStep
<1>2. CASE Load(c)
  <2> DEFINE t == Decide(task, call[c].goal, call[c].who)
             r == [call[c] EXCEPT !.at = "save", !.copy = t]
  <2>1. Become(c, r) /\ call[c].at = "load"
    BY <1>2 DEF Load, At
  <2>2. call[c].goal \in Approvals /\ t \in Task
    BY <1>d, <1>u, <2>1, DecideType DEF Sound
  <2> HIDE DEF t
  <2>3. r \in Call /\ r.at = "save" /\ r.copy = t /\ r.sent = call[c].sent
    BY <1>d, <2>2 DEF Call, Steps
  <2> HIDE DEF r
  <2> QED
    BY <1>1, <1>d, <2>1, <2>2, <2>3 DEF t, Writing
<1>3. CASE LocalLoad(c)
  <2>1. PICK a \in Approvals :
          Become(c, [NoCall EXCEPT !.at = "local_save", !.copy = Decide(task, a, Local)])
    BY <1>3 DEF LocalLoad
  <2> DEFINE t == Decide(task, a, Local)
             r == [NoCall EXCEPT !.at = "local_save", !.copy = t]
  <2>2. t \in Task /\ Local \in Actors
    BY <1>d, <1>u, DecideType DEF Actors
  <2>3. Become(c, r)
    BY <2>1
  <2> HIDE DEF t
  <2>4. r \in Call /\ r.at = "local_save" /\ r.copy = t /\ r.sent = NoToken
    BY <2>2, NoCallType DEF Call, Steps
  <2> HIDE DEF r
  <2> QED
    BY <1>1, <2>2, <2>3, <2>4 DEF t, Writing
<1> QED
  BY <1>2, <1>3

\* What Overtake does to a call other than the one that writes.
LEMMA OvertakeIs ==
    ASSUME TypeInv, NEW c \in Calls, NEW t, NEW n, Overtake(c, t, n),
           NEW d \in Calls \ {c}, call'[d] = call[d]
    PROVE  Overtaken(d, t, n)
BY DEF Overtake, Overtaken, Holding

LEMMA SaveIsSave ==
    ASSUME TypeInv, NEW c \in Calls, Save(c) \/ LocalSave(c)
    PROVE  SaveStep(c)
<1>d. call \in [Calls -> Call] /\ call[c] \in Call
  BY DEF TypeInv, TypeOK
<1>u. /\ task' = call[c].copy /\ applied' = applied \cup {Made(c)}
      /\ Overtake(c, call[c].copy, {Made(c).n})
      /\ decisions' = decisions /\ issued' = issued /\ token' = token
      /\ call[c].at \in Writing
  BY DEF Save, LocalSave, At, Writing
<1>o. ASSUME \A d \in Calls \ {c} : call'[d] = call[d]
      PROVE  \A d \in Calls \ {c} : Overtaken(d, call[c].copy, {Made(c).n})
  BY <1>o, <1>u, OvertakeIs
<1>1. CASE Save(c)
  <2> DEFINE r == [call[c] EXCEPT !.at = "mark"]
  <2>1. Become(c, r)
    BY <1>1 DEF Save, Go
  <2>2. r.at = "mark" /\ r.copy = call[c].copy /\ r.sent = call[c].sent
    BY <1>d DEF Call
  <2> HIDE DEF r
  <2>3. call'[c] = r /\ \A d \in Calls \ {c} : call'[d] = call[d]
    BY <1>d, <2>1 DEF Become
  <2> QED
    BY <1>o, <1>u, <2>2, <2>3 DEF SaveStep
<1>2. CASE LocalSave(c)
  <2>1. Become(c, NoCall)
    BY <1>2 DEF LocalSave, End
  <2>2. call'[c] = NoCall /\ \A d \in Calls \ {c} : call'[d] = call[d]
    BY <1>d, <2>1 DEF Become
  <2> QED
    BY <1>o, <1>u, <2>2, NoCallType DEF SaveStep
<1> QED
  BY <1>1, <1>2

LEMMA MarkIsMark ==
    ASSUME TypeInv, NEW c \in Calls, Mark(c)
    PROVE  MarkStep(c)
<1>d. call \in [Calls -> Call] /\ call[c] \in Call
  BY DEF TypeInv, TypeOK
<1> DEFINE r == [NoCall EXCEPT !.at = "consume", !.sent = call[c].sent]
<1>1. Become(c, r)
  BY DEF Mark
<1>2. r.at = "consume" /\ r.sent = call[c].sent
  BY NoCallType DEF Call
<1> HIDE DEF r
<1>3. call'[c] = r /\ \A d \in Calls \ {c} : call'[d] = call[d]
  BY <1>d, <1>1 DEF Become
<1> DEFINE marked == [call[c].copy EXCEPT ![Len(call[c].copy)] = Made(c)]
<1>4. /\ call[c].at = "mark" /\ task' = marked /\ Overtake(c, marked, {})
      /\ UNCHANGED <<applied, decisions, issued, token>>
  BY DEF Mark, At
<1> HIDE DEF marked
<1>5. \A d \in Calls \ {c} : Overtaken(d, task', {})
  BY <1>3, <1>4, OvertakeIs
<1> QED
  BY <1>2, <1>3, <1>4, <1>5 DEF MarkStep, marked

(***************************************************************************)
(* The theorems                                                            *)
(***************************************************************************)

LEMMA InitInv == Init => TypeInv /\ Inv
<1> SUFFICES ASSUME Init PROVE Inv
  BY InitTypeInv
<1>1. /\ \A c \in Calls : call[c].at = "idle" /\ call[c].sent = NoToken
      /\ \A w \in Clients : token[w] = NoToken
      /\ task = Undecided /\ applied = {} /\ issued = 0
  BY NoCallType DEF Init
<1>2. NoToken.base = Undecided /\ NoToken.id = 0
  BY DEF NoToken
<1>3. \A b \in Etags : b = Undecided
  BY <1>1, <1>2 DEF Etags, Acquiring
<1>4. EtagInv
  BY <1>1, <1>3, EntriesOfUndecided DEF EtagInv, EtagOK, Known
<1>5. CopyInv
  BY <1>1 DEF CopyInv, CopyOK, CopiesApart, Writing, Holding
<1>6. AppliedInv /\ RivalInv /\ MissedInv
  BY <1>1 DEF AppliedInv, RivalInv, MissedInv
<1>7. PaidInv
  BY <1>1, <1>2 DEF PaidInv, Spent
<1> QED
  BY <1>4, <1>5, <1>6, <1>7 DEF Inv

LEMMA StepInv == TypeInv /\ Inv /\ [Next]_vars => TypeInv' /\ Inv'
<1> SUFFICES ASSUME TypeInv, Inv, [Next]_vars PROVE Inv'
  BY StepTypeInv
<1>1. ASSUME NEW c \in Calls, Load(c) \/ LocalLoad(c) PROVE Inv'
  BY <1>1, LoadIsLoad, LoadKeeps
<1>2. ASSUME NEW c \in Calls, Save(c) \/ LocalSave(c) PROVE Inv'
  BY <1>2, SaveIsSave, SaveKeeps
<1>3. ASSUME NEW c \in Calls, Mark(c) PROVE Inv'
  BY <1>3, MarkIsMark, MarkKeeps
<1>4. ASSUME NEW c \in Calls, AcquireWrite(c) \/ CrashAfterWrite(c) PROVE Inv'
  BY <1>4, Issues, HarmlessKeeps
<1>5. CASE Tick \/ (\E c \in Calls : Crash(c)) \/ UNCHANGED vars
  BY <1>5, TicksAndCrashes, HarmlessKeeps
<1>6. ASSUME NEW c \in Calls,
             \/ AcquireEtag(c) \/ AcquireGet(c) \/ AcquireExpire(c) \/ Get(c) \/ GetExpire(c)
             \/ Validate(c) \/ Reject(c) \/ CheckEtag(c) \/ RenewRead(c) \/ RenewWrite(c)
             \/ Consume(c) \/ ConsumeWrite(c) \/ Release(c) \/ ReleaseWrite(c)
      PROVE  Inv'
  BY <1>6, ReadsAndLeases, HarmlessKeeps
<1> QED
  BY <1>1, <1>2, <1>3, <1>4, <1>5, <1>6 DEF Next, Proceed

\* What the three theorems below rest on.
THEOREM Invariant == Spec => [](TypeInv /\ Inv)
<1> QED
  BY InitInv, StepInv, PTL DEF Spec


LEMMA RecordedIs ==
    ASSUME NEW d PROVE Recorded(d) <=> Within(d, Entries(task))
BY DEF Recorded, Within, Entries, Bare

LEMMA StepKeeps ==
    ASSUME TypeInv, Inv, [Next]_vars, NEW d \in applied, Recorded(d)
    PROVE  Recorded(d)' \/ \E c \in Calls : Writes(c) /\ d.n \in missed[c]
<1>w. Within(d, Entries(task))
  BY RecordedIs
<1>1. CASE task' = task
  BY <1>1 DEF Recorded
<1>2. ASSUME NEW c \in Calls, SaveStep(c)
      PROVE  Recorded(d)' \/ (Writes(c) /\ d.n \in missed[c])
  <2>1. /\ task' = call[c].copy /\ call[c].at \in Holding /\ Writes(c)
    BY <1>2 DEF SaveStep, Writing, Holding, Writes
  <2>2. Within(d, Entries(call[c].copy)) \/ d.n \in missed[c]
    BY <1>w, <2>1 DEF Inv, MissedInv
  <2> QED
    BY <2>1, <2>2 DEF Recorded, Within, Entries, Bare
<1>3. ASSUME NEW c \in Calls, MarkStep(c)
      PROVE  Recorded(d)' \/ (Writes(c) /\ d.n \in missed[c])
  <2> DEFINE t == call[c].copy
             m == Made(c)
             u == [t EXCEPT ![Len(t)] = m]
  <2>1. /\ task' = u /\ call[c].at = "mark" /\ call[c].at \in Holding /\ Writes(c)
    BY <1>3 DEF MarkStep, Holding, Writes
  <2>2. Within(d, Entries(t)) \/ d.n \in missed[c]
    BY <1>w, <2>1 DEF Inv, MissedInv
  <2>3. /\ t \in Task /\ t # Undecided /\ m \in Decision /\ m.n = Latest(t).n /\ m \in applied
    BY <2>1, HoldingFacts DEF Inv, CopyInv, CopyOK
  <2>4. d \in Decision /\ Bare(d).n = d.n
    BY NumbersOf, BareFacts
  <2> HIDE DEF t, m
  <2>5. m \in Entries(u) /\ Entries(t) \ {Latest(t)} \subseteq Entries(u)
    BY <2>3, EntriesOfMark
  <2> HIDE DEF u
  <2>6. ASSUME Within(d, Entries(t)) PROVE Within(d, Entries(u))
    <3>1. CASE d.n = Latest(t).n
      <4>1. d = m
        BY <2>3, <3>1 DEF Inv, AppliedInv
      <4> QED
        BY <2>5, <4>1 DEF Within
    <3>2. CASE d.n # Latest(t).n
      BY <2>4, <2>5, <2>6, <3>2 DEF Within
    <3> QED
      BY <3>1, <3>2
  <2> QED
    BY <2>1, <2>2, <2>6 DEF Recorded, Within, Entries, Bare
<1>4. ASSUME Harmless PROVE task' = task
  BY <1>4 DEF Harmless
<1>5. ASSUME NEW c \in Calls, LoadStep(c) PROVE task' = task
  BY <1>5 DEF LoadStep
<1>6. ASSUME NEW c \in Calls,
             \/ AcquireEtag(c) \/ Get(c) \/ Validate(c) \/ Release(c) \/ LocalLoad(c)
             \/ Proceed(c) \/ CrashAfterWrite(c)
      PROVE  Harmless \/ LoadStep(c) \/ SaveStep(c) \/ MarkStep(c)
  BY <1>6, ReadsAndLeases, Issues, LoadIsLoad, SaveIsSave, MarkIsMark DEF Proceed
<1>7. Harmless \/ \E c \in Calls : LoadStep(c) \/ SaveStep(c) \/ MarkStep(c)
  BY <1>6, TicksAndCrashes DEF Next
<1> QED
  BY <1>1, <1>2, <1>3, <1>4, <1>5, <1>7

\* Whatever calls read, save and fail at the same time, a saved decision leaves
\* the history only to a save of a call that had loaded the task before it came
\* into the file (runtime/operational.py).
THEOREM DecisionsAreKept == Spec => NoLostUpdate
<1>1. ASSUME TypeInv, Inv, [Next]_vars
      PROVE  [\A d \in applied : Recorded(d) =>
                 Recorded(d)' \/ \E c \in Calls : Writes(c) /\ d.n \in missed[c]]_vars
  BY <1>1, StepKeeps
<1>2. TypeInv /\ Inv /\ [Next]_vars =>
        [\A d \in applied : Recorded(d) =>
                 Recorded(d)' \/ \E c \in Calls : Writes(c) /\ d.n \in missed[c]]_vars
  BY <1>1
<1> QED
  BY Invariant, <1>2, PTL DEF Spec, NoLostUpdate

\* Every decision in the history is one that was made, with no lease or the lease
\* it was made under, however many calls write at the same time
\* (_mark_latest_identity, runtime/operational.py).
THEOREM MarksStayTrue == Spec => []MarksAreTrue
<1>1. TypeInv /\ Inv => MarksAreTrue
  <2> SUFFICES ASSUME TypeInv, Inv PROVE MarksAreTrue
    OBVIOUS
  <2>1. Known(applied, Entries(task))
    BY DEF Inv, EtagInv, EtagOK, Etags
  <2> QED
    BY <2>1 DEF MarksAreTrue, Known, Entries, Bare
<1> QED
  BY Invariant, <1>1, PTL

\* A lease pays a second time only for a call that was past its etag check when
\* the first payment was saved (concurrency.py, runtime/operational.py).
THEOREM LeasePaysOnce == Spec => OneOperationPerLease
<1>1. TypeInv /\ Inv =>
        [\A c \in Calls : At(c, "save") /\ At(c, "mark")' =>
            \A d \in applied : d.lease = call[c].sent.id => d.n \in rivals[c]]_vars
  BY DEF Inv, RivalInv, At
<1> QED
  BY Invariant, <1>1, PTL DEF Spec, OneOperationPerLease

=============================================================================
