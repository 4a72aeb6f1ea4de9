----------------------------- MODULE TaskLease -----------------------------
(***************************************************************************)
(* Task leases (guif/concurrency.py) and the authenticated operations that *)
(* spend them (guif/runtime/operational.py, guif/host_api.py).             *)
(*                                                                         *)
(* A task and its lease are files; nothing locks them, and the gateway     *)
(* serves each call in a thread of its own (guif/host_gateway.py), so any  *)
(* calls may overlap, two of one actor with one token among them.  An      *)
(* operation validates the lease against the task's etag, changes and      *)
(* saves the task, and consumes the lease; each is a file access and a     *)
(* step of its own.  The operation here is decide_approval_authenticated;  *)
(* the host callback, the gated export and the git change go through the   *)
(* same validate, load, save, save, consume.                               *)
(***************************************************************************)
EXTENDS Naturals, Sequences

CONSTANTS
    Clients,     \* authenticated actors with a credential
    Calls,       \* the threads: as many calls as may run at once
    Approvals,   \* approvals of the one task
    TTL,         \* ttl_seconds of a lease, in ticks of the clock
    MaxLeases,   \* bound of the model: leases issued
    MaxCrashes,  \* bound of the model: calls that die half way
    MaxDecisions,\* bound of the model: decisions made
    Local,       \* the local command line, which needs no lease
    None

ASSUME LeaseAssumption ==
    /\ TTL \in Nat \ {0} /\ MaxLeases \in Nat /\ MaxCrashes \in Nat
    /\ MaxDecisions \in Nat
    /\ Local \notin Clients /\ None \notin Clients \cup Approvals \cup {Local}

VARIABLES
    task,      \* task.json: the history of the approval decisions
    lease,     \* task-lease.json
    call,      \* [Calls -> where the call is, who makes it, what it has read]
    token,     \* [Clients -> the last lease the client was given, and its etag]
    issued,    \* leases issued so far: lease ids are 1..issued
    crashes,   \* calls that died so far
    decisions, \* decisions made so far, saved or not: the next decided_at
    applied,   \* history: every decision saved, with the lease it was made under
    rivals,    \* history: [Calls -> decisions saved since the call's etag check]
    missed     \* history: [Calls -> decisions that came into the file since its load]

vars == <<task, lease, call, token, issued, crashes, decisions, applied, rivals, missed>>

Actors == Clients \cup {Local}
LeaseId == 0..MaxLeases
Decision == [n : 1..MaxDecisions, approval : Approvals, who : Actors, lease : LeaseId]
\* The record of an approval is the last entry of the history about it.
Task == Seq(Decision)
Undecided == <<>>

\* task_etag hashes the whole task: the etag is the task.
Etag == Task

LeaseStatus == {"unleased", "active", "expired", "released", "consumed"}
Lease == [id : LeaseId, owner : Clients \cup {None}, base : Etag,
          status : LeaseStatus, left : 0..TTL]
Unleased == [id |-> 0, owner |-> None, base |-> Undecided, status |-> "unleased", left |-> 0]
Token == [id : LeaseId, base : Etag]
NoToken == [id |-> 0, base |-> Undecided]

\* Where a call is: the file access that comes next.
Steps == {"idle", "acquire_get", "acquire_expire", "acquire_write",
          "get_expire", "reject", "check_etag", "load", "save", "mark",
          "consume", "consume_write", "renew", "renew_write", "release_write",
          "local_save"}
\* sent is the token and the etag of the request, rec and copy the lease and the
\* task the call has read, goal what it validates for: an approval, or None for
\* renew().
Call == [at : Steps, who : Actors, sent : Token, rec : Lease, copy : Task,
         goal : Approvals \cup {None}]
NoCall == [at |-> "idle", who |-> Local, sent |-> NoToken, rec |-> Unleased,
           copy |-> Undecided, goal |-> None]

At(c, step) == call[c].at = step
Become(c, r) == call' = [call EXCEPT ![c] = r]
Go(c, step) == Become(c, [call[c] EXCEPT !.at = step])
End(c) == Become(c, NoCall)

\* expires_at <= now
Due(rec) == rec.left = 0

\* _verify_token; the token of another lease, secret or actor has another id.
Holds(sent, rec) == sent.id # 0 /\ rec.id = sent.id
Usable(sent, rec) == Holds(sent, rec) /\ rec.status = "active" /\ ~Due(rec)

\* The decisions named in a history.
Named(t) == {t[i].n : i \in DOMAIN t}

\* c writes the task t: calls in the middle of an operation did not see it.
Overtake(c, t, saved) ==
    /\ rivals' = [d \in Calls |->
          IF d = c THEN {}
          ELSE IF call[d].at \in {"load", "save"} THEN rivals[d] \cup saved ELSE rivals[d]]
    /\ missed' = [d \in Calls |->
          IF d = c THEN IF At(c, "save") THEN missed[c] ELSE {}
          ELSE IF call[d].at \in {"save", "mark", "local_save"}
            THEN missed[d] \cup (Named(t) \ Named(task)) ELSE missed[d]]
Unseen == UNCHANGED <<rivals, missed>>

-----------------------------------------------------------------------------
(* acquire() and get() *)

AcquireEtag(c) ==
    /\ At(c, "idle") /\ issued < MaxLeases
    /\ \E who \in Clients :
          Become(c, [NoCall EXCEPT !.at = "acquire_get", !.who = who, !.copy = task])
    /\ UNCHANGED <<task, lease, token, issued, crashes, decisions, applied>> /\ Unseen

\* get() finds the lease expired, active, or neither.
AcquireGet(c) ==
    /\ At(c, "acquire_get")
    /\ IF lease.status # "active" THEN Go(c, "acquire_write")
       ELSE IF Due(lease)
         THEN Become(c, [call[c] EXCEPT !.at = "acquire_expire", !.rec = lease])
         ELSE End(c)
    /\ UNCHANGED <<task, lease, token, issued, crashes, decisions, applied>> /\ Unseen

AcquireExpire(c) ==
    /\ At(c, "acquire_expire")
    /\ lease' = [call[c].rec EXCEPT !.status = "expired"]
    /\ Become(c, [call[c] EXCEPT !.at = "acquire_write", !.rec = Unleased])
    /\ UNCHANGED <<task, token, issued, crashes, decisions, applied>> /\ Unseen

\* The lease that acquire() writes, with the etag it read first.
Issue(c) ==
    /\ At(c, "acquire_write") /\ issued < MaxLeases
    /\ issued' = issued + 1
    /\ lease' = [id |-> issued + 1, owner |-> call[c].who, base |-> call[c].copy,
                 status |-> "active", left |-> TTL]
    /\ End(c)
    /\ UNCHANGED <<task, decisions, applied>> /\ Unseen

AcquireWrite(c) ==
    /\ Issue(c)
    /\ token' = [token EXCEPT ![call[c].who] = [id |-> issued + 1, base |-> call[c].copy]]
    /\ UNCHANGED crashes

\* get() for anybody who asks: it writes when it finds the lease expired.
Get(c) ==
    /\ At(c, "idle") /\ lease.status = "active" /\ Due(lease)
    /\ Become(c, [NoCall EXCEPT !.at = "get_expire", !.rec = lease])
    /\ UNCHANGED <<task, lease, token, issued, crashes, decisions, applied>> /\ Unseen

GetExpire(c) ==
    /\ At(c, "get_expire")
    /\ lease' = [call[c].rec EXCEPT !.status = "expired"]
    /\ End(c)
    /\ UNCHANGED <<task, token, issued, crashes, decisions, applied>> /\ Unseen

-----------------------------------------------------------------------------
(* validate(), for an operation or for renew() *)

\* The record is read; a token it refuses is refused after it is written back.
Validate(c) ==
    /\ At(c, "idle") /\ lease.status # "unleased"
    /\ \E who \in Clients, goal \in Approvals \cup {None} :
          LET sent == token[who] IN
          IF Usable(sent, lease)
            THEN Become(c, [NoCall EXCEPT !.at = "check_etag", !.who = who, !.sent = sent,
                                          !.rec = lease, !.goal = goal])
            ELSE Become(c, [NoCall EXCEPT !.at = "reject",
                   !.rec = IF Holds(sent, lease) /\ lease.status = "active"
                             THEN [lease EXCEPT !.status = "expired"] ELSE lease])
    /\ UNCHANGED <<task, lease, token, issued, crashes, decisions, applied>> /\ Unseen

Reject(c) ==
    /\ At(c, "reject")
    /\ lease' = call[c].rec
    /\ End(c)
    /\ UNCHANGED <<task, token, issued, crashes, decisions, applied>> /\ Unseen

\* Mutant: the operation's etag is compared with the lease's only.
Unchanged_LeaseOnly(c) == call[c].rec.base = call[c].sent.base

\* The caller passes the etag it was given with the lease.
Unchanged(c) == call[c].rec.base = call[c].sent.base /\ task = call[c].sent.base

CheckEtag(c) ==
    /\ At(c, "check_etag")
    /\ IF ~Unchanged(c) THEN End(c)
       ELSE IF call[c].goal = None THEN Become(c, [NoCall EXCEPT !.at = "renew"])
       ELSE Become(c, [call[c] EXCEPT !.at = "load", !.rec = Unleased])
    /\ UNCHANGED <<task, lease, token, issued, crashes, decisions, applied>> /\ Unseen

\* renew() reads the record again and extends whatever it finds.
RenewRead(c) ==
    /\ At(c, "renew")
    /\ Become(c, [call[c] EXCEPT !.at = "renew_write", !.rec = lease])
    /\ UNCHANGED <<task, lease, token, issued, crashes, decisions, applied>> /\ Unseen

\* Mutant: the renewal adds to what is left instead of counting from now.
RenewWrite_Unbounded(c) ==
    /\ At(c, "renew_write")
    /\ lease' = [call[c].rec EXCEPT !.left = @ + TTL]
    /\ End(c)
    /\ UNCHANGED <<task, token, issued, crashes, decisions, applied>> /\ Unseen

RenewWrite(c) ==
    /\ At(c, "renew_write")
    /\ lease' = [call[c].rec EXCEPT !.left = TTL]
    /\ End(c)
    /\ UNCHANGED <<task, token, issued, crashes, decisions, applied>> /\ Unseen

-----------------------------------------------------------------------------
(* decide_approval_authenticated, after validate() *)

\* A decision replaces the record of its approval and joins the history.
Decide(t, a, who) ==
    Append(t, [n |-> decisions + 1, approval |-> a, who |-> who, lease |-> 0])

\* Mutant: the decision is made on the task that the etag was computed from.
Load_OfTheCheck(c) ==
    /\ At(c, "load") /\ decisions < MaxDecisions
    /\ Become(c, [call[c] EXCEPT !.at = "save",
                    !.copy = Decide(call[c].sent.base, call[c].goal, call[c].who)])
    /\ decisions' = decisions + 1
    /\ UNCHANGED <<task, lease, token, issued, crashes, applied>> /\ Unseen

Load(c) ==
    /\ At(c, "load") /\ decisions < MaxDecisions
    /\ Become(c, [call[c] EXCEPT !.at = "save",
                    !.copy = Decide(task, call[c].goal, call[c].who)])
    /\ decisions' = decisions + 1
    /\ UNCHANGED <<task, lease, token, issued, crashes, applied>> /\ Unseen

\* The decision the call made, as it will be marked.
Made(c) == [call[c].copy[Len(call[c].copy)] EXCEPT !.lease = call[c].sent.id]

Save(c) ==
    /\ At(c, "save")
    /\ task' = call[c].copy
    /\ applied' = applied \cup {Made(c)}
    /\ Go(c, "mark")
    /\ Overtake(c, call[c].copy, {Made(c).n})
    /\ UNCHANGED <<lease, token, issued, crashes, decisions>>

\* Mutant: the task is loaded again to mark the last decision of the approval.
Mark_Reloads(c) ==
    /\ At(c, "mark")
    /\ \E i \in DOMAIN task :
          /\ task[i].approval = call[c].goal
          /\ \A j \in DOMAIN task : task[j].approval = call[c].goal => j <= i
          /\ task' = [task EXCEPT ![i].lease = call[c].sent.id]
    /\ Go(c, "consume")
    /\ Overtake(c, task, {})
    /\ UNCHANGED <<lease, token, issued, crashes, decisions, applied>>

\* The copy is saved again with the lease: its history is searched from the end
\* for the approval.
Mark(c) ==
    /\ At(c, "mark")
    /\ LET marked == [call[c].copy EXCEPT ![Len(call[c].copy)] = Made(c)] IN
          task' = marked /\ Overtake(c, marked, {})
    /\ Become(c, [NoCall EXCEPT !.at = "consume", !.sent = call[c].sent])
    /\ UNCHANGED <<lease, token, issued, crashes, decisions, applied>>

\* consume() reads the record and verifies the token: a lease that expired
\* meanwhile makes the call fail after its work is saved.
Consume(c) ==
    /\ At(c, "consume")
    /\ IF Usable(call[c].sent, lease)
         THEN Become(c, [NoCall EXCEPT !.at = "consume_write", !.rec = lease])
         ELSE End(c)
    /\ UNCHANGED <<task, lease, token, issued, crashes, decisions, applied>> /\ Unseen

ConsumeWrite(c) ==
    /\ At(c, "consume_write")
    /\ lease' = [call[c].rec EXCEPT !.status = "consumed"]
    /\ End(c)
    /\ UNCHANGED <<task, token, issued, crashes, decisions, applied>> /\ Unseen

-----------------------------------------------------------------------------
(* release(), the clock, crashes and the local command line *)

\* A released or consumed lease is returned as it is.
Release(c) ==
    /\ At(c, "idle") /\ lease.status \notin {"released", "consumed"}
    /\ \E who \in Clients : Holds(token[who], lease)
    /\ Become(c, [NoCall EXCEPT !.at = "release_write", !.rec = lease])
    /\ UNCHANGED <<task, lease, token, issued, crashes, decisions, applied>> /\ Unseen

ReleaseWrite(c) ==
    /\ At(c, "release_write")
    /\ lease' = [call[c].rec EXCEPT !.status = "released"]
    /\ End(c)
    /\ UNCHANGED <<task, token, issued, crashes, decisions, applied>> /\ Unseen

\* Time passes for the file and for every copy of it.
Older(rec) == [rec EXCEPT !.left = IF @ > 0 THEN @ - 1 ELSE 0]
Tick ==
    /\ lease.left > 0
    /\ lease' = Older(lease)
    /\ call' = [c \in Calls |-> [call[c] EXCEPT !.rec = Older(@)]]
    /\ UNCHANGED <<task, token, issued, crashes, decisions, applied>> /\ Unseen

\* A call dies between two file accesses.
Crash(c) ==
    /\ ~At(c, "idle") /\ crashes < MaxCrashes
    /\ crashes' = crashes + 1
    /\ End(c)
    /\ rivals' = [rivals EXCEPT ![c] = {}] /\ missed' = [missed EXCEPT ![c] = {}]
    /\ UNCHANGED <<task, lease, token, issued, decisions, applied>>

\* acquire() dies after its write: the lease is active and nobody has the token.
CrashAfterWrite(c) ==
    /\ crashes < MaxCrashes
    /\ crashes' = crashes + 1
    /\ Issue(c)
    /\ UNCHANGED token

\* approve, reject or request_changes without a credential: load, decide, save.
LocalLoad(c) ==
    /\ At(c, "idle") /\ decisions < MaxDecisions
    /\ decisions' = decisions + 1
    /\ \E a \in Approvals :
          Become(c, [NoCall EXCEPT !.at = "local_save", !.copy = Decide(task, a, Local)])
    /\ UNCHANGED <<task, lease, token, issued, crashes, applied>> /\ Unseen

LocalSave(c) ==
    /\ At(c, "local_save")
    /\ task' = call[c].copy
    /\ applied' = applied \cup {Made(c)}
    /\ End(c)
    /\ Overtake(c, call[c].copy, {Made(c).n})
    /\ UNCHANGED <<lease, token, issued, crashes, decisions>>

Init ==
    /\ task = Undecided /\ lease = Unleased
    /\ call = [c \in Calls |-> NoCall]
    /\ token = [c \in Clients |-> NoToken]
    /\ issued = 0 /\ crashes = 0 /\ decisions = 0 /\ applied = {}
    /\ rivals = [c \in Calls |-> {}] /\ missed = [c \in Calls |-> {}]

\* The rest of a call that has begun.
Proceed(c) ==
    \/ AcquireGet(c) \/ AcquireExpire(c) \/ AcquireWrite(c) \/ GetExpire(c)
    \/ Reject(c) \/ CheckEtag(c) \/ RenewRead(c) \/ RenewWrite(c)
    \/ Load(c) \/ Save(c) \/ Mark(c) \/ Consume(c) \/ ConsumeWrite(c)
    \/ ReleaseWrite(c) \/ LocalSave(c)

Next ==
    \/ \E c \in Calls :
          \/ AcquireEtag(c) \/ Get(c) \/ Validate(c) \/ Release(c) \/ LocalLoad(c)
          \/ Proceed(c) \/ Crash(c) \/ CrashAfterWrite(c)
    \/ Tick

Spec == Init /\ [][Next]_vars

-----------------------------------------------------------------------------
(* Properties *)

\* The files and the calls in flight hold what the code writes into them; a
\* lease never has more than its ttl_seconds left.
TypeOK ==
    /\ task \in Task /\ lease \in Lease
    /\ call \in [Calls -> Call]
    /\ token \in [Clients -> Token]
    /\ issued \in LeaseId /\ crashes \in 0..MaxCrashes
    /\ decisions \in 0..MaxDecisions /\ applied \subseteq Decision
    /\ rivals \in [Calls -> SUBSET (1..MaxDecisions)]
    /\ missed \in [Calls -> SUBSET (1..MaxDecisions)]

Recorded(d) == \E i \in DOMAIN task : task[i] \in {d, [d EXCEPT !.lease = 0]}

\* c takes its next step, and it is a write of the task.
Writes(c) ==
    call[c].at \in {"save", "mark", "local_save"} /\ call'[c].at # call[c].at

\* A save takes a saved decision back only where it came into the file between
\* the load and the last save of the same call, of two calls that overlap: a call
\* keeps whatever was there when its etag was checked, or it loaded after it.
NoLostUpdate ==
    [][\A d \in applied : Recorded(d) =>
          Recorded(d)' \/ \E c \in Calls : Writes(c) /\ d.n \in missed[c]]_vars

\* "Exclusive, expiring Task leases": one call at a time is between its
\* validate() and its consume().
InOperation(c) == call[c].at \in {"load", "save", "mark", "consume"}
Exclusive == \A c, d \in Calls : InOperation(c) /\ InOperation(d) => c = d

\* A lease pays once, though consume() comes after the save and may fail or never
\* run, though a stale write may make a spent lease active again and though it may
\* be renewed: a call saves under a lease that paid before only if it had passed
\* its etag check by then, which takes two calls at once.
OneOperationPerLease ==
    [][\A c \in Calls : At(c, "save") /\ At(c, "mark")' =>
          \A d \in applied : d.lease = call[c].sent.id => d.n \in rivals[c]]_vars

\* The history never credits a decision to a lease or an actor that did not
\* make it, whatever the calls that read and write it at the same time.
MarksAreTrue ==
    \A i \in DOMAIN task :
        \E d \in applied : task[i] \in {d, [d EXCEPT !.lease = 0]}

=============================================================================
