------------------------------ MODULE HostWork ------------------------------
(***************************************************************************)
(* Work for hosts: an image for every handoff that waits for a result, and *)
(* an inspection for every artifact that came of one (guif/host_work.py,   *)
(* runtime/host_loop.py), taken by loops in this process                   *)
(* (chatgpt_host_loop.py) and by clients of the gateway                    *)
(* (host_loop_gateway.py), whose results arrive as authenticated callbacks *)
(* (host_api.py) under credentials that are rotated (auth.py).             *)
(*                                                                         *)
(* Two things protect an answer: the claim of the work item and the lease  *)
(* of the task.  Both expire.  The clock is abstract: an expired claim is  *)
(* an available item, an expired lease is no lease, for whoever looks next. *)
(* A secret token is worth what it is compared with: a host's claim or     *)
(* lease is the one that names the host.                                   *)
(*                                                                         *)
(* Whatever changes the task loads it, works on its copy and saves the     *)
(* whole of it; loads and saves are steps of their own.  A review that is  *)
(* only prepared, and the executor that asks for a result, save without a  *)
(* lease.                                                                  *)
(***************************************************************************)
EXTENDS Naturals, Sequences, FiniteSets

CONSTANTS
    Handoffs,    \* results that are asked for, each an artifact in the end
    Hosts,       \* who does the work, one item at a time
    Clients,     \* those of them that speak to the gateway
    MaxTroubles, \* bound of the model: processes that die, claims and leases
                 \* that expire in use, rotations, races for a claim,
                 \* inspections asked for, runs that fail
    HandOffCost, \* bound of the model: what any handoff but the first takes of it
    None

ASSUME HostAssumption ==
    /\ Clients \subseteq Hosts /\ None \notin Hosts \cup Handoffs
    /\ \A s \in {"none", "available", "completed"} : s \notin Hosts
    /\ MaxTroubles \in Nat /\ HandOffCost \in Nat

Image(h) == <<"image", h>>
Visual(h) == <<"visual", h>>
Items == {Image(h) : h \in Handoffs} \cup {Visual(h) : h \in Handoffs}
IsImage(i) == i[1] = "image"

VARIABLES
    task,        \* task.json
    lease,       \* the host that has the active lease of the task
    work,        \* [Items -> the file of the work item]
    host,        \* [Hosts -> what the host is doing]
    cred,        \* [Hosts -> its credential]
    stale,       \* hosts whose task etag is no longer the current one
    giving,      \* the handoff and the copy of the executor at work, if any
    budget,      \* how much of the model's bound is left
    answers,     \* history: how many results were accepted for an item
    excused,     \* history: items that may be answered again
    cut,         \* history: handoffs whose answer was not followed up by its
                 \* own call, or was written over by another
    lost,        \* history: handoffs whose result an older copy of the task
                 \* has taken back
    late         \* history: results that are in the task by a save that was
                 \* not made under the lease

vars == <<task, lease, work, host, cred, stale, giving, budget,
          answers, excused, cut, lost, late>>

(***************************************************************************)
(* The task, the work items and the hosts                                  *)
(***************************************************************************)

\* hand: the handoffs; qa: the artifacts and their reviews; plans: artifacts
\* with a revision plan; jobs: with a revision job; last: the newest artifact.
Task == [hand : [Handoffs -> {"none", "waiting", "completed"}],
         qa : [Handoffs -> {"none", "unseen", "not-run", "passed", "flawed"}],
         plans : SUBSET Handoffs, jobs : SUBSET Handoffs, last : Handoffs \cup {None}]

Work == {"none", "available", "completed"} \cup Hosts

Host == [pc : {"idle", "etag", "lease", "claim", "save", "attach", "run", "answer",
               "submit", "accept", "store", "callback", "consume", "prepare", "review",
               "reviewed", "look", "make", "done", "mark", "inspect", "inspected",
               "passed", "flawed", "revise", "revised", "fail"},
         item : Items \cup {None}, claim : BOOLEAN, leased : {"no", "held", "over"},
         visual : Handoffs \cup {None}, copy : Task \cup {None}]

\* None is neither a work item nor a task.
ASSUME NoneAssumption == None \notin Items /\ None \notin Task

Idle == [pc |-> "idle", item |-> None, claim |-> FALSE, leased |-> "no",
         visual |-> None, copy |-> None]

At(c, pc) == host[c].pc = pc
Item(c) == host[c].item
About(c) == Item(c)[2]
Moves(c, pc) == host' = [host EXCEPT ![c].pc = pc]

\* A loop ends when its call does, and the next one is given a new credential.
Return(c) == /\ host' = [host EXCEPT ![c] = Idle]
             /\ cred' = [cred EXCEPT ![c] = IF @ = "replaced" THEN "active" ELSE @]

\* A host has loaded the task, and what it will save is t.
Loads(c, t, pc) == host' = [host EXCEPT ![c].copy = t, ![c].pc = pc]

TakenBack(t) == {h \in Handoffs : task.hand[h] = "completed" /\ t.hand[h] # "completed"}
Brought(t) == {h \in Handoffs : task.hand[h] # "completed" /\ t.hand[h] = "completed"}
Row(t, h) == <<t.hand[h], t.qa[h], h \in t.plans, h \in t.jobs>>

\* A copy is saved over whatever others have saved since it was loaded.
Save(t, leased) ==
    /\ task' = t
    /\ lost' = lost \cup TakenBack(t)
    /\ late' = IF leased THEN late \ (TakenBack(t) \cup Brought(t))
                          ELSE (late \ TakenBack(t)) \cup Brought(t)
    /\ excused' = excused \cup {Image(h) : h \in TakenBack(t)}

\* What the save undoes of others' work: own is what the copy was changed for.
Overwritten(t, own) == {h \in Handoffs \ {own} : Row(t, h) # Row(task, h)}

Trouble == budget > 0 /\ budget' = budget - 1

History == <<answers, excused, cut, lost, late>>
Same == UNCHANGED <<giving, budget, History>>

(***************************************************************************)
(* Credentials and leases, as far as a host sees them                      *)
(***************************************************************************)

\* The bearer token that a host started with.
Authentic(c) == cred[c] = "active"

\* TaskLeaseService.validate: the lease is the host's and the task unchanged.
Leased(c) == lease = c /\ c \notin stale

\* rotate: the credential is revoked before there is another one.
Revoke(c) ==
    /\ cred[c] = "active" /\ Trouble
    /\ cred' = [cred EXCEPT ![c] = "revoked"]
    /\ UNCHANGED <<task, lease, work, host, stale, giving>> /\ UNCHANGED History

Register(c) ==
    /\ cred[c] = "revoked"
    /\ cred' = [cred EXCEPT ![c] = IF At(c, "idle") THEN "active" ELSE "replaced"]
    /\ UNCHANGED <<task, lease, work, host, stale>> /\ Same

(***************************************************************************)
(* Taking work                                                             *)
(***************************************************************************)

\* _sync_handoffs
Synced ==
    [i \in Items |->
        IF ~IsImage(i) THEN work[i]
        ELSE CASE task.hand[i[2]] = "completed" /\ work[i] # "none" -> "completed"
               [] task.hand[i[2]] = "waiting" /\ work[i] = "none" -> "available"
               [] OTHER -> work[i]]

\* list: the handoffs are synchronised, and the host takes an item of those
\* that are available.  A loop then wants the lease, a client the claim.
Pick(c) ==
    /\ At(c, "idle") /\ cred[c] = "active"
    /\ \E i \in Items :
          /\ Synced[i] = "available"
          /\ work' = Synced
          /\ host' = [host EXCEPT ![c] = [Idle EXCEPT !.item = i,
                          !.pc = IF c \in Clients THEN "claim" ELSE "etag"]]
    /\ UNCHANGED <<task, lease, cred, stale>> /\ Same

Etag(c) ==
    /\ At(c, "etag")
    /\ stale' = stale \ {c}
    /\ Moves(c, "lease")
    /\ UNCHANGED <<task, lease, work, cred>> /\ Same

\* Mutant: a client asks again with the etag it has.
Lease_SameEtag(c) ==
    /\ At(c, "lease")
    /\ \/ /\ Authentic(c) /\ lease = None /\ c \notin stale
          /\ lease' = c
          /\ host' = [host EXCEPT ![c].leased = "held",
                                  ![c].pc = IF c \in Clients THEN "answer" ELSE "claim"]
          /\ UNCHANGED cred
       \/ /\ ~Authentic(c) \/ (c \notin Clients /\ (lease # None \/ c \in stale))
          /\ Return(c)
          /\ UNCHANGED lease
    /\ UNCHANGED <<task, work, stale>> /\ Same

\* Mutant: an active lease is taken over.
Lease_TakesOver(c) ==
    /\ At(c, "lease")
    /\ \/ /\ Authentic(c) /\ c \notin stale
          /\ lease' = c
          /\ host' = [host EXCEPT ![c].leased = "held",
                                  ![c].pc = IF c \in Clients THEN "answer" ELSE "claim"]
          /\ UNCHANGED cred
       \/ /\ ~Authentic(c) \/ (c \notin Clients /\ c \in stale)
          /\ Return(c)
          /\ UNCHANGED lease
       \/ /\ c \in Clients /\ c \in stale
          /\ Moves(c, "etag")
          /\ UNCHANGED <<lease, cred>>
    /\ UNCHANGED <<task, work, stale>> /\ Same

\* acquire: a loop gives up when it cannot have the lease, a client asks again,
\* with a new etag when the task has changed.
Lease(c) ==
    /\ At(c, "lease")
    /\ \/ /\ Authentic(c) /\ lease = None /\ c \notin stale
          /\ lease' = c
          /\ host' = [host EXCEPT ![c].leased = "held",
                                  ![c].pc = IF c \in Clients THEN "answer" ELSE "claim"]
          /\ UNCHANGED cred
       \/ /\ ~Authentic(c) \/ (c \notin Clients /\ (lease # None \/ c \in stale))
          /\ Return(c)
          /\ UNCHANGED lease
       \/ /\ c \in Clients /\ c \in stale
          /\ Moves(c, "etag")
          /\ UNCHANGED <<lease, cred>>
    /\ UNCHANGED <<task, work, stale>> /\ Same

Claimable(i) == work[i] = "available"

\* claim loads the item; it is saved in a step of its own.  That another host
\* has loaded it too is one of the troubles that are bounded.
Claim(c) ==
    /\ At(c, "claim")
    /\ IF \E d \in Hosts : At(d, "save") /\ Item(d) = Item(c)
       THEN Trouble ELSE UNCHANGED budget
    /\ Moves(c, IF Authentic(c) /\ Claimable(Item(c)) THEN "save" ELSE "fail")
    /\ UNCHANGED <<task, lease, work, cred, stale, giving>> /\ UNCHANGED History

\* An inspection whose item is completed can be made again.
Reopens(i) == IF work[i] = "completed" /\ ~IsImage(i) THEN {i} ELSE {}

SaveClaim(c) ==
    /\ At(c, "save")
    /\ work' = [work EXCEPT ![Item(c)] = c]
    /\ host' = [host EXCEPT ![c].pc = "attach", ![c].claim = TRUE]
    /\ excused' = excused \cup Reopens(Item(c))
    /\ UNCHANGED <<task, lease, cred, stale, giving, budget, answers, cut, lost, late>>

\* Mutant: whose claim it is does not matter.
Claimed_Any(c) == work[Item(c)] # "available"

\* validate_claim
Claimed(c) == work[Item(c)] = c

\* The attachments need the claim; the loop has not yet entered the try block
\* that would release its lease.
Attach(c) ==
    /\ At(c, "attach")
    /\ IF Authentic(c) /\ Claimed(c) THEN Moves(c, "run") /\ UNCHANGED cred ELSE Return(c)
    /\ UNCHANGED <<task, lease, work, stale>> /\ Same

Run(c) ==
    /\ At(c, "run")
    /\ Moves(c, IF c \in Clients THEN "etag" ELSE "answer")
    /\ UNCHANGED <<task, lease, work, cred, stale>> /\ Same

RunFails(c) ==
    /\ At(c, "run") /\ Trouble
    /\ Moves(c, "fail")
    /\ UNCHANGED <<task, lease, work, cred, stale, giving>> /\ UNCHANGED History

\* What is left of a call that raised: the loop releases the lease if it can,
\* the claim stays until it expires.
Fail(c) ==
    /\ At(c, "fail")
    /\ lease' = IF lease = c /\ c \notin Clients /\ Authentic(c) THEN None ELSE lease
    /\ Return(c)
    /\ UNCHANGED <<task, work, stale>> /\ Same

(***************************************************************************)
(* Answering                                                               *)
(***************************************************************************)

\* Another answer of the item has come that far, and its lease expired since.
Overdue(i, pcs) == \E d \in Hosts : Item(d) = i /\ host[d].leased = "over" /\ host[d].pc \in pcs
Twice(i, pcs) == IF Overdue(i, pcs) THEN {i} ELSE {}

\* complete_host_image_work and complete_host_visual_work begin with the claim.
\* The gateway gets the item first, which synchronises the handoffs: the result
\* of a completed one is refused, sent again or not.
Answer(c) ==
    LET refused == /\ c \in Clients /\ IsImage(Item(c))
                   /\ task.hand[About(c)] = "completed" IN
    /\ At(c, "answer")
    /\ work' = IF c \in Clients THEN Synced ELSE work
    /\ IF ~Authentic(c) \/ refused \/ ~Claimed(c) THEN Moves(c, "fail") /\ UNCHANGED excused
       ELSE Moves(c, "submit") /\ excused' = excused \cup Twice(Item(c), {"passed", "flawed"})
    /\ UNCHANGED <<task, lease, cred, stale, giving, budget, answers, cut, lost, late>>

\* submit_result, or complete_host_visual_work: what must hold for a result that
\* was not accepted before.
Accepts(c) ==
    /\ Leased(c)
    /\ IsImage(Item(c)) => Authentic(c) /\ task.hand[About(c)] = "waiting"

\* The check.  What it lets in is recorded later, whatever expires meanwhile.
Submit(c) ==
    /\ At(c, "submit")
    /\ IF ~Accepts(c) THEN Moves(c, "fail") /\ UNCHANGED excused
       ELSE /\ Moves(c, IF IsImage(Item(c)) THEN "accept" ELSE "inspect")
            /\ excused' = excused \cup
                  Twice(Item(c), {"accept", "store", "inspect", "inspected"})
    /\ UNCHANGED <<task, lease, work, cred, stale, giving, budget, answers, cut, lost, late>>

\* submit_tool_result loads the task and looks at the handoff again.
Accept(c) ==
    LET h == About(c) IN
    /\ At(c, "accept")
    /\ IF task.hand[h] # "waiting" THEN Moves(c, "fail")
       ELSE Loads(c, [task EXCEPT !.hand[h] = "completed", !.qa[h] = "unseen", !.last = h], "store")
    /\ UNCHANGED <<task, lease, work, cred, stale>> /\ Same

Count(i) == [answers EXCEPT ![i] = IF @ < 2 THEN @ + 1 ELSE @]

\* A host saves its copy: instead is what it undoes of the host's own handoff.
Saves(c, own, instead) ==
    /\ Save(host[c].copy, host[c].leased = "held")
    /\ cut' = cut \cup Overwritten(host[c].copy, own) \cup (IF instead THEN {own} ELSE {})
    /\ UNCHANGED <<lease, work, cred, giving, budget>>

\* The saved copy stays with the callback.  A save that adds a record, as all
\* but that of a revision job do, gives the task another etag.
Store(c) ==
    /\ At(c, "store")
    /\ Saves(c, About(c), task.hand[About(c)] # "waiting")
    /\ answers' = Count(Item(c)) /\ stale' = Hosts
    /\ Moves(c, "callback")

\* The callback is recorded in that copy, and the copy saved again.
Callback(c) ==
    /\ At(c, "callback")
    /\ Saves(c, About(c), Row(host[c].copy, About(c)) # Row(task, About(c)))
    /\ Loads(c, None, "consume")
    /\ stale' = Hosts /\ UNCHANGED answers

\* consume: a lease that has expired meanwhile raises.
Consume(c) ==
    /\ At(c, "consume")
    /\ IF lease # c
       THEN /\ Moves(c, "fail")
            /\ cut' = IF IsImage(Item(c)) THEN cut \cup {About(c)} ELSE cut
            /\ UNCHANGED <<lease, cred>>
       ELSE /\ lease' = None
            /\ IF IsImage(Item(c))
               THEN /\ host' = [host EXCEPT ![c].pc = "prepare", ![c].leased = "over"]
                    /\ UNCHANGED cred
               ELSE Return(c)
            /\ UNCHANGED cut
    /\ UNCHANGED <<task, work, stale, giving, budget, answers, excused, lost, late>>

(***************************************************************************)
(* Inspections                                                             *)
(***************************************************************************)

\* prepare_latest_visual_inspection: the newest artifact, whichever that is by
\* now, or none.
Prepare(c) ==
    /\ At(c, "prepare")
    /\ host' = [host EXCEPT ![c].pc = IF task.last = None THEN "mark" ELSE "review",
                            ![c].visual = task.last]
    /\ cut' = IF task.last = About(c) THEN cut ELSE cut \cup {About(c)}
    /\ UNCHANGED <<task, lease, work, cred, stale, giving, budget, answers, excused, lost, late>>

\* prepare_visual_inspection_work, for any artifact.
PrepareWork(c, h) ==
    /\ At(c, "idle") /\ task.qa[h] # "none" /\ Trouble
    /\ host' = [host EXCEPT ![c] = [Idle EXCEPT !.pc = "review", !.visual = h]]
    /\ UNCHANGED <<task, lease, work, cred, stale, giving>> /\ UNCHANGED History

\* review without an inspector: it loads the task, ...
Review(c) ==
    LET h == host[c].visual IN
    /\ At(c, "review")
    /\ IF task.qa[h] = "none" THEN Moves(c, "fail")
       ELSE Loads(c, [task EXCEPT !.qa[h] = "not-run"], "reviewed")
    /\ UNCHANGED <<task, lease, work, cred, stale>> /\ Same

Judged(h) == task.qa[h] \in {"passed", "flawed"}

\* ... looks at the file, and saves its copy with the review in it.
Reviewed(c) ==
    /\ At(c, "reviewed")
    /\ Saves(c, host[c].visual, Judged(host[c].visual))
    /\ Loads(c, None, "look")
    /\ stale' = Hosts /\ UNCHANGED answers

AfterPrepare(c) == IF Item(c) = None THEN "done" ELSE "mark"

\* The review is looked up again; an item that exists stays as it is.
Look(c) ==
    /\ At(c, "look")
    /\ Moves(c, CASE task.qa[host[c].visual] = "none" -> "fail"
                  [] /\ task.qa[host[c].visual] = "not-run"
                     /\ work[Visual(host[c].visual)] = "none" -> "make"
                  [] OTHER -> AfterPrepare(c))
    /\ UNCHANGED <<task, lease, work, cred, stale>> /\ Same

\* The new item is saved over whatever another preparation has made of it.
Make(c) ==
    LET i == Visual(host[c].visual) IN
    /\ At(c, "make")
    /\ work' = [work EXCEPT ![i] = "available"]
    /\ excused' = excused \cup Reopens(i)
    /\ Moves(c, AfterPrepare(c))
    /\ UNCHANGED <<task, lease, cred, stale, giving, budget, answers, cut, lost, late>>

Done(c) ==
    /\ At(c, "done")
    /\ Return(c)
    /\ UNCHANGED <<task, lease, work, stale>> /\ Same

\* mark_completed does not look at the claim again.
Mark(c) ==
    /\ At(c, "mark")
    /\ work' = [work EXCEPT ![Item(c)] = "completed"]
    /\ Return(c)
    /\ UNCHANGED <<task, lease, stale>> /\ Same

\* complete_visual: the review with the submitted verdict, the item, the
\* revision job, one after the other.  Findings come with a revision plan.
Inspect(c) ==
    LET h == About(c) IN
    /\ At(c, "inspect")
    /\ \/ task.qa[h] = "none" /\ Moves(c, "fail")
       \/ /\ task.qa[h] # "none"
          /\ \/ Loads(c, [task EXCEPT !.qa[h] = "passed"], "inspected")
             \/ Loads(c, [task EXCEPT !.qa[h] = "flawed", !.plans = @ \cup {h}], "inspected")
    /\ UNCHANGED <<task, lease, work, cred, stale>> /\ Same

Inspected(c) ==
    /\ At(c, "inspected")
    /\ Saves(c, About(c), FALSE)
    /\ answers' = Count(Item(c)) /\ stale' = Hosts
    /\ Loads(c, None, host[c].copy.qa[About(c)])

\* The item is completed first; the verdict in hand decides about the job.
MarkInspected(c) ==
    /\ At(c, "passed") \/ At(c, "flawed")
    /\ work' = [work EXCEPT ![Item(c)] = "completed"]
    /\ Moves(c, IF At(c, "flawed") THEN "revise" ELSE "consume")
    /\ UNCHANGED <<task, lease, cred, stale>> /\ Same


\* create_revision_job: a plan that another's save has undone is unknown.
Revise(c) ==
    /\ At(c, "revise")
    /\ IF About(c) \notin task.plans THEN Moves(c, "fail")
       ELSE Loads(c, [task EXCEPT !.jobs = @ \cup {About(c)}], "revised")
    /\ UNCHANGED <<task, lease, work, cred, stale>> /\ Same

\* A job that existed changes nothing: the task keeps its etag.  (That such a
\* copy, when it is older, brings an old etag back is left out.)
Revised(c) ==
    /\ At(c, "revised")
    /\ Saves(c, About(c), FALSE)
    /\ stale' = IF host[c].copy = task THEN stale ELSE Hosts
    /\ Loads(c, None, "consume")
    /\ UNCHANGED answers

(***************************************************************************)
(* The surroundings                                                        *)
(***************************************************************************)

\* ToolExecutionService loads the task: one handoff waits at a time.  One that
\* an older copy took back is given out again.  Bound of the model: one executor
\* at a time.
HandOff(h) ==
    /\ giving = None
    /\ task.hand[h] = "none" /\ \A g \in Handoffs : task.hand[g] # "waiting"
    /\ IF \A g \in Handoffs : task.hand[g] = "none" THEN UNCHANGED budget
       ELSE budget >= HandOffCost /\ budget' = budget - HandOffCost
    /\ giving' = [hand |-> h, copy |-> [task EXCEPT !.hand[h] = "waiting"]]
    /\ UNCHANGED <<task, lease, work, host, cred, stale>> /\ UNCHANGED History

\* The handoff is prepared, and its copy of the task saved.
HandedOff ==
    /\ giving # None
    /\ Save(giving.copy, FALSE)
    /\ cut' = cut \cup Overwritten(giving.copy, giving.hand)
    /\ giving' = None /\ stale' = Hosts
    /\ UNCHANGED <<lease, work, host, cred, budget, answers>>

Working(c) == ~At(c, "idle")

\* A claim or a lease expires: of a call that is gone, or of one that is slow.
ClaimExpires(i) ==
    /\ work[i] \in Hosts
    /\ LET c == work[i] IN IF Item(c) = i /\ host[c].claim THEN Trouble ELSE UNCHANGED budget
    /\ work' = [work EXCEPT ![i] = "available"]
    /\ UNCHANGED <<task, lease, host, cred, stale, giving>> /\ UNCHANGED History

LeaseExpires ==
    /\ lease # None
    /\ IF host[lease].leased = "held"
       THEN Trouble /\ host' = [host EXCEPT ![lease].leased = "over"]
       ELSE UNCHANGED <<host, budget>>
    /\ lease' = None
    /\ UNCHANGED <<task, work, cred, stale, giving>> /\ UNCHANGED History

\* Mutant: what the dead process had in memory is still there.
Crash_Remembers(c) ==
    /\ Working(c) /\ Trouble
    /\ \/ Return(c)
       \/ /\ c \in Clients /\ host[c].claim /\ host[c].leased # "no"
          /\ Moves(c, "answer")
          /\ UNCHANGED cred
    /\ UNCHANGED <<task, lease, work, stale, giving>> /\ UNCHANGED History

\* The process dies: of the loop, or of the gateway, whose client still has
\* its tokens and sends its answer again.
Crash(c) ==
    /\ Working(c) /\ Trouble
    /\ \/ Return(c)
       \/ /\ c \in Clients /\ host[c].claim /\ host[c].leased # "no"
          /\ host' = [host EXCEPT ![c].pc = "answer", ![c].copy = None, ![c].visual = None]
          /\ UNCHANGED cred
    /\ cut' = IF Item(c) # None /\ host[c].pc \in
                    {"callback", "consume", "prepare", "review", "reviewed", "look", "make",
                     "passed", "flawed", "revise", "revised"}
              THEN cut \cup {About(c)} ELSE cut
    /\ excused' = IF host[c].pc \in {"passed", "flawed"} THEN excused \cup {Item(c)} ELSE excused
    /\ UNCHANGED <<task, lease, work, stale, giving, answers, lost, late>>

Init ==
    /\ task = [hand |-> [h \in Handoffs |-> "none"], qa |-> [h \in Handoffs |-> "none"],
               plans |-> {}, jobs |-> {}, last |-> None]
    /\ lease = None
    /\ work = [i \in Items |-> "none"]
    /\ host = [c \in Hosts |-> Idle]
    /\ cred = [c \in Hosts |-> "active"]
    /\ stale = Hosts /\ giving = None
    /\ budget = MaxTroubles
    /\ answers = [i \in Items |-> 0]
    /\ excused = {} /\ cut = {} /\ lost = {} /\ late = {}

\* What a host does by itself.
Step(c) ==
    \/ Pick(c) \/ Etag(c) \/ Lease(c) \/ Claim(c) \/ SaveClaim(c) \/ Attach(c)
    \/ Run(c) \/ RunFails(c) \/ Fail(c)
    \/ Answer(c) \/ Submit(c) \/ Accept(c) \/ Store(c) \/ Callback(c) \/ Consume(c)
    \/ Prepare(c) \/ Review(c) \/ Reviewed(c) \/ Look(c) \/ Make(c) \/ Done(c) \/ Mark(c)
    \/ Inspect(c) \/ Inspected(c) \/ MarkInspected(c) \/ Revise(c) \/ Revised(c)

Next ==
    \/ \E c \in Hosts : \/ Step(c) \/ Crash(c) \/ Revoke(c) \/ Register(c)
                        \/ \E h \in Handoffs : PrepareWork(c, h)
    \/ \E h \in Handoffs : HandOff(h)
    \/ HandedOff
    \/ \E i \in Items : ClaimExpires(i)
    \/ LeaseExpires

\* Hosts keep asking for work and carry on, an executor that is asked again
\* and again answers, a revoked credential is replaced, and clocks go on.
Fairness ==
    /\ \A c \in Hosts : /\ WF_vars(Step(c)) /\ SF_vars(Run(c)) /\ WF_vars(Register(c))
    /\ \A i \in Items : WF_vars(ClaimExpires(i))
    /\ WF_vars(LeaseExpires)

Spec == Init /\ [][Next]_vars /\ Fairness

(***************************************************************************)
(* Properties                                                              *)
(***************************************************************************)

\* The type invariant: a host keeps a copy of the task exactly from a load to
\* the save, or the last of them, and has a claim only on an item it has taken.
TypeOK ==
    /\ task \in Task /\ lease \in Hosts \cup {None}
    /\ work \in [Items -> Work] /\ host \in [Hosts -> Host]
    /\ cred \in [Hosts -> {"active", "revoked", "replaced"}]
    /\ giving \in [hand : Handoffs, copy : Task] \cup {None}
    /\ stale \subseteq Hosts /\ excused \subseteq Items /\ cut \subseteq Handoffs
    /\ lost \subseteq Handoffs /\ late \subseteq Handoffs /\ answers \in [Items -> 0..2]
    /\ \A c \in Hosts :
          /\ host[c].pc \in {"store", "callback", "reviewed", "inspected", "revised"}
                <=> host[c].copy # None
          /\ host[c].claim => host[c].item # None

\* An item is answered once (host_work.py claim, validate_claim, the lease of
\* the task and the handoff that waits), whoever claims it at the same time,
\* whatever claims expire and whoever dies.  Not so: when a lease expired
\* between the check of an answer and its record and another was let in
\* (Submit, Answer), when a process died between a verdict and the completion of
\* its item (Crash), when an inspection's completed item was saved over by a
\* claim or a preparation that had looked before (SaveClaim, Make), and when an
\* older copy of the task took the result back (Save).
AnsweredOnce == \A i \in Items \ excused : answers[i] <= 1

\* The lease protects results (concurrency.py, host_api.py): a host that saves
\* while it holds the lease of the task takes back no result that was accepted
\* under a lease, however old its copy.  Whoever saves without one, a review that
\* is prepared, an executor, or a call that outlived its lease, may do so.
NoResultIsLost ==
    [][\A c \in Hosts, h \in Handoffs \ late :
          /\ host[c].leased = "held" /\ host'[c] # host[c]
          /\ task.hand[h] = "completed"
          => task'.hand[h] = "completed"]_vars

\* The items of results that an older copy took back, the artifact gone or the
\* handoff: hosts take them first, again and again, and with them the lease of
\* the task.
Orphaned ==
    \E h \in Handoffs : \/ task.hand[h] = "none" /\ work[Image(h)] # "none"
                        \/ task.qa[h] = "none" /\ work[Visual(h)] # "none"

\* A result that is waited for is submitted in the end (host_work.py,
\* chatgpt_host_loop.py), so that again and again none is: a claim or a lease that
\* nobody can use any more, a rotated credential or a process that died does not
\* hold it up for ever.  But one that is waited for again, after an older copy of
\* the task took its result back, is not: its item is completed.
WaitingIsAnswered ==
    []<>(\A h \in Handoffs : task.hand[h] = "waiting" => h \in lost \/ Orphaned)

=============================================================================
