--------------------------- MODULE TaskProduction ---------------------------
(***************************************************************************)
(* The production of a planned task: tool execution (guif/tool_execution.py,*)
(* guif/revision_execution.py), artifacts, visual review and revision      *)
(* (guif/artifacts.py, visual_review.py, revision.py, revision_review.py)  *)
(* behind the approval gate and the contract QA.                           *)
(*                                                                         *)
(* Every call loads the whole task, changes its copy and saves the whole   *)
(* copy; nothing locks the file.  A call that only loads, changes and      *)
(* saves is one step here.  A call that waits for a tool or an inspector   *)
(* between its load and its save, or that saves more than once, is a       *)
(* caller with a copy of its own, and may die between any two saves.       *)
(***************************************************************************)
EXTENDS Naturals, FiniteSets

CONSTANTS
    Artifacts,   \* artifact ids: one per job, tool and content
    Plans,       \* revision plans, and the revision job each one can get
    Main,        \* the prompt job
    JobOf,       \* the job an artifact is a result of
    SourceOf,    \* the artifact a revision plan is about
    About,       \* what it says of it: "flaws", or that it is "stale"
    Callers,     \* calls in progress at the same time
    MaxAttempts, \* bound of the model: tool executions of the task
    MaxDecisions,\* bound of the model: decisions about its approvals
    MaxReviews,  \* bound of the model: visual reviews
    None

Jobs == Plans \cup {Main}

ASSUME JobAssumption ==
    /\ Main \notin Plans /\ None \notin Artifacts /\ IsFiniteSet(Artifacts)
    /\ JobOf \in [Artifacts -> Jobs] /\ SourceOf \in [Plans -> Artifacts]
    /\ About \in [Plans -> {"flaws", "stale"}]
    \* The id of a revision job is a hash over the id of its source.
    /\ \A a \in Artifacts : JobOf[a] \in Plans => SourceOf[JobOf[a]] # a
    /\ MaxAttempts \in Nat /\ MaxDecisions \in Nat /\ MaxReviews \in Nat

VARIABLES
    disk,        \* task.json
    caller       \* [Callers -> the call that is in progress]

vars == <<disk, caller>>

(***************************************************************************)
(* The task                                                                *)
(***************************************************************************)

TaskStatus == {"completed", "waiting-for-tool", "waiting-for-tool-result", "cancelled"}

\* The result of the review of an artifact; "blocked" and "review-required"
\* are both "flawed": they open the same gates.
Verdict == {"not-run", "passed", "flawed"}

\* no: the position in the registry; by: superseded_by; linked: the record
\* has its "revision" entry.
Artifact == [status : {"registered", "stale"}, qa : Verdict \cup {"unseen"},
             linked : BOOLEAN, by : Artifacts \cup {None}, no : Nat]

ASSUME NoneAssumption == None \notin Artifact

\* A plan and its revision job have one status between them: resolved is the
\* job's passed, approved its ready; "waiting" covers the two waiting states.
PlanStatus == {"none", "proposed", "approval-pending", "ready", "refused",
               "waiting", "review-pending", "passed", "flawed"}

\* qaPassed and gate are the stored QA report: its status and its export
\* gate.  approvedEver is the history of the revision approvals, passedEver
\* the visual review records, injected the revision jobs among the jobs of
\* the prompt.
Task ==
    [status : TaskStatus, approval : {"pending", "approved", "refused"},
     qaPassed : BOOLEAN, gate : BOOLEAN,
     arts : [Artifacts -> Artifact \cup {None}],
     attempts : Nat, decisions : Nat, reviews : Nat,
     waiting : SUBSET (Nat \X Jobs), plan : [Plans -> PlanStatus],
     decision : [Plans -> {"none", "approved", "refused"}],
     approvedEver : SUBSET Plans, passedEver : SUBSET Artifacts,
     injected : SUBSET Plans]

Planned ==
    [status |-> "completed", approval |-> "pending", qaPassed |-> FALSE,
     gate |-> FALSE, arts |-> [a \in Artifacts |-> None], attempts |-> 0,
     decisions |-> 0, reviews |-> 0, waiting |-> {}, plan |-> [p \in Plans |-> "none"],
     decision |-> [p \in Plans |-> "none"], approvedEver |-> {},
     passedEver |-> {}, injected |-> {}]

Registry(t) == {a \in Artifacts : t.arts[a] # None}
Active(t) == {a \in Registry(t) : t.arts[a].status = "registered"}
Linked(t, a) == a \in Registry(t) /\ t.arts[a].linked
HasJob(t, p) == t.plan[p] \notin {"none", "proposed"}

\* Contract QA is built anew.  A revision job in the prompt refers to an
\* artifact no resource contract approved, which QA reports as blocking; and
\* the new report has not looked at any artifact.
Refresh(t) ==
    [t EXCEPT !.qaPassed = t.approval = "approved" /\ t.injected = {},
              !.gate = FALSE]

Reviewed(t) == Active(t) # {} /\ \A a \in Active(t) : t.arts[a].qa = "passed"

\* The export gate of the stored report follows the active artifacts.
Aggregate(t) == [t EXCEPT !.gate = t.qaPassed /\ Reviewed(t)]

\* The same content of the same job is the same artifact, whose record stays.
Register(t, a) ==
    IF a \in Registry(t) THEN t
    ELSE [t EXCEPT !.arts[a] = [status |-> "registered", qa |-> "unseen",
                                linked |-> FALSE, by |-> None,
                                no |-> Cardinality(Registry(t)) + 1]]

\* Mutant: the QA report is left as it was.
Accept_NotRefreshed(t, a) == [Register(t, a) EXCEPT !.status = "completed"]

\* A result arrived: the artifact is registered, the task is completed again.
Accept(t, a) == Refresh([Register(t, a) EXCEPT !.status = "completed"])

\* Mutant: the artifact that takes the place may itself be stale.
Replace_StaysStale(t, old, new) ==
    [t EXCEPT !.arts[old].status = "stale", !.arts[old].by = new]

\* One artifact takes the place of another.
Replace(t, old, new) ==
    [t EXCEPT !.arts[old].status = "stale", !.arts[old].by = new,
              !.arts[new].status = "registered"]

(***************************************************************************)
(* Calls that load, change and save                                        *)
(***************************************************************************)

Save(t) == disk' = t

\* Runtime.decide_approval
Decide(d) ==
    /\ disk.decisions < MaxDecisions
    /\ Save(Refresh([disk EXCEPT !.approval = d, !.decisions = @ + 1]))
    /\ UNCHANGED caller

\* ToolExecutionService.cancel_wait: the handoff keeps waiting.
CancelWait ==
    /\ disk.status \in {"waiting-for-tool", "waiting-for-tool-result"}
    /\ Save([disk EXCEPT !.status = "cancelled"])
    /\ UNCHANGED caller

\* The plan can get its revision job: its source is active and the job of its
\* source is a job of the prompt.
Revisable(t, p) ==
    /\ SourceOf[p] \in Active(t)
    /\ JobOf[SourceOf[p]] \in {Main} \cup t.injected

CreateRevisionJob(p) ==
    /\ disk.plan[p] = "proposed" /\ Revisable(disk, p)
    /\ Save([disk EXCEPT !.plan[p] = "approval-pending"])
    /\ UNCHANGED caller

\* decide_revision_approval: at any time, whatever became of the job since.
DecideRevision(p, d) ==
    /\ HasJob(disk, p) /\ disk.decisions < MaxDecisions
    /\ Save([disk EXCEPT !.decisions = @ + 1, !.decision[p] = d,
                         !.plan[p] = IF d = "approved" THEN "ready" ELSE "refused",
                         !.approvedEver = IF d = "approved" THEN @ \cup {p} ELSE @])
    /\ UNCHANGED caller

\* VisualReviewService.supersede: by hand, without a look at the reviews.
Supersede(old, new) ==
    /\ old # new /\ {old, new} \subseteq Registry(disk) /\ JobOf[old] = JobOf[new]
    /\ Save(Aggregate(Replace(disk, old, new)))
    /\ UNCHANGED caller

(***************************************************************************)
(* Calls with a copy                                                       *)
(***************************************************************************)

\* pc is what the call does next; task the copy it works on; job and art what
\* it is about (a review has a job when it is the review of a revision); eyes:
\* it has an inspector; injects: it put the job into the prompt and takes it
\* out again.
Call == [pc : {"idle", "run", "mark", "link", "review", "load", "look", "cleanup",
               "abort", "record"},
         task : Task \cup {None}, job : Jobs \cup {None}, art : Artifacts \cup {None},
         eyes : BOOLEAN, injects : BOOLEAN]

Idle == [pc |-> "idle", task |-> None, job |-> None, art |-> None,
         eyes |-> FALSE, injects |-> FALSE]

At(c, pc) == caller[c].pc = pc
Goes(c, call) == caller' = [caller EXCEPT ![c] = call]
Return(c) == Goes(c, Idle)

\* Mutant: a task that waits for a result may be asked for another.
Executable_Waiting(t, j) ==
    /\ t.status \in {"completed", "waiting-for-tool", "waiting-for-tool-result"}
    /\ t.qaPassed
    /\ IF j = Main THEN t.approval = "approved"
                   ELSE /\ t.decision[j] = "approved"
                        /\ t.plan[j] \in {"ready", "waiting"}

\* Mutant: the approval of the production stands for that of the revision.
Executable_OneApproval(t, j) ==
    /\ t.status \in {"completed", "waiting-for-tool"} /\ t.qaPassed
    /\ t.approval = "approved"
    /\ j # Main => t.plan[j] \in {"approval-pending", "ready", "waiting"}

\* _load_job: what must hold for a job to be executed.
Executable(t, j) ==
    /\ t.status \in {"completed", "waiting-for-tool"} /\ t.qaPassed
    /\ IF j = Main THEN t.approval = "approved"
                   ELSE /\ t.decision[j] = "approved"
                        /\ t.plan[j] \in {"ready", "waiting"}

Attempted(t) == [t EXCEPT !.attempts = @ + 1]

\* prepare_or_execute without a tool of this process: no tool resolves or a
\* reference file is not bound, and the task waits for one; or an external
\* tool gets a handoff, and the task waits for its result.
Prepared(t, j) ==
    {[t EXCEPT !.status = "waiting-for-tool"]}
    \cup {u \in {[Attempted(t) EXCEPT !.status = "waiting-for-tool-result",
                                     !.waiting = @ \cup {<<t.attempts + 1, j>>}]} :
          t.attempts < MaxAttempts}

\* For a revision job this is the save of the base class: the call goes on.
PrepareMain ==
    /\ Executable(disk, Main)
    /\ \E t \in Prepared(disk, Main) : Save(t)
    /\ UNCHANGED caller

PrepareRevision(c, p) ==
    /\ At(c, "idle") /\ Executable(disk, p)
    /\ \E t \in Prepared(disk, p) :
          Save(t) /\ Goes(c, [Idle EXCEPT !.pc = "mark", !.task = t, !.job = p])

\* The tool cannot prepare the handoff: the attempt is saved as failed.
HandoffFails(j) ==
    /\ Executable(disk, j) /\ disk.attempts < MaxAttempts
    /\ Save(Attempted(disk))
    /\ UNCHANGED caller

\* The revision job is marked as waiting, in a second save of the same copy.
Mark(c) ==
    /\ At(c, "mark")
    /\ Save([caller[c].task EXCEPT !.plan[caller[c].job] = "waiting"])
    /\ Return(c)

\* A tool of this process: the attempt is saved, then the tool runs.
Execute(c, j) ==
    /\ At(c, "idle") /\ Executable(disk, j) /\ disk.attempts < MaxAttempts
    /\ Save(Attempted(disk))
    /\ Goes(c, [Idle EXCEPT !.pc = "run", !.task = Attempted(disk), !.job = j])

\* The result is saved; that of a revision job is then linked to its plan.
Accepted(c, j, t) ==
    /\ Save(t)
    /\ IF j = Main THEN Return(c)
       ELSE Goes(c, [Idle EXCEPT !.pc = "link", !.task = t, !.job = j])

\* It answers, and what is saved is the copy from before it ran.
Finish(c, a) ==
    /\ At(c, "run") /\ JobOf[a] = caller[c].job
    /\ Accepted(c, caller[c].job, Accept(caller[c].task, a))

ToolFails(c) ==
    /\ At(c, "run")
    /\ Save(caller[c].task)
    /\ Return(c)

\* submit_result: neither the task's status nor an approval is looked at.
Answer(h, a) == Accept([disk EXCEPT !.waiting = @ \ {h}], a)

SubmitMain(h, a) ==
    /\ h \in disk.waiting /\ h[2] = Main /\ JobOf[a] = Main
    /\ Save(Answer(h, a))
    /\ UNCHANGED caller

SubmitRevision(c, h, a) ==
    /\ At(c, "idle") /\ h \in disk.waiting /\ h[2] # Main /\ JobOf[a] = h[2]
    /\ Accepted(c, h[2], Answer(h, a))

\* _finalize_revision_artifact: the newest result that has no link yet.
Unlinked(t, j) == {a \in Registry(t) : JobOf[a] = j /\ ~t.arts[a].linked}
Newest(t, j) == {a \in Unlinked(t, j) : \A b \in Unlinked(t, j) : t.arts[b].no <= t.arts[a].no}

Link(c) ==
    LET t == caller[c].task
        j == caller[c].job
    IN
    /\ At(c, "link")
    /\ IF Unlinked(t, j) = {} THEN Return(c) /\ UNCHANGED disk
       ELSE \E a \in Newest(t, j) :
              /\ Save([t EXCEPT !.arts[a].linked = TRUE, !.plan[j] = "review-pending"])
              /\ Goes(c, [Idle EXCEPT !.pc = "review", !.art = a])

\* An artifact can be reviewed when its job is in the prompt, or its link
\* says which revision job to put there.
Reviewable(t, a) ==
    a \in Registry(t) /\ (t.arts[a].linked \/ JobOf[a] \in {Main} \cup t.injected)

\* RevisionReviewService.review up to the base class: the job of a replacement
\* is put among the jobs of the prompt and saved.
StartReview(c, a, eyes) ==
    LET linked == disk.arts[a].linked
        inject == linked /\ JobOf[a] \notin disk.injected
    IN
    /\ disk.reviews < MaxReviews
    /\ Save(IF inject THEN [disk EXCEPT !.injected = @ \cup {JobOf[a]}] ELSE disk)
    /\ Goes(c, [Idle EXCEPT !.pc = "load", !.job = IF linked THEN JobOf[a] ELSE None,
                            !.art = a, !.eyes = eyes, !.injects = inject])

Review(c, a) ==
    /\ At(c, "idle") /\ Reviewable(disk, a)
    /\ \E eyes \in BOOLEAN : StartReview(c, a, eyes)

\* The review that follows a linked result has no inspector; it raises if
\* another save has taken the artifact away.
FirstReview(c) ==
    /\ At(c, "review")
    /\ IF Reviewable(disk, caller[c].art) THEN StartReview(c, caller[c].art, FALSE)
       ELSE Return(c) /\ UNCHANGED disk

\* Whether or not the base class raised, a review of a replacement goes on.
AfterBase(c, pc) ==
    IF caller[c].job = None THEN Return(c)
    ELSE Goes(c, [caller[c] EXCEPT !.pc = pc, !.task = None])

\* The base class loads the task for its review, and finds the job or raises.
Load(c) ==
    LET a == caller[c].art IN
    /\ At(c, "load")
    /\ IF a \in Registry(disk) /\ JobOf[a] \in {Main} \cup disk.injected
       THEN Goes(c, [caller[c] EXCEPT !.pc = "look", !.task = disk])
       ELSE AfterBase(c, "abort")
    /\ UNCHANGED disk

\* The plan that a review with findings proposes, unless it exists.
Propose(t, p) == [t EXCEPT !.plan[p] = IF @ = "none" THEN "proposed" ELSE @]
Findings(a, about) == {p \in Plans : SourceOf[p] = a /\ About[p] = about}

\* What a review makes of the artifact: a stale one is not eligible, broken
\* metadata blocks, and what else is found is up to the inspector.
Judged(t, a, eyes) ==
    LET qa(v) == [t EXCEPT !.arts[a].qa = v, !.reviews = @ + 1,
                           !.passedEver = IF v = "passed" THEN @ \cup {a} ELSE @]
    IN
    IF a \notin Active(t) THEN {Propose(qa("flawed"), p) : p \in Findings(a, "stale")}
    ELSE {Propose(qa("flawed"), p) : p \in Findings(a, "flaws")}
         \cup IF eyes THEN {qa("passed"), qa("flawed")} ELSE {qa("not-run")}

EndReview(c) ==
    /\ At(c, "look")
    /\ \E t \in Judged(caller[c].task, caller[c].art, caller[c].eyes) : Save(Aggregate(t))
    /\ AfterBase(c, "cleanup")

InspectorRaises(c) ==
    /\ At(c, "look") /\ caller[c].eyes
    /\ AfterBase(c, "abort")
    /\ UNCHANGED disk

\* The finally block takes the job out of the prompt.
Cleanup(c) ==
    /\ caller[c].pc \in {"cleanup", "abort"}
    /\ Save(IF caller[c].injects
            THEN [disk EXCEPT !.injected = @ \ {caller[c].job}] ELSE disk)
    /\ IF At(c, "abort") THEN Return(c) ELSE Goes(c, [caller[c] EXCEPT !.pc = "record"])

\* Mutant: the job gets the status of the review as it is.
Record_StatusAsIs(c) ==
    LET a == caller[c].art
        p == caller[c].job
        v == disk.arts[a].qa
        t == [disk EXCEPT !.plan[p] = v]
        stored == Linked(disk, a) /\ v # "unseen"
    IN
    /\ At(c, "record")
    /\ Save(IF ~stored THEN disk
            ELSE Aggregate(IF v = "passed" THEN Replace(t, SourceOf[p], a) ELSE t))
    /\ Return(c)

\* Mutant: any review lets the revision take its source's place.
Record_AnyReview(c) ==
    LET a == caller[c].art
        p == caller[c].job
        v == disk.arts[a].qa
        t == [disk EXCEPT !.plan[p] = IF v = "not-run" THEN "review-pending" ELSE v]
        stored == Linked(disk, a) /\ v # "unseen"
    IN
    /\ At(c, "record")
    /\ Save(IF ~stored THEN disk ELSE Aggregate(Replace(t, SourceOf[p], a)))
    /\ Return(c)

\* record_revision_review and, after a pass, the replacement of the source;
\* it raises when the artifact or its review is gone.
Record(c) ==
    LET a == caller[c].art
        p == caller[c].job
        v == disk.arts[a].qa
        t == [disk EXCEPT !.plan[p] = IF v = "not-run" THEN "review-pending" ELSE v]
        stored == Linked(disk, a) /\ v # "unseen"
    IN
    /\ At(c, "record")
    /\ Save(IF ~stored THEN disk
            ELSE Aggregate(IF v = "passed" THEN Replace(t, SourceOf[p], a) ELSE t))
    /\ Return(c)

\* The process of a call dies between two of its saves.
Crash(c) == ~At(c, "idle") /\ Return(c) /\ UNCHANGED disk

-----------------------------------------------------------------------------
Init == disk = Planned /\ caller = [c \in Callers |-> Idle]

Quick ==
    \/ \E d \in {"approved", "refused"} : Decide(d)
    \/ CancelWait
    \/ \E p \in Plans : CreateRevisionJob(p)
    \/ \E p \in Plans, d \in {"approved", "refused"} : DecideRevision(p, d)
    \/ \E old, new \in Artifacts : Supersede(old, new)
    \/ PrepareMain
    \/ \E j \in Jobs : HandoffFails(j)
    \/ \E h \in disk.waiting, a \in Artifacts : SubmitMain(h, a)

Begin(c) ==
    \/ \E p \in Plans : PrepareRevision(c, p)
    \/ \E j \in Jobs : Execute(c, j)
    \/ \E h \in disk.waiting, a \in Artifacts : SubmitRevision(c, h, a)
    \/ \E a \in Artifacts : Review(c, a)

Proceed(c) ==
    \/ Mark(c) \/ (\E a \in Artifacts : Finish(c, a)) \/ ToolFails(c) \/ Link(c)
    \/ FirstReview(c) \/ Load(c) \/ EndReview(c) \/ InspectorRaises(c) \/ Cleanup(c) \/ Record(c)

Next == Quick \/ \E c \in Callers : Begin(c) \/ Proceed(c) \/ Crash(c)

Spec == Init /\ [][Next]_vars

(***************************************************************************)
(* Properties                                                              *)
(***************************************************************************)

\* The task file and the copies of the calls are tasks.
TypeOK == disk \in Task /\ caller \in [Callers -> Call]

\* The stored export gate is never older than the artifacts: it is open only
\* while the production is approved and every active artifact has passed.
GateIsCurrent == disk.gate => disk.approval = "approved" /\ Reviewed(disk)

\* An artifact gives way to another result of its own job or to a revision of
\* it, and to a revision only after somebody approved it and a review passed
\* it ("supersede their source only after a pass").
Earned(t, old, new) ==
    \/ JobOf[old] = JobOf[new]
    \/ /\ JobOf[new] \in t.approvedEver /\ SourceOf[JobOf[new]] = old
       /\ new \in t.passedEver

SupersededAfterPass ==
    \A a \in Registry(disk) :
        disk.arts[a].by # None => Earned(disk, a, disk.arts[a].by)

\* A task that has produced something has an active artifact.
SomethingStaysActive == Registry(disk) # {} => Active(disk) # {}

\* A task waits for a result only while there is a handoff that can bring it.
WaitingIsAnswerable ==
    disk.status = "waiting-for-tool-result" => Cardinality(disk.waiting) = 1

\* No tool worked on a revision, or is asked to, that nobody approved.
RevisionsWereApproved ==
    /\ \A a \in Registry(disk) : JobOf[a] \in {Main} \cup disk.approvedEver
    /\ \A h \in disk.waiting : h[2] \in {Main} \cup disk.approvedEver

\* Of docs/AIPG_USER_BLUEPRINT.zh-CN.md:659: what a review finds can be made a
\* revision of its own.
FindingsCanBeRevised ==
    \A p \in Plans : disk.plan[p] = "proposed" /\ SourceOf[p] \in Active(disk)
                     => Revisable(disk, p)
=============================================================================
