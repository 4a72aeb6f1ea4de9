--------------------------- MODULE ImprovementCases ---------------------------
(***************************************************************************)
(* Improvement cases (guif/improvement_cases.py, improvement_workflow.py): *)
(* from a conversation the user opens a case about the system itself, has  *)
(* a change tried beside the stable version, looks at what came of it and  *)
(* adopts it or not, while the task that it was opened from waits.         *)
(*                                                                         *)
(* The conversation is in the stage of its case until that is resumed,     *)
(* except that a running trial of a tool is a task like others.            *)
(***************************************************************************)
EXTENDS Conversation

VARIABLE cases \* [1..MaxCases -> the record of the case, or None]

CaseIds == 1..MaxCases
AdoptionScopes == {"project", "workspace", "task"}
Ended == {"resolved", "closed-stable-retained"}
Statuses == {"proposal-required", "trial-approval-required", "candidate-building",
             "candidate-ready", "candidate-running", "result-review-required",
             "publishing-required", "plugin-refresh-required",
             "regression-validation-required"} \cup Ended

\* proposes: the tool of a case about one; kind: what the approved trial is of;
\* source: the task it was opened from; trial: the last task that tried it;
\* results: the trials whose result it has, and 0 for one given by hand;
\* applied: its tool was made the tool of its scope.
CaseRecords ==
    [status : Statuses, proposes : Candidates \cup {None}, scope : AdoptionScopes,
     kind : {"none", "tool-trial", "tool-integration", "code-candidate"},
     source : 0..MaxTasks, trial : 0..MaxTasks, results : SUBSET (0..MaxTasks),
     applied : BOOLEAN]

\* None is no case.
ASSUME CasesAssumption == None \notin CaseRecords

SaveCase(c, r) == <<[file |-> "case", id |-> c, to |-> r]>>

WriteCase(p) ==
    /\ Writes(p, "case") /\ Goes(p)
    /\ cases' = [cases EXCEPT ![Next1(p).id] = Next1(p).to]

(***************************************************************************)
(* The case of the conversation, and the view                              *)
(***************************************************************************)

\* A case whose file is gone is no case.
ActiveCase == IF session.case # 0 /\ cases[session.case] # None THEN session.case ELSE 0
Case == cases[ActiveCase]
In(statuses) == ActiveCase # 0 /\ Case.status \in statuses

\* sync_candidate_task has something to do.
Due == /\ In({"candidate-running"}) /\ Loads(Case.trial)
       /\ tasks[Case.trial].status \in {"failed", "passed", "exported"}

\* The evidence of a trial, or of somebody (0), is there to be looked at.
Shown(evidence) ==
    [Case EXCEPT !.status = "result-review-required", !.results = @ \cup {evidence}]

\* Computing the stage brings a running case up to date with its trial.
Sync(p) ==
    LET failed == tasks[Case.trial].status = "failed"
    IN  /\ Writes(p, "view") /\ CanLoad /\ Due
        /\ cases' = [cases EXCEPT ![ActiveCase] =
              IF failed THEN [@ EXCEPT !.status = "candidate-building"] ELSE Shown(Case.trial)]
        /\ UNCHANGED <<themeVars, talkVars, todo>>

\* _public_view saves the session with the task and the case it has now; a
\* task or a theme that does not load makes it raise.
ShowView(p) ==
    /\ Writes(p, "view") /\ ~(CanLoad /\ Due)
    /\ IF CanLoad /\ Viewable
       THEN Goes(p) /\ session' = [Now EXCEPT !.case = ActiveCase]
       ELSE Raises(p) /\ UNCHANGED session
    /\ UNCHANGED <<themeVars, tasks, sources, config, connection, cases>>

\* Mutant: a trial is a task like others also when its result is there.
Stage_OfTask ==
    IF ActiveCase = 0 \/ In({"candidate-running", "result-review-required"})
    THEN ProductionStage ELSE Case.status

Stage == IF ActiveCase = 0 \/ In({"candidate-running"}) THEN ProductionStage ELSE Case.status

(***************************************************************************)
(* Calls                                                                   *)
(***************************************************************************)

\* The view that export starts with has brought the case up to date.
ExportNow == ~Due /\ Stage = "ready-to-export" /\ Export

FreshCase == 1 + Cardinality({c \in CaseIds : cases[c] # None})

NewCase(tool, at, proposed) ==
    [status |-> IF proposed THEN "trial-approval-required" ELSE "proposal-required",
     proposes |-> tool, scope |-> at, kind |-> "none", source |-> Active,
     trial |-> 0, results |-> {}, applied |-> FALSE]

OpenCase(tool, at, proposed) ==
    /\ ActiveCase = 0 \/ In(Ended)
    /\ FreshCase \in CaseIds /\ CanLoad
    /\ Call(host, SaveCase(FreshCase, NewCase(tool, at, proposed)) \o
                  Save([Now EXCEPT !.case = FreshCase]) \o View)

Becomes(r) == Call(host, SaveCase(ActiveCase, r) \o View)
GoesTo(status) == Becomes([Case EXCEPT !.status = status])

Propose == In({"proposal-required", "trial-approval-required"}) /\ GoesTo("trial-approval-required")

\* _assess_tool: one that is not ready needs to be integrated first, which is a
\* change of the code.
KindOf(tool, ready) == IF tool = None THEN "code-candidate"
                       ELSE IF ready THEN "tool-trial" ELSE "tool-integration"

ApproveTrial(ready) ==
    /\ In({"trial-approval-required"})
    /\ Becomes([Case EXCEPT
          !.kind = KindOf(Case.proposes, ready),
          !.status = IF Case.proposes # None /\ ready THEN "candidate-ready"
                     ELSE "candidate-building"])

RefuseTrial(decision) ==
    /\ In({"proposal-required", "trial-approval-required"})
    /\ GoesTo(IF decision = "rejected" THEN "closed-stable-retained" ELSE "proposal-required")

LinkCandidate == In({"candidate-building", "candidate-ready"}) /\ GoesTo("candidate-ready")

\* start_tool_trial: the request of the source is planned again, as a task that
\* overrides the tool; with a theme iff the source had one.
StartTrial(end, missing) ==
    LET id == FreshTask
        planned == [NewTask EXCEPT !.missing = missing]
        trial == [planned EXCEPT !.status = "pending", !.override = Case.proposes, !.trial = ActiveCase]
    IN  /\ In({"candidate-ready"}) /\ Case.kind = "tool-trial"
        /\ Case.source # 0 /\ Loads(Case.source)
        /\ Viewable /\ Resolves /\ (tasks[Case.source].ref # None => Selected) /\ CanPlan
        /\ Call(host, Runs(id, planned, end) \o
              IF end = "failed" THEN <<>>
              ELSE Plan(id, trial)
                   \o SaveCase(ActiveCase, [Case EXCEPT !.status = "candidate-running", !.trial = id])
                   \o Save([session EXCEPT !.active = id]) \o View)

RecordResult ==
    /\ In({"candidate-ready", "candidate-running", "result-review-required"})
    /\ Becomes(Shown(0))

\* _apply_tool_adoption
Apply ==
    CASE Case.scope = "task" ->
            SaveTask(Case.source, [tasks[Case.source] EXCEPT !.override = Case.proposes])
      [] OTHER -> <<[file |-> "config", at |-> Case.scope, tool |-> Case.proposes]>>

\* decide_adoption: a tool that was tried is configured, then the case is
\* saved; anything else goes on to be published.
Adopt ==
    /\ In({"result-review-required"}) /\ Case.results # {}
    /\ IF Case.kind = "tool-trial"
       THEN /\ Case.scope = "task" => Case.source # 0 /\ Loads(Case.source)
            /\ Call(host, Apply \o SaveCase(ActiveCase, [Case EXCEPT !.status = "resolved", !.applied = TRUE])
                          \o View)
       ELSE GoesTo("publishing-required")

\* Mutant: what is refused is configured all the same.
RefuseAdoption_Applies(decision) ==
    /\ In({"result-review-required"}) /\ Case.results # {}
    /\ Case.scope # "task" /\ Case.kind = "tool-trial"
    /\ Call(host, Apply \o SaveCase(ActiveCase, [Case EXCEPT !.status = "closed-stable-retained"]) \o View)

RefuseAdoption(decision) ==
    /\ In({"result-review-required"}) /\ Case.results # {}
    /\ GoesTo(IF decision = "rejected" THEN "closed-stable-retained" ELSE "candidate-building")

MarkPublished == In({"publishing-required"}) /\ GoesTo("plugin-refresh-required")
ConfirmRefresh == In({"plugin-refresh-required"}) /\ GoesTo("regression-validation-required")

RecordRegression(ok) ==
    /\ In({"regression-validation-required"})
    /\ GoesTo(IF ok THEN "resolved" ELSE "candidate-building")

\* resume_after_improvement: back to the task the case was opened from
Resume ==
    /\ In(Ended)
    /\ Case.source # 0 => Loads(Case.source)
    /\ Call(host, SaveCase(ActiveCase, Case) \o
          Save([session EXCEPT !.case = 0,
                   !.active = IF Case.source # 0 THEN Case.source ELSE @]) \o View)

\* "again" explores case after case, all of one sort, "longer" what comes after one
\* for the project, both with tools that are ready; else there is one case of any sort.
Improve ==
    \/ \E tool \in Candidates \cup {None}, at \in AdoptionScopes, proposed \in BOOLEAN :
          /\ tool = None => at = "project"
          /\ On("again") => tool # None /\ at = "task" /\ proposed
          /\ ~On("again") => FreshCase = 1
          /\ On("longer") => at = "project"
          /\ OpenCase(tool, at, proposed)
    \/ Propose
    \/ \E ready \in BOOLEAN : (On("again") \/ On("longer") => ready) /\ ApproveTrial(ready)
    \/ \E decision \in {"rejected", "changes-requested"} :
          RefuseTrial(decision) \/ RefuseAdoption(decision)
    \/ LinkCandidate \/ RecordResult \/ Adopt \/ Resume
    \/ \E end \in {"pending", "failed"} : StartTrial(end, FALSE)
    \/ MarkPublished \/ ConfirmRefresh \/ \E ok \in BOOLEAN : RecordRegression(ok)

CasesOK == cases \in [CaseIds -> CaseRecords \cup {None}]
=============================================================================
