---------------------------- MODULE Conversation ----------------------------
(***************************************************************************)
(* A conversation that leads a user through production tasks               *)
(* (guif/conversation_workflow.py) and imports images for them             *)
(* (source_workflow.py, source_imports.py), over the pipeline that plans a *)
(* task (runtime/runtime.py, pipeline.py, private_theme.py) and the store   *)
(* that keeps it (runtime/store.py).                                       *)
(*                                                                         *)
(* One process serves the conversation, call after call, and is alone in   *)
(* writing its session and its tasks; themes and configuration change      *)
(* beside it.  A task's life after planning, which TaskProduction and      *)
(* HostWork have in full, is one status here, as far as the conversation   *)
(* tells stages apart.                                                     *)
(***************************************************************************)
EXTENDS PrivateThemes, TLC

CONSTANTS
    Keys,       \* request keys
    Tools,      \* tools that can be configured
    Candidates, \* those of them that only an improvement case proposes
    MaxTasks,   \* bound of the model: tasks, numbered in the order of creation
    MaxCases    \* bound of the model: improvement cases, numbered likewise

VARIABLES
    session,    \* the session file of the conversation
    tasks,      \* [1..MaxTasks -> the record of the task, or None]
    sources,    \* [Sources -> what there is of an import: its file, its record]
    config,     \* the tool that a configuration file names for image generation
    connection  \* the newest tool connection request of the project

talkVars == <<session, tasks, sources, config, connection>>

TaskIds == 1..MaxTasks
Configs == {"project", "workspace"}

(***************************************************************************)
(* Tasks                                                                   *)
(***************************************************************************)

Planned == {"pending", "declined", "ready", "no-tool", "waiting", "made", "flawed", "revise",
            "kept", "passed", "exported"}

\* request: the request key it is tagged with; missing: the plan lacks the
\* reference image it must edit; tool: the tool of the last execution;
\* override, trial: execution_overrides, candidate_change.
\* History: seen, the look the last call on it was given for its reference.
TaskRecords ==
    [status : Planned \cup {"running", "failed"}, request : Keys \cup {None},
     ref : Refs \cup {None}, seen : 1..MaxLooks \cup {None}, missing : BOOLEAN,
     tool : Tools \cup {None}, override : Tools \cup {None}, trial : 0..MaxCases]

\* There is a tool that no case proposes, the one the installation comes with, and
\* None is a name of nothing else.
ASSUME ConversationAssumption ==
    /\ Candidates \subseteq Tools /\ Tools \ Candidates # {}
    /\ MaxTasks \in Nat /\ MaxCases \in Nat
    /\ None \notin Tools \cup Keys \cup TaskRecords

NewTask ==
    [status |-> "running", request |-> None, ref |-> Binding,
     seen |-> IF Binding = None THEN None ELSE Binding.look, missing |-> FALSE,
     tool |-> None, override |-> None, trial |-> 0]

\* TaskStore.load gives the task only with the theme that it was planned with.
Loads(id) == id # 0 /\ tasks[id] # None /\ (tasks[id].ref # None => Good(tasks[id].ref))

FreshTask == 1 + Cardinality({id \in TaskIds : tasks[id] # None})
CanPlan == FreshTask <= IF On("longer") THEN MaxTasks ELSE MaxTasks - 1

\* load_execution_settings: the task's override, the project, the workspace.
ToolFor(r) == IF r.override # None THEN r.override
              ELSE IF config["project"] # None THEN config["project"] ELSE config["workspace"]

(***************************************************************************)
(* The session and the stage it is in                                      *)
(***************************************************************************)

Sessions == [active : 0..MaxTasks, unbound : BOOLEAN, done : [Keys -> 0..MaxTasks],
             ids : SUBSET Sources, reg : {"none", "required", "registered", "external"},
             case : 0..MaxCases]

NewSession == [active |-> 0, unbound |-> FALSE, done |-> [k \in Keys |-> 0], ids |-> {},
               reg |-> "none", case |-> 0]

\* _find_recovery_task: the newest task of the conversation that loads.
Recovered ==
    LET found == {id \in TaskIds : Loads(id)}
    IN  IF found = {} THEN 0 ELSE CHOOSE id \in found : \A other \in found : other <= id

\* _load_active_task; it raises for a task that is there and does not load.
Active == IF session.active # 0 /\ tasks[session.active] # None THEN session.active ELSE Recovered
CanLoad == Active # 0 => Loads(Active)
Current == tasks[Active]
Has(statuses) == Active # 0 /\ CanLoad /\ Current.status \in statuses

ThemeSources == IF Selected THEN looks[bound["conversation"].look] ELSE {}
Available == {s \in session.ids \cup ThemeSources : sources[s] = "registered"}

Stages == [failed |-> "recoverable-error", pending |-> "approval-required",
           declined |-> "changes-required", flawed |-> "revision-approval-required",
           kept |-> "revision-changes-required", revise |-> "revision-ready",
           made |-> "visual-review", waiting |-> "image-production",
           exported |-> "completed", passed |-> "ready-to-export", ready |-> "ready-to-produce",
           running |-> "attention-required"] @@ ("no-tool" :> "tool-configuration-required")

\* _stage of the source workflow and of the conversation below it
ProductionStage ==
    IF session.reg = "external" THEN "external-edit-selected"
    ELSE IF Active # 0 /\ Current.missing THEN "source-import-required"
    ELSE IF ~Selected /\ ~session.unbound THEN "theme-confirmation"
    ELSE IF Active = 0 THEN "ready-for-request"
    ELSE Stages[Current.status]

(***************************************************************************)
(* The writes of a call                                                    *)
(***************************************************************************)

Save(s) == <<[file |-> "session", to |-> s]>>
Plan(id, r) == <<[file |-> "plan", id |-> id, to |-> r]>>
SaveTask(id, r) == <<[file |-> "task", id |-> id, to |-> r]>>
Execute(id, r) == SaveTask(id, [r EXCEPT !.status = "execute"])
View == <<[file |-> "view"]>>
Load == <<[file |-> "load"]>>

\* _execute: the pipeline saves the task when it starts and when it ends.
Runs(id, r, end) ==
    Plan(id, [r EXCEPT !.status = "running"]) \o Plan(id, [r EXCEPT !.status = end])

\* stage: the image, then its record.
Staged(s) == <<[file |-> "source", id |-> s, to |-> "file"],
               [file |-> "source", id |-> s, to |-> "registered"]>>
Registered(before, s) == [before EXCEPT !.ids = @ \cup {s}, !.reg = "registered"]

\* The pipeline writes the task as it has it.
WritePlan(p) ==
    /\ Writes(p, "plan") /\ Goes(p)
    /\ tasks' = [tasks EXCEPT ![Next1(p).id] = Next1(p).to]
    /\ UNCHANGED <<session, sources, config, connection>>

\* prepare_or_execute: a tool is resolved and the work handed to it.
Executed(r) == IF ToolFor(r) = None THEN [r EXCEPT !.status = "no-tool"]
               ELSE [r EXCEPT !.status = "waiting", !.tool = ToolFor(r)]

\* create_connection_request: one that is not resolved is not repeated.
Requested(r) == IF r.status = "no-tool" /\ connection \notin {"pending", "waiting"}
                THEN "pending" ELSE connection

\* A service loads the task, changes and saves it; one that does not load
\* ends the call.
WriteTask(p) ==
    LET w == Next1(p)
        r == IF w.to.status = "execute" THEN Executed(w.to) ELSE w.to
    IN  /\ Writes(p, "task")
        /\ IF Loads(w.id)
           THEN /\ Goes(p)
                /\ tasks' = [tasks EXCEPT ![w.id] =
                      [r EXCEPT !.seen = IF r.ref = None THEN None
                                         ELSE versions[r.ref.theme][r.ref.n]]]
                /\ connection' = Requested(r)
           ELSE Raises(p) /\ UNCHANGED <<tasks, connection>>
        /\ UNCHANGED <<session, sources, config>>

WriteSession(p) ==
    /\ Writes(p, "session") /\ Goes(p)
    /\ session' = Next1(p).to
    /\ UNCHANGED <<tasks, sources, config, connection>>

WriteSource(p) ==
    /\ Writes(p, "source") /\ Goes(p)
    /\ sources' = [sources EXCEPT ![Next1(p).id] =
                      IF @ = "registered" THEN @ ELSE Next1(p).to]
    /\ UNCHANGED <<session, tasks, config, connection>>

WriteConfig(p) ==
    /\ Writes(p, "config") /\ Goes(p)
    /\ config' = [config EXCEPT ![Next1(p).at] = Next1(p).tool]
    /\ UNCHANGED <<session, tasks, sources, connection>>

WriteConnection(p) ==
    /\ Writes(p, "connection") /\ Goes(p)
    /\ connection' = Next1(p).to
    /\ UNCHANGED <<session, tasks, sources, config>>

(***************************************************************************)
(* What a call finds out on its way                                        *)
(***************************************************************************)

\* The session once _load_active_task has been through it.
Now == [session EXCEPT !.active = Active]

Continues(p, writes) == todo' = [todo EXCEPT ![p] = writes \o Tail(@)]

LoadActive(p) ==
    /\ Writes(p, "load") /\ IF CanLoad THEN Goes(p) ELSE Raises(p)
    /\ UNCHANGED talkVars

\* super().create_theme, super().derive_theme: after the source was staged
DeriveHere(p) ==
    LET w == Next1(p)
    IN  /\ Writes(p, "derive")
        /\ IF w.n = 0
           THEN CanCreate(w.theme) /\ Continues(p, Create(w.theme, {w.src}, {"conversation"}))
           ELSE /\ CanDerive(w.theme, w.n)
                /\ Continues(p, Derive(w.theme, w.n, {w.src}, {"conversation"}))
        /\ UNCHANGED talkVars

\* _link_source_to_selected_theme
LinkSource(p) ==
    LET ref == bound["conversation"]
    IN  /\ Writes(p, "link")
        /\ IF ~Selected THEN Goes(p)
           ELSE IF ~Viewable THEN Raises(p)
           ELSE /\ CanDerive(ref.theme, ref.n)
                /\ Continues(p, Derive(ref.theme, ref.n, {Next1(p).src}, {"conversation"}))
        /\ UNCHANGED talkVars

\* attach_sources_to_task: the image becomes an artifact that the plan refers to.
Mended(r) == [r EXCEPT !.missing = FALSE]

\* What submit does with a task whose plan lacks an image.
Repair(p) ==
    LET lacks == Active # 0 /\ Current.missing
    IN  /\ Writes(p, "repair")
        /\ IF ~CanLoad \/ (lacks /\ ~Viewable) THEN Raises(p)
           ELSE IF ~lacks THEN Goes(p)
           ELSE IF Available = {} THEN Continues(p, Save([Now EXCEPT !.reg = "required"]))
           ELSE Continues(p, SaveTask(Active, Mended(Current)) \o
                             Save([Now EXCEPT !.reg = "registered"]))
        /\ UNCHANGED talkVars

WriteTalk(p) == \/ WritePlan(p) \/ WriteTask(p) \/ WriteSession(p)
                \/ WriteSource(p) \/ WriteConfig(p) \/ WriteConnection(p)
                \/ LoadActive(p) \/ DeriveHere(p) \/ LinkSource(p) \/ Repair(p)

(***************************************************************************)
(* Calls of the conversation                                               *)
(***************************************************************************)

OpenView == Call(host, View)

Recover == CanLoad /\ Call(host, Save(Now) \o View)

Confirmed(s) == Save([s EXCEPT !.unbound = FALSE]) \o View

SelectTheme(t, n) ==
    Known(t, n) /\ Call(host, Bindings({"conversation"}, t, n) \o Confirmed(session))

CreateTheme(t) ==
    CanCreate(t) /\ Call(host, Create(t, {}, {"conversation"}) \o Confirmed(session))

DeriveTheme(t, n) ==
    CanDerive(t, n) /\ Call(host, Derive(t, n, {}, {"conversation"}) \o Confirmed(session))

\* n = 0 creates the theme; an unknown one is refused once the source is staged.
ThemeFromSource(t, n, s) ==
    /\ IF n = 0 THEN CanCreate(t) ELSE CanDerive(t, n)
    /\ Call(host, Staged(s) \o Save(Registered(session, s)) \o
                  <<[file |-> "derive", theme |-> t, n |-> n, src |-> s]>> \o
                  Confirmed(Registered(session, s)))

ContinueUnbound == Call(host, Save([session EXCEPT !.unbound = TRUE]) \o View)

Repaired == <<[file |-> "repair"]>> \o View

\* Mutant: the request is not recorded with its task.
Submit_Unrecorded(key, end, missing) ==
    LET id == FreshTask
        planned == [NewTask EXCEPT !.missing = missing]
        tagged == [planned EXCEPT !.status = "pending", !.request = key]
    IN  /\ Viewable
        /\ IF ~Selected /\ ~session.unbound THEN Call(host, View \o Repaired)
           ELSE /\ CanPlan /\ Resolves
                /\ Call(host, Runs(id, planned, end) \o
                      IF end = "failed" THEN <<>>
                      ELSE Plan(id, tagged) \o Save([session EXCEPT !.active = id])
                           \o View \o Repaired)

\* A request that fails in planning raises: nothing is recorded of it but the
\* failed task.  missing: the request is to edit an image that was not imported.
Submit(key, end, missing) ==
    LET id == FreshTask
        planned == [NewTask EXCEPT !.missing = missing]
        tagged == [planned EXCEPT !.status = "pending", !.request = key]
        recorded == [session EXCEPT !.active = id, !.done[key] = id]
    IN  /\ Viewable
        /\ IF ~Selected /\ ~session.unbound THEN Call(host, View \o Repaired)
           ELSE IF session.done[key] # 0
           THEN Call(host, Save([session EXCEPT !.active = session.done[key]]) \o View \o Repaired)
           ELSE /\ CanPlan /\ Resolves
                /\ Call(host, Runs(id, planned, end) \o
                      IF end = "failed" THEN <<>>
                      ELSE Plan(id, tagged) \o Save(recorded) \o View \o Repaired)

\* decide: a revision that waits for its decision goes before the first
\* approval.  Approved work is executed at once; a plan that lacks its image
\* refuses that, and what was decided stays.
Decide(approved) ==
    /\ Has({"flawed", "pending"})
    /\ LET yes == IF Current.status = "flawed" THEN "revise" ELSE "ready"
           no == IF Current.status = "flawed" THEN "kept" ELSE "declined"
           decided == [Current EXCEPT !.status = IF approved THEN yes ELSE no]
       IN  Call(host, SaveTask(Active, decided) \o
              IF approved /\ Current.missing THEN <<>>
              ELSE (IF approved THEN Execute(Active, decided) ELSE <<>>) \o Save(Now) \o View)

ContinueWork ==
    /\ Has({"ready", "revise", "no-tool"}) /\ ~Current.missing
    /\ Call(host, Execute(Active, Current) \o Save(Now) \o View)

HostRuns == {<<"made">>, <<"made", "passed">>, <<"made", "flawed">>, <<"passed">>, <<"flawed">>}

\* run_host_until_blocked: makes the image, has it inspected, or both.
RunHost(ends) ==
    /\ Has({"waiting", "made"})
    /\ (Current.status = "waiting") = (Head(ends) = "made")
    /\ LET Made(i) == SaveTask(Active, [Current EXCEPT !.status = ends[i]])
       IN  Call(host, (IF Len(ends) = 1 THEN Made(1) ELSE Made(1) \o Made(2)) \o Save(Now) \o View)

\* export, in the stage that allows it
Export ==
    /\ Has({"passed"}) /\ Viewable
    /\ Call(host, View \o SaveTask(Active, [Current EXCEPT !.status = "exported"]) \o Save(Now) \o View)

\* retry: a failed task resumes, one without a tool is executed again.
Retry(end, missing) ==
    /\ Has({"failed", "no-tool"})
    /\ Call(host, IF Current.status = "no-tool" THEN Execute(Active, Current) \o Save(Now) \o View
                  ELSE Runs(Active, [Current EXCEPT !.missing = missing], end) \o
                       IF end = "failed" THEN <<>> ELSE Save(Now) \o View)

ImportSource(s, forTheme) ==
    LET mends == CanLoad /\ Active # 0 /\ Current.missing
    IN  Call(host, Staged(s) \o (IF forTheme THEN <<[file |-> "link", src |-> s]>> ELSE <<>>) \o Load \o
              (IF ~mends THEN <<>>
               ELSE SaveTask(Active, Mended(Current)) \o
                    IF Current.status = "ready" THEN Execute(Active, Mended(Current)) ELSE <<>>) \o
              Save(Registered(Now, s)) \o View)

SelectExternalEdit == Call(host, Save([session EXCEPT !.reg = "external"]) \o View)

\* "requests" explores the way of a request, "themes" its themes, "sources" its
\* images; what a user can ask is in Keys.
Talk ==
    \/ OpenView
    \/ \E t \in Themes, n \in 1..MaxVersions : SelectTheme(t, n)
    \/ \E key \in Keys \cap scope, end \in {"pending", "failed"}, missing \in BOOLEAN :
          /\ end = "failed" => On("requests")
          /\ missing => On("sources") /\ end = "pending"
          /\ Submit(key, end, missing)
    \/ On("decisions") /\ \E approved \in BOOLEAN : Decide(approved)
    \/ /\ On("requests") \/ On("improvement")
       /\ \/ ContinueWork
          \/ \E ends \in HostRuns : RunHost(ends)
          \/ \E end \in {"pending", "failed"} : Retry(end, FALSE)
    \/ On("requests") /\ (ContinueUnbound \/ Recover)
    \/ /\ On("themes")
       /\ \E t \in Themes : CreateTheme(t) \/ \E n \in 1..MaxVersions : DeriveTheme(t, n)
    \/ /\ On("sources")
       /\ \/ SelectExternalEdit
          \/ \E s \in Sources, forTheme \in BOOLEAN : ImportSource(s, forTheme)
          \/ \E s \in Sources, t \in Themes, n \in 0..MaxVersions : ThemeFromSource(t, n, s)

(***************************************************************************)
(* Beside the conversation, the tool connection that was requested is       *)
(* decided on, as often as anybody likes, and tried again when it was       *)
(* approved and its tool was not healthy.  A tool that is connected goes    *)
(* into the project's configuration.                                       *)
(***************************************************************************)

Connect(tool, status) ==
    (IF status = "connected" THEN <<[file |-> "config", at |-> "project", tool |-> tool]>> ELSE <<>>)
    \o <<[file |-> "connection", to |-> status]>>

DecideConnection(tool, status) ==
    /\ connection # "none" /\ status \in {"connected", "waiting", "rejected"}
    /\ Call(cli, Connect(tool, status))

RetryHealth(tool, status) ==
    /\ connection = "waiting" /\ status \in {"connected", "waiting"}
    /\ Call(cli, Connect(tool, status))

(***************************************************************************)
(* States                                                                  *)
(***************************************************************************)

InitTalk ==
    /\ session = NewSession
    /\ tasks = [id \in TaskIds |-> None]
    /\ sources = [s \in Sources |-> "none"]
    /\ config = [at \in Configs |-> IF at = "project" /\ ~On("tools")
                                     THEN CHOOSE tool \in Tools \ Candidates : TRUE ELSE None]
    /\ connection = "none"

TalkOK ==
    /\ session \in Sessions
    /\ tasks \in [TaskIds -> TaskRecords \cup {None}]
    /\ sources \in [Sources -> {"none", "file", "registered"}]
    /\ config \in [Configs -> Tools \cup {None}]
    /\ connection \in {"none", "pending", "waiting", "connected", "rejected"}
=============================================================================
