------------------------------- MODULE Workspace -------------------------------
(***************************************************************************)
(* The private data of a workspace and everyone who works on it: the       *)
(* conversation with its themes, tasks, sources and improvement cases, a   *)
(* command line beside it, and an operator who makes backups of the files  *)
(* and restores them (guif/private_backup.py).  A process may die between  *)
(* any two of its writes.                                                  *)
(*                                                                         *)
(* A backup lists the files, hashes them one after another, puts them into *)
(* an archive one after another, and verifies that what is in the archive  *)
(* has the hashes.  Sources and improvement cases are in no backup.        *)
(***************************************************************************)
EXTENDS ImprovementCases

CONSTANTS
    MaxCrashes, \* bound of the model: processes that die
    MaxRestores \* bound of the model: restores

ASSUME WorkspaceAssumption == MaxCrashes \in Nat /\ MaxRestores \in Nat

VARIABLES
    archive,  \* the archive file: None, or the files in it if it verifies
    backup,   \* None, or where a backup in the making is
    restores, \* history: restores so far
    crashes   \* history: processes that died

workVars == <<themeVars, talkVars, cases>>
vars == <<workVars, todo, scope, archive, backup, restores, crashes>>

(***************************************************************************)
(* Backups                                                                 *)
(***************************************************************************)

\* The files, in the order in which _iter_files has their categories.
Groups == <<"themes", "conversation", "session", "project", "runs">>
GroupSet == {Groups[i] : i \in DOMAIN Groups}

Tree == [themes |-> [versions |-> versions, index |-> index],
         conversation |-> bound["conversation"], session |-> session,
         project |-> bound["project"], runs |-> tasks]

Listed == [themes |-> {x \in Themes \X (0..MaxVersions) :
                         IF x[2] = 0 THEN index[x[1]] # 0 ELSE versions[x[1]][x[2]] # None},
           runs |-> {id \in TaskIds : tasks[id] # None},
           bindings |-> {k \in Kinds : bound[k] # None}]

\* What a backup sees of the files: those that are new since it listed them it
\* does not see.
Seen(tree, listed) ==
    [tree EXCEPT
       !.themes = [versions |-> [t \in Themes |-> [n \in 1..MaxVersions |->
                                   IF <<t, n>> \in listed.themes THEN @.versions[t][n] ELSE None]],
                   index |-> [t \in Themes |-> IF <<t, 0>> \in listed.themes THEN @.index[t] ELSE 0]],
       !.conversation = IF "conversation" \in listed.bindings THEN @ ELSE None,
       !.project = IF "project" \in listed.bindings THEN @ ELSE None,
       !.runs = [id \in TaskIds |-> IF id \in listed.runs THEN @[id] ELSE None]]

\* at: the place in Groups and the phase.  A backup is spoiled once a file was
\* written between being hashed and put into the archive: it will not verify.
\* History: moment, the files as they were between hashing and archiving.
ListFiles ==
    /\ Idle(operator) /\ backup = None
    /\ On("restore") => Idle(host) /\ restores < MaxRestores
    /\ backup' = [phase |-> "hash", at |-> 1, listed |-> Listed, moment |-> None,
                  copy |-> [g \in GroupSet |-> None]]
    /\ UNCHANGED <<workVars, todo, scope, archive, restores, crashes>>

Making(phase) == backup # None /\ backup.phase = phase

HashGroup ==
    LET g == Groups[backup.at]
        last == backup.at = Len(Groups)
    IN  /\ Making("hash")
        /\ backup' = [backup EXCEPT !.copy[g] = Seen(Tree, backup.listed)[g],
                         !.phase = IF last THEN "archive" ELSE @,
                         !.at = IF last THEN 1 ELSE @ + 1,
                         !.moment = IF last THEN Seen(Tree, backup.listed) ELSE None]
        /\ UNCHANGED <<workVars, todo, scope, archive, restores, crashes>>

ArchiveGroup ==
    /\ Making("archive") /\ backup.at <= Len(Groups)
    /\ backup' = [backup EXCEPT !.at = @ + 1]
    /\ UNCHANGED <<workVars, todo, scope, archive, restores, crashes>>

\* The archive takes the place of the one before, also if it does not verify:
\* then there is none that is of use.
Publish ==
    /\ Making("spoiled") \/ (Making("archive") /\ backup.at > Len(Groups))
    /\ archive' = IF Making("spoiled") THEN None
                  ELSE [files |-> backup.copy, moment |-> backup.moment]
    /\ backup' = None
    /\ UNCHANGED <<workVars, todo, scope, restores, crashes>>

Watched == {Groups[i] : i \in {j \in DOMAIN Groups :
              IF backup.phase = "hash" THEN j < backup.at ELSE j >= backup.at}}

\* Mutant: a category's files are not compared with their hashes.
Watch_NotSessions ==
    backup' = IF (Making("hash") \/ Making("archive")) /\
                 \E g \in Watched \ {"session"} : Seen(Tree', backup.listed)[g] # backup.copy[g]
              THEN [phase |-> "spoiled"] ELSE backup

\* What another step does to a backup in the making.
Watch ==
    backup' = IF (Making("hash") \/ Making("archive")) /\
                 \E g \in Watched : Seen(Tree', backup.listed)[g] # backup.copy[g]
              THEN [phase |-> "spoiled"] ELSE backup

(***************************************************************************)
(* Restores: only from an archive that verifies                            *)
(***************************************************************************)

CanRestore == /\ On("restore") /\ Idle(operator) /\ restores < MaxRestores
              /\ archive # None /\ backup = None

Differing(file, current) == IF file = current THEN None ELSE file
DifferingIn(files, current) == [x \in DOMAIN files |-> Differing(files[x], current[x])]

\* plan_restore: the files in the archive that are not the same in use.
PlannedFor(g) ==
    LET files == archive.files[g]
        current == Tree[g]
    IN  CASE g = "themes" -> [versions |-> [t \in Themes |->
                                             DifferingIn(files.versions[t], current.versions[t])],
                              index |-> [t \in Themes |-> IF files.index[t] = 0 THEN None
                                             ELSE Differing(files.index[t], current.index[t])]]
          [] g = "runs" -> DifferingIn(files, current)
          [] OTHER -> Differing(files, current)

\* restore(conflict = replace) over the files in use: what is planned is
\* written, category after category; no file is removed.
Restore ==
    /\ CanRestore
    /\ Call(operator, [i \in DOMAIN Groups |-> [file |-> "restore", group |-> Groups[i],
                                                   to |-> PlannedFor(Groups[i])]])
    /\ restores' = restores + 1
    /\ UNCHANGED <<workVars, scope, archive, backup, crashes>>

Over(files, current) == [x \in DOMAIN files |-> IF files[x] = None THEN current[x] ELSE files[x]]

RestoreGroup ==
    LET g == Next1(operator).group
        files == Next1(operator).to
    IN  /\ Writes(operator, "restore") /\ Goes(operator)
        /\ IF g = "themes"
           THEN /\ versions' = [t \in Themes |-> Over(files.versions[t], versions[t])]
                /\ index' = Over(files.index, index)
           ELSE UNCHANGED <<versions, index>>
        /\ bound' = IF g \in Kinds /\ files # None THEN [bound EXCEPT ![g] = files] ELSE bound
        /\ session' = IF g = "session" /\ files # None THEN files ELSE session
        /\ tasks' = IF g = "runs" THEN Over(files, tasks) ELSE tasks
        /\ UNCHANGED <<looks, legacy, sources, config, connection, cases>>
        /\ UNCHANGED <<scope, archive, backup, restores, crashes>>

\* Into an empty data root, which is then used instead; a configuration of
\* tools is the project's and stays.
RestoreElsewhere ==
    LET files == archive.files
    IN  /\ CanRestore /\ \A p \in Processes : Idle(p)
        /\ versions' = files.themes.versions /\ index' = files.themes.index
        /\ bound' = [k \in Kinds |-> files[k]]
        /\ session' = files.session /\ tasks' = files.runs
        /\ sources' = [s \in Sources |-> "none"]
        /\ cases' = [c \in CaseIds |-> None]
        /\ restores' = restores + 1
        /\ UNCHANGED <<looks, legacy, config, connection, todo, scope, archive, backup, crashes>>

(***************************************************************************)
(* The system                                                              *)
(***************************************************************************)

Beside == Watch /\ UNCHANGED <<scope, archive, restores, crashes>>

Calls ==
    /\ On("restore") => backup = None
    /\ \/ Talk
       \/ (On("requests") \/ On("improvement")) /\ ExportNow
       \/ On("improvement") /\ Improve
    /\ UNCHANGED workVars /\ Beside

CliTools ==
    /\ On("tools")
    /\ \E tool \in Tools \ Candidates, status \in {"connected", "waiting", "rejected"} :
          DecideConnection(tool, status) \/ RetryHealth(tool, status)
    /\ UNCHANGED themeVars

CliCalls == (CliThemes \/ CliTools) /\ UNCHANGED <<talkVars, cases>> /\ Beside

WriteNext(p) ==
    /\ \/ WriteTheme(p) /\ UNCHANGED <<talkVars, cases>>
       \/ WriteTalk(p) /\ UNCHANGED <<themeVars, cases>>
       \/ WriteCase(p) /\ UNCHANGED <<themeVars, talkVars>>
       \/ Sync(p) \/ ShowView(p)
    /\ Beside

\* What a process leaves is what it has written.
Crash(p) ==
    /\ On("crash") /\ crashes < MaxCrashes /\ ~Idle(p)
    /\ Raises(p) /\ crashes' = crashes + 1
    /\ UNCHANGED <<workVars, archive, restores, scope>> /\ Watch

\* A backup that is cut leaves nothing.
CutBackup == backup # None /\ backup' = None /\ UNCHANGED <<workVars, todo, scope, archive, restores, crashes>>

Init ==
    /\ scope \in Scopes
    /\ InitThemes /\ InitTalk
    /\ cases = [c \in CaseIds |-> None]
    /\ todo = [p \in Processes |-> <<>>]
    /\ archive = None /\ backup = None /\ restores = 0 /\ crashes = 0

Next ==
    \/ Calls \/ CliCalls
    \/ \E p \in {host, cli} : WriteNext(p)
    \/ \E p \in Processes : Crash(p)
    \/ On("backup") /\ (ListFiles \/ HashGroup \/ ArchiveGroup \/ Publish \/ CutBackup)
    \/ Restore \/ RestoreGroup \/ RestoreElsewhere

Spec == Init /\ [][Next]_vars

(***************************************************************************)
(* Properties                                                              *)
(***************************************************************************)

\* Types of everything there is (store.py, conversation_workflow.py, theme_store.py,
\* improvement_cases.py).
TypeOK ==
    /\ ThemesOK /\ TalkOK /\ CasesOK
    /\ crashes \in 0..MaxCrashes /\ restores \in 0..MaxRestores

\* Whatever is derived at once or restored under it, a task is never worked on
\* with another theme than the one it was planned with: _rehydrate_theme
\* refuses it (store.py).
ThemeAsPlanned ==
    \A id \in TaskIds :
        tasks[id] # None /\ tasks[id].ref # None => tasks[id].seen = tasks[id].ref.look

\* A request key is for one task: submit runs it again only after a crash or a
\* restore took the session's record of it (conversation_workflow.py submit).
RequestsRunOnce ==
    \A key \in Keys :
        Cardinality({id \in TaskIds : tasks[id] # None /\ tasks[id].request = key})
            <= 1 + crashes + restores

Adopted == \/ \E c \in CaseIds : cases[c] # None /\ cases[c].applied
           \/ \E i \in DOMAIN todo[host] : todo[host][i].file = "case" /\ todo[host][i].to.applied

\* A candidate's tool is used outside its trials only once it was adopted, or
\* while it is (improvement_cases.py decide_adoption).
StableUntilAdopted ==
    crashes = 0 /\ restores = 0 =>
        ( \/ \E at \in Configs : config[at] \in Candidates
          \/ \E id \in TaskIds : tasks[id] # None /\ tasks[id].trial = 0
                                 /\ tasks[id].override # None
          => Adopted )

\* What a trial made is not exported from the conversation, unless a case was
\* opened from the trial itself (improvement_workflow.py _stage, resume).  A process
\* that dies between the case, with its next trial, and the session, still with the
\* trial before, can leave a conversation that exports it.
TrialsAreNotDelivered ==
    crashes = 0 /\ restores = 0 =>
        \A id \in TaskIds :
            tasks[id] # None /\ tasks[id].trial # 0 /\ tasks[id].status = "exported" =>
                \E c \in CaseIds : cases[c] # None /\ cases[c].source = id

\* A backup that verifies has all its files as they were at one moment, however
\* much was written while it was made (private_backup.py create, verify).
ArchiveIsOneMoment ==
    archive # None => archive.files = archive.moment
=============================================================================
