---------------------------- MODULE WorkspaceProofs ----------------------------
(***************************************************************************)
(* Proofs about Workspace, for every workspace, every set of features that *)
(* are used together and every bound of the model.                         *)
(*                                                                         *)
(* A backup reads files that others write.  What it promises depends on    *)
(* three facts: while it is made its operator restores nothing (Held), a   *)
(* file that was hashed and changed since has spoiled it (Hashing), and    *)
(* once everything is hashed all the hashes are those of one moment        *)
(* (Archiving).                                                            *)
(*                                                                         *)
(* What the files say depends on what is still to be written (todo), by    *)
(* calls that read before and write after.  Fit, CliFit and RestoreFit say *)
(* it of the host, the command line and a restore: everything is of the    *)
(* type of its file, a binding comes after its version (Binds), a task     *)
(* keeps the reference it was planned with, and a new one has the next     *)
(* number (Follows, Numbered).  A restore writes what a copy holds, so     *)
(* copies hold tasks as they once were (Kept, Snapshot).  All this is true *)
(* of a call when it starts; what others do meanwhile does not end it, as  *)
(* versions and tasks are never taken away (Onward).                       *)
(*                                                                         *)
(* That no tool is used before it was adopted is so only together with the *)
(* next write (Calm).  A call that is started when it is so is lawful or   *)
(* adopts a case (Settled, AllLawful, Owes).                               *)
(*                                                                         *)
(* That a request is one task is counted over all the tasks it has, is     *)
(* about to have or can be given by a restore (Covers), and against the    *)
(* record of it: a session that has the record, or a call that writes it   *)
(* before anything but a crash can end it (Sure).  A crash and a restored  *)
(* session can each take the record away once (Budget, Sets).              *)
(*                                                                         *)
(* That no trial is delivered hangs on the session: with a trial as its    *)
(* task it has a case that runs no other, whose stage allows no export     *)
(* (Ready).  A call that saves a plan or a case first leaves it otherwise  *)
(* for a while, so the writes up to its session are followed one by one    *)
(* (Moves, Lead); all others keep what is so (Plain).                      *)
(***************************************************************************)
EXTENDS Workspace, TLAPS, FiniteSetTheorems, WellFoundedInduction, SequenceTheorems

(***************************************************************************)
(* Who writes what                                                         *)
(***************************************************************************)

\* What a step leaves process p to write.
Leaves(p) == \E ws : todo' = [todo EXCEPT ![p] = ws]

\* A call leaves its writes.
LEMMA CallLeaves == ASSUME NEW p, NEW ws, Call(p, ws) PROVE Leaves(p)
BY DEF Call, Leaves

\* The calls of the conversation are those of the host.
LEMMA TalkLeaves == Talk => Leaves(host)
<1> SUFFICES ASSUME Talk PROVE Leaves(host)
  OBVIOUS
<1>1. CASE OpenView
  BY <1>1, CallLeaves DEF OpenView
<1>2. CASE \E t \in Themes, n \in 1..MaxVersions : SelectTheme(t, n) \/ DeriveTheme(t, n)
  BY <1>2, CallLeaves DEF SelectTheme, DeriveTheme
<1>3. ASSUME NEW key \in Keys, NEW end, NEW missing, Submit(key, end, missing)
      PROVE  Leaves(host)
  BY <1>3, CallLeaves DEF Submit
<1>4. ASSUME NEW approved, Decide(approved) PROVE Leaves(host)
  BY <1>4, CallLeaves DEF Decide
<1>5. CASE ContinueWork \/ Recover \/ ContinueUnbound \/ SelectExternalEdit
  BY <1>5, CallLeaves DEF ContinueWork, Recover, ContinueUnbound, SelectExternalEdit
<1>6. ASSUME NEW ends, RunHost(ends) PROVE Leaves(host)
  BY <1>6, CallLeaves DEF RunHost
<1>7. ASSUME NEW end, NEW missing, Retry(end, missing) PROVE Leaves(host)
  BY <1>7, CallLeaves DEF Retry
<1>8. ASSUME NEW t, CreateTheme(t) PROVE Leaves(host)
  BY <1>8, CallLeaves DEF CreateTheme
<1>9. ASSUME NEW s, NEW forTheme, ImportSource(s, forTheme) PROVE Leaves(host)
  BY <1>9, CallLeaves DEF ImportSource
<1>10. ASSUME NEW s, NEW t, NEW n, ThemeFromSource(t, n, s) PROVE Leaves(host)
  BY <1>10, CallLeaves DEF ThemeFromSource
<1> QED BY <1>1, <1>2, <1>3, <1>4, <1>5, <1>6, <1>7, <1>8, <1>9, <1>10 DEF Talk

\* So are those about improvement cases.
LEMMA ImproveLeaves == ExportNow \/ Improve => Leaves(host)
<1> SUFFICES ASSUME ExportNow \/ Improve PROVE Leaves(host)
  OBVIOUS
<1>1. CASE ExportNow
  BY <1>1, CallLeaves DEF ExportNow, Export
<1>2. ASSUME NEW r, Becomes(r) PROVE Leaves(host)
  BY <1>2, CallLeaves DEF Becomes
<1>3. ASSUME NEW tool, NEW at, NEW proposed, OpenCase(tool, at, proposed) PROVE Leaves(host)
  BY <1>3, CallLeaves DEF OpenCase
<1>4. CASE Propose \/ LinkCandidate \/ RecordResult \/ MarkPublished \/ ConfirmRefresh
  BY <1>2, <1>4 DEF Propose, LinkCandidate, RecordResult, MarkPublished, ConfirmRefresh, GoesTo
<1>5. ASSUME NEW ready, ApproveTrial(ready) \/ RecordRegression(ready) PROVE Leaves(host)
  BY <1>2, <1>5 DEF ApproveTrial, RecordRegression, GoesTo
<1>6. ASSUME NEW decision, RefuseTrial(decision) \/ RefuseAdoption(decision)
      PROVE  Leaves(host)
  BY <1>2, <1>6 DEF RefuseTrial, RefuseAdoption, GoesTo
<1>7. CASE Adopt
  BY <1>2, <1>7, CallLeaves DEF Adopt, GoesTo
<1>8. CASE Resume
  BY <1>8, CallLeaves DEF Resume
<1>9. ASSUME NEW end, NEW missing, StartTrial(end, missing) PROVE Leaves(host)
  BY <1>9, CallLeaves DEF StartTrial
<1> QED BY <1>1, <1>3, <1>4, <1>5, <1>6, <1>7, <1>8, <1>9 DEF Improve

\* The command line leaves writes of its own.
LEMMA CliLeaves == CliThemes \/ CliTools => Leaves(cli)
<1> SUFFICES ASSUME CliThemes \/ CliTools PROVE Leaves(cli)
  OBVIOUS
<1>1. ASSUME NEW t, NEW n, NEW kinds, DeriveFromCli(t, n, kinds) PROVE Leaves(cli)
  BY <1>1, CallLeaves DEF DeriveFromCli
<1>2. ASSUME NEW t, NEW n, NEW k, BindFromCli(k, t, n) PROVE Leaves(cli)
  BY <1>2, CallLeaves DEF BindFromCli
<1>3. ASSUME NEW t, Migrate(t) PROVE Leaves(cli)
  BY <1>3, CallLeaves DEF Migrate
<1>4. ASSUME NEW tool, NEW status, DecideConnection(tool, status) \/ RetryHealth(tool, status)
      PROVE  Leaves(cli)
  BY <1>4, CallLeaves DEF DecideConnection, RetryHealth
<1> QED BY <1>1, <1>2, <1>3, <1>4 DEF CliThemes, CliTools

\* A write leaves the rest of the call, or what it found out it needs.
LEMMA WriteLeaves ==
    ASSUME NEW p, \/ WriteTheme(p) \/ WriteTalk(p) \/ WriteCase(p) \/ ShowView(p)
    PROVE  Leaves(p)
<1>1. CASE Goes(p) \/ Raises(p)
  BY <1>1 DEF Goes, Raises, Leaves
<1>2. ASSUME NEW ws, Continues(p, ws) PROVE Leaves(p)
  BY <1>2 DEF Continues, Leaves
<1>3. CASE WriteTheme(p) \/ WriteCase(p) \/ ShowView(p)
  BY <1>1, <1>3 DEF WriteTheme, WriteVersion, WriteIndex, WriteBinding, Unlink, WriteCase, ShowView
<1>4. CASE WritePlan(p) \/ WriteTask(p) \/ WriteSession(p) \/ WriteSource(p) \/ WriteConfig(p)
           \/ WriteConnection(p) \/ LoadActive(p)
  BY <1>1, <1>4 DEF WritePlan, WriteTask, WriteSession, WriteSource, WriteConfig,
                    WriteConnection, LoadActive
<1>5. CASE DeriveHere(p) \/ LinkSource(p) \/ Repair(p)
  BY <1>1, <1>2, <1>5 DEF DeriveHere, LinkSource, Repair
<1> QED BY <1>3, <1>4, <1>5 DEF WriteTalk

(***************************************************************************)
(* A backup in the making                                                  *)
(***************************************************************************)

\* While there is one, the operator does nothing else.
Held == (todo = [p \in Processes |-> todo[p]]) /\ (backup # None => Idle(operator))

\* What has been hashed is as the files are, or the backup is spoiled.
Hashing ==
    Making("hash") =>
        /\ backup = [phase |-> "hash", at |-> backup.at, listed |-> backup.listed,
                     moment |-> backup.moment, copy |-> backup.copy]
        /\ backup.copy = [g \in GroupSet |-> backup.copy[g]]
        /\ backup.at \in 1..5
        /\ \A j \in 1..(backup.at - 1) :
              backup.copy[Groups[j]] = Seen(Tree, backup.listed)[Groups[j]]

\* What is put into the archive is what was hashed, at one moment.
Archiving ==
    Making("archive") =>
        /\ backup = [phase |-> "archive", at |-> backup.at, listed |-> backup.listed,
                     moment |-> backup.moment, copy |-> backup.copy]
        /\ backup.copy = backup.moment

BackupInv == Held /\ Hashing /\ Archiving /\ ArchiveIsOneMoment

\* The categories of files, each in its place.
LEMMA FiveGroups ==
    /\ DOMAIN Groups = 1..5 /\ Len(Groups) = 5
    /\ GroupSet = {"themes", "conversation", "session", "project", "runs"}
    /\ \A i \in 1..5 : Groups[i] \in GroupSet
    /\ \A g \in GroupSet : \E i \in 1..5 : g = Groups[i]
    /\ \A i, j \in 1..5 : i # j => Groups[i] # Groups[j]
<1>1. DOMAIN Groups = 1..5 /\ Len(Groups) = 5
  BY DEF Groups
<1>2. /\ Groups[1] = "themes" /\ Groups[2] = "conversation" /\ Groups[3] = "session"
      /\ Groups[4] = "project" /\ Groups[5] = "runs"
  BY DEF Groups
<1>3. GroupSet = {Groups[1], Groups[2], Groups[3], Groups[4], Groups[5]}
  BY <1>1 DEF GroupSet
<1> QED BY <1>1, <1>2, <1>3

\* What a backup sees is sorted by category.
LEMMA SeenGroups ==
    ASSUME NEW listed
    PROVE  Seen(Tree, listed) = [g \in GroupSet |-> Seen(Tree, listed)[g]]
<1> DEFINE s == Seen(Tree, listed)
<1>1. \E a, b, d, e : s = [Tree EXCEPT !.themes = a, !.conversation = b,
                                       !.project = d, !.runs = e]
  BY Zenon DEF Seen
<1> HIDE DEF s
<1>2. Tree = [g \in GroupSet |-> Tree[g]]
  BY FiveGroups DEF Tree
<1>3. s = [g \in GroupSet |-> s[g]]
  BY <1>1, <1>2
<1> QED BY <1>3 DEF s

\* A step that leaves the files and the backup as they are.
LEMMA NothingSeen ==
    ASSUME BackupInv, UNCHANGED <<Tree, backup, archive>>, Held'
    PROVE  BackupInv'
BY DEF BackupInv, Hashing, Archiving, ArchiveIsOneMoment, Making

\* A step beside the backup is noticed wherever it matters.
LEMMA WatchStep ==
    ASSUME BackupInv, Watch, UNCHANGED archive, NEW p \in {host, cli}, Leaves(p) \/ UNCHANGED todo
    PROVE  BackupInv'
<1>1. PICK ws : todo' = [todo EXCEPT ![p] = ws] \/ todo' = todo
  BY DEF Leaves
<1>2. todo' = [q \in Processes |-> todo'[q]] /\ todo'[operator] = todo[operator]
  BY <1>1 DEF BackupInv, Held, Processes, host, cli, operator
<1>3. ArchiveIsOneMoment'
  BY DEF BackupInv, ArchiveIsOneMoment
<1>4. CASE backup' = [phase |-> "spoiled"] /\ (Making("hash") \/ Making("archive"))
  BY <1>2, <1>3, <1>4 DEF BackupInv, Held, Hashing, Archiving, Making, Idle
<1>5. CASE /\ backup' = backup
           /\ Making("hash") \/ Making("archive")
                => \A g \in Watched : Seen(Tree', backup.listed)[g] = backup.copy[g]
  <2>1. Held'
    BY <1>2, <1>5 DEF BackupInv, Held, Idle
  <2>2. Archiving'
    BY <1>5 DEF BackupInv, Archiving, Making
  <2>3. Hashing'
    <3> SUFFICES ASSUME Making("hash"), NEW j \in 1..(backup.at - 1)
                 PROVE  Seen(Tree', backup.listed)[Groups[j]] = backup.copy[Groups[j]]
      BY <1>5 DEF BackupInv, Hashing, Making
    <3>1. j \in DOMAIN Groups /\ j < backup.at /\ backup.phase = "hash"
      BY FiveGroups DEF BackupInv, Hashing, Making
    <3>2. Groups[j] \in Watched
      BY <3>1 DEF Watched
    <3> QED BY <1>5, <3>2
  <2> QED BY <1>3, <2>1, <2>2, <2>3 DEF BackupInv
<1> QED BY <1>4, <1>5 DEF Watch

\* A backup that only listed the files has hashed none.
LEMMA ListStep == BackupInv /\ ListFiles => BackupInv'
<1> SUFFICES ASSUME BackupInv, ListFiles PROVE BackupInv'
  OBVIOUS
<1>1. /\ backup' = [phase |-> "hash", at |-> 1, listed |-> Listed, moment |-> None,
                    copy |-> [g \in GroupSet |-> None]]
      /\ Idle(operator) /\ UNCHANGED <<todo, archive>>
  BY DEF ListFiles
<1> HIDE DEF Listed
<1>2. Held' /\ Archiving' /\ ArchiveIsOneMoment'
  BY <1>1 DEF BackupInv, Held, Idle, Archiving, Making, ArchiveIsOneMoment
<1>3. Hashing'
  BY <1>1 DEF Hashing, Making
<1> QED BY <1>2, <1>3 DEF BackupInv

\* Hashing a category adds its copy; the last one ends the hashing.
LEMMA HashedIs ==
    ASSUME BackupInv, HashGroup
    PROVE  LET at == backup.at
               now == Seen(Tree, backup.listed)
               last == at = Len(Groups)
           IN  backup' = [phase |-> IF last THEN "archive" ELSE "hash",
                          at |-> IF last THEN 1 ELSE at + 1, listed |-> backup.listed,
                          moment |-> IF last THEN now ELSE None,
                          copy |-> [backup.copy EXCEPT ![Groups[at]] = now[Groups[at]]]]
<1> DEFINE at == backup.at
           g == Groups[at]
           now == Seen(Tree, backup.listed)
           last == at = Len(Groups)
           copy == [backup.copy EXCEPT ![g] = now[g]]
<1>1. /\ Making("hash") /\ backup.phase = "hash"
      /\ backup = [phase |-> "hash", at |-> at, listed |-> backup.listed,
                   moment |-> backup.moment, copy |-> backup.copy]
  BY DEF HashGroup, Making, BackupInv, Hashing
<1>2. backup' = [backup EXCEPT !.copy[g] = now[g],
                    !.phase = IF last THEN "archive" ELSE @,
                    !.at = IF last THEN 1 ELSE @ + 1,
                    !.moment = IF last THEN now ELSE None]
  BY DEF HashGroup
<1> HIDE DEF now, g, last
<1>3. CASE last
  BY <1>1, <1>2, <1>3 DEF g, now, last
<1>4. CASE ~last
  <2>1. backup' = [backup EXCEPT !.copy[g] = now[g], !.phase = "hash", !.at = at + 1,
                       !.moment = None]
    BY <1>1, <1>2, <1>4
  <2>2. backup' = [phase |-> "hash", at |-> at + 1, listed |-> backup.listed,
                   moment |-> None, copy |-> copy]
    BY <1>1, <2>1
  <2> QED BY <1>4, <2>2 DEF g, now, last
<1> QED BY <1>3, <1>4

\* A category is hashed; once all are, the hashes are of one moment.
LEMMA HashStep == BackupInv /\ HashGroup => BackupInv'
<1> SUFFICES ASSUME BackupInv, HashGroup PROVE BackupInv'
  OBVIOUS
<1> DEFINE at == backup.at
           g == Groups[at]
           now == Seen(Tree, backup.listed)
           last == at = Len(Groups)
           copy == [backup.copy EXCEPT ![g] = now[g]]
<1>1. /\ Making("hash") /\ UNCHANGED <<Tree, todo, archive>>
      /\ backup # None
  BY DEF HashGroup, Tree, workVars, themeVars, talkVars, Making
<1>2. /\ backup = [phase |-> "hash", at |-> at, listed |-> backup.listed,
                   moment |-> backup.moment, copy |-> backup.copy]
      /\ backup.copy = [h \in GroupSet |-> backup.copy[h]]
      /\ at \in 1..5
      /\ \A j \in 1..(at - 1) : backup.copy[Groups[j]] = now[Groups[j]]
  BY <1>1 DEF BackupInv, Hashing
<1>3. backup' = [phase |-> IF last THEN "archive" ELSE "hash", at |-> IF last THEN 1 ELSE at + 1,
                 listed |-> backup.listed, moment |-> IF last THEN now ELSE None, copy |-> copy]
  BY HashedIs
<1> HIDE DEF now
<1>4. /\ g \in GroupSet /\ copy = [h \in GroupSet |-> copy[h]] /\ copy[g] = now[g]
      /\ \A j \in 1..(at - 1) : copy[Groups[j]] = now[Groups[j]]
  <2>1. g \in GroupSet /\ \A j \in 1..(at - 1) : Groups[j] \in GroupSet /\ Groups[j] # g
    BY <1>2, FiveGroups
  <2> HIDE DEF g
  <2> QED BY <1>2, <2>1
<1>5. \A j \in 1..at : copy[Groups[j]] = now[Groups[j]]
  <2> SUFFICES ASSUME NEW j \in 1..at PROVE copy[Groups[j]] = now[Groups[j]]
    OBVIOUS
  <2>1. CASE j = at
    BY <1>4, <2>1
  <2>2. CASE j # at
    <3>1. j \in 1..(at - 1)
      BY <1>2, <2>2
    <3> QED BY <1>4, <3>1
  <2> QED BY <2>1, <2>2
<1>6. Held' /\ ArchiveIsOneMoment'
  BY <1>1 DEF BackupInv, Held, Idle, ArchiveIsOneMoment
<1>7. CASE last
  <2>1. \A h \in GroupSet : copy[h] = now[h]
    BY <1>5, <1>7, FiveGroups
  <2>2. now = [h \in GroupSet |-> now[h]]
    BY SeenGroups DEF now
  <2>3. copy = now
    BY <1>4, <2>1, <2>2
  <2>4. backup' = [phase |-> "archive", at |-> 1, listed |-> backup.listed,
                   moment |-> now, copy |-> now]
    BY <1>3, <1>7, <2>3
  <2>5. Archiving' /\ Hashing'
    BY <2>4 DEF Archiving, Hashing, Making
  <2> QED BY <1>6, <2>5 DEF BackupInv
<1>8. CASE ~last
  <2>1. at + 1 \in 1..5 /\ (at + 1) - 1 = at
    BY <1>2, <1>8, FiveGroups
  <2> HIDE DEF copy
  <2>2. backup' = [phase |-> "hash", at |-> at + 1, listed |-> backup.listed,
                   moment |-> None, copy |-> copy]
    BY <1>3, <1>8
  <2>3. Archiving'
    BY <2>2 DEF Archiving, Making
  <2>4. Seen(Tree, backup.listed)' = now
    <3>1. backup'.listed = backup.listed
      BY <2>2
    <3> QED BY <1>1, <3>1 DEF now
  <2>5. Hashing'
    BY <1>4, <1>5, <2>1, <2>2, <2>4 DEF Hashing, Making
  <2> QED BY <1>6, <2>3, <2>5 DEF BackupInv
<1> QED BY <1>7, <1>8

\* The archive gets what was hashed.
LEMMA ArchiveStep == BackupInv /\ (ArchiveGroup \/ Publish \/ CutBackup) => BackupInv'
<1> SUFFICES ASSUME BackupInv, ArchiveGroup \/ Publish \/ CutBackup PROVE BackupInv'
  OBVIOUS
<1>1. CASE ArchiveGroup
  <2>1. Making("archive") /\ backup' = [backup EXCEPT !.at = @ + 1] /\ UNCHANGED <<todo, archive>>
    BY <1>1 DEF ArchiveGroup
  <2>2. backup' = [phase |-> "archive", at |-> backup.at + 1, listed |-> backup.listed,
                   moment |-> backup.moment, copy |-> backup.copy]
        /\ backup.copy = backup.moment
    BY <2>1 DEF BackupInv, Archiving
  <2>3. Archiving' /\ Hashing'
    BY <2>2 DEF Archiving, Hashing, Making
  <2> QED BY <2>1, <2>3 DEF BackupInv, Held, Idle, Making, ArchiveIsOneMoment
<1>2. CASE Publish \/ CutBackup
  <2>1. /\ backup' = None /\ UNCHANGED todo
        /\ archive' \in {archive, None, [files |-> backup.copy, moment |-> backup.moment]}
    BY <1>2 DEF Publish, CutBackup
  <2>2. archive' = [files |-> backup.copy, moment |-> backup.moment] /\ archive' # archive
        /\ archive' # None => Making("archive")
    BY <1>2 DEF Publish, CutBackup
  <2>3. ArchiveIsOneMoment'
    BY <2>1, <2>2 DEF BackupInv, Archiving, ArchiveIsOneMoment
  <2>4. Held' /\ Hashing' /\ Archiving'
    BY <2>1 DEF BackupInv, Held, Hashing, Archiving, Making
  <2> QED BY <2>3, <2>4 DEF BackupInv
<1> QED BY <1>1, <1>2

\* A restore begins and goes on only while there is no backup in the making.
LEMMA RestoreStep ==
    BackupInv /\ (Restore \/ RestoreGroup \/ RestoreElsewhere) => BackupInv'
<1> SUFFICES ASSUME BackupInv, Restore \/ RestoreGroup \/ RestoreElsewhere PROVE BackupInv'
  OBVIOUS
<1>1. backup = None /\ UNCHANGED <<backup, archive>>
  BY DEF Restore, RestoreGroup, RestoreElsewhere, CanRestore, Writes, BackupInv, Held
<1>2. todo' = [p \in Processes |-> todo'[p]]
  <2>1. Leaves(operator) \/ UNCHANGED todo
    BY DEF Restore, RestoreGroup, RestoreElsewhere, Call, Goes, Leaves
  <2> QED BY <2>1 DEF BackupInv, Held, Leaves
<1> QED BY <1>1, <1>2 DEF BackupInv, Held, Hashing, Archiving, Making, ArchiveIsOneMoment

\* At first there is no backup.
LEMMA BackupInit == Init => BackupInv
<1> SUFFICES ASSUME Init PROVE BackupInv
  OBVIOUS
<1>1. todo = [p \in Processes |-> <<>>] /\ archive = None /\ backup = None
  BY DEF Init
<1> QED BY <1>1 DEF BackupInv, Held, Hashing, Archiving, Making, ArchiveIsOneMoment

\* Every step keeps it.
LEMMA BackupStep == BackupInv /\ [Next]_vars => BackupInv'
<1> SUFFICES ASSUME BackupInv, [Next]_vars PROVE BackupInv'
  OBVIOUS
<1>1. CASE Calls
  <2>1. Leaves(host)
    BY <1>1, TalkLeaves, ImproveLeaves DEF Calls
  <2>2. Watch /\ UNCHANGED archive
    BY <1>1 DEF Calls, Beside
  <2> QED BY <2>1, <2>2, WatchStep
<1>2. CASE CliCalls
  <2>1. Leaves(cli)
    BY <1>2, CliLeaves DEF CliCalls
  <2>2. Watch /\ UNCHANGED archive
    BY <1>2 DEF CliCalls, Beside
  <2> QED BY <2>1, <2>2, WatchStep
<1>3. ASSUME NEW p \in {host, cli}, WriteNext(p) PROVE BackupInv'
  <2>1. Leaves(p) \/ UNCHANGED todo
    BY <1>3, WriteLeaves DEF WriteNext, Sync
  <2>2. Watch /\ UNCHANGED archive
    BY <1>3 DEF WriteNext, Beside
  <2> QED BY <2>1, <2>2, WatchStep
<1>4. ASSUME NEW p \in Processes, Crash(p) PROVE BackupInv'
  <2>1. Watch /\ UNCHANGED archive /\ Leaves(p)
    BY <1>4 DEF Crash, Raises, Leaves
  <2>2. CASE p \in {host, cli}
    BY <2>1, <2>2, WatchStep
  <2>3. CASE p = operator
    <3>1. backup = None /\ backup' = None
      BY <1>4, <2>1, <2>3 DEF Crash, BackupInv, Held, Watch, Making
    <3>2. todo' = [q \in Processes |-> todo'[q]]
      BY <2>1 DEF BackupInv, Held, Leaves
    <3> QED BY <2>1, <3>1, <3>2 DEF BackupInv, Held, Hashing, Archiving, Making,
                                    ArchiveIsOneMoment
  <2> QED BY <2>2, <2>3 DEF Processes
<1>5. CASE ListFiles \/ HashGroup \/ ArchiveGroup \/ Publish \/ CutBackup
  BY <1>5, ListStep, HashStep, ArchiveStep
<1>6. CASE Restore \/ RestoreGroup \/ RestoreElsewhere
  BY <1>6, RestoreStep
<1>7. CASE UNCHANGED vars
  <2>1. UNCHANGED <<Tree, backup, archive, todo>>
    BY <1>7 DEF vars, workVars, themeVars, talkVars, Tree
  <2> QED BY <2>1, NothingSeen DEF BackupInv, Held, Idle
<1> QED BY <1>1, <1>2, <1>3, <1>4, <1>5, <1>6, <1>7 DEF Next

\* A backup that verifies has all its files as they were at one moment, however
\* many processes write, restore and die while it is made.
THEOREM ArchivesAreConsistent == Spec => []ArchiveIsOneMoment
<1>1. Spec => []BackupInv
  BY BackupInit, BackupStep, PTL DEF Spec
<1>2. BackupInv => ArchiveIsOneMoment
  BY DEF BackupInv
<1> QED BY <1>1, <1>2, PTL

(***************************************************************************)
(* The writes of a call                                                    *)
(***************************************************************************)

\* A reference whose content was made, the first k contents being there.
Found(k) == [theme : Themes, n : 1..MaxVersions, look : 1..k]

\* A task as a service saves it, which may be about to be executed.
Drafts ==
    [status : Planned \cup {"running", "failed", "execute"}, request : Keys \cup {None},
     ref : Refs \cup {None}, seen : 1..MaxLooks \cup {None}, missing : BOOLEAN,
     tool : Tools \cup {None}, override : Tools \cup {None}, trial : 0..MaxCases]

ThemeWrites ==
    [file : {"version"}, theme : Themes, n : 1..MaxVersions, srcs : SUBSET Sources]
    \cup [file : {"index"}, theme : Themes, n : 1..MaxVersions]
    \cup [file : {"binding"}, kind : Kinds, theme : Themes, n : 1..MaxVersions]

CliWrites ==
    ThemeWrites \cup [file : {"legacy"}]
    \cup [file : {"config"}, at : Configs, tool : Tools \ Candidates]
    \cup [file : {"connection"}, to : {"connected", "waiting", "rejected"}]

\* What a call finds out only on its way.
LateWrites ==
    [file : {"view", "load", "repair"}]
    \cup [file : {"derive"}, theme : Themes, n : 0..MaxVersions, src : Sources]
    \cup [file : {"link"}, src : Sources]

SavingWrites ==
    [file : {"session"}, to : Sessions]
    \cup [file : {"plan"}, id : TaskIds, to : TaskRecords]
    \cup [file : {"task"}, id : TaskIds, to : Drafts]
    \cup [file : {"source"}, id : Sources, to : {"file", "registered"}]
    \cup [file : {"config"}, at : Configs, tool : Tools \cup {None}]
    \cup [file : {"case"}, id : CaseIds, to : CaseRecords]

HostWrites == ThemeWrites \cup LateWrites \cup SavingWrites

\* What a write of a theme is.
LEMMA ThemeWriteIs ==
    ASSUME NEW w \in ThemeWrites
    PROVE  /\ w.file \in {"version", "index", "binding"}
           /\ w.theme \in Themes /\ w.n \in 1..MaxVersions
           /\ w.file = "version" => w.srcs \subseteq Sources
           /\ w.file = "binding" => w.kind \in Kinds
BY DEF ThemeWrites

\* What a write of the command line is.
LEMMA CliWriteIs ==
    ASSUME NEW w \in CliWrites
    PROVE  /\ w.file \in {"version", "index", "binding", "legacy", "config", "connection"}
           /\ w.file \in {"version", "index", "binding"} => w \in ThemeWrites
           /\ w.file = "config" => w.at \in Configs /\ w.tool \in Tools \ Candidates
           /\ w.file = "connection" => w.to \in {"connected", "waiting", "rejected"}
BY DEF CliWrites, ThemeWrites

\* What a write of the conversation is.
LEMMA HostWriteIs ==
    ASSUME NEW w \in HostWrites
    PROVE  /\ w.file \notin {"legacy", "connection", "restore"}
           /\ w.file \in {"version", "index", "binding"} => w \in ThemeWrites
           /\ w.file = "derive" => w.theme \in Themes /\ w.n \in 0..MaxVersions /\ w.src \in Sources
           /\ w.file = "link" => w.src \in Sources
           /\ w.file = "session" => w.to \in Sessions
           /\ w.file = "plan" => w.id \in TaskIds /\ w.to \in TaskRecords
           /\ w.file = "task" => w.id \in TaskIds /\ w.to \in Drafts
           /\ w.file = "source" => w.id \in Sources /\ w.to \in {"file", "registered"}
           /\ w.file = "config" => w.at \in Configs /\ w.tool \in Tools \cup {None}
           /\ w.file = "case" => w.id \in CaseIds /\ w.to \in CaseRecords
<1>1. CASE w \in ThemeWrites
  BY <1>1, ThemeWriteIs
<1>2. CASE w \in LateWrites
  BY <1>2 DEF LateWrites
<1>3. CASE w \in SavingWrites
  BY <1>3 DEF SavingWrites
<1> QED
  BY <1>1, <1>2, <1>3 DEF HostWrites

(***************************************************************************)
(* What is left of a call                                                  *)
(***************************************************************************)

\* A version that is bound to is there, or is written before.
Binds(ws, vs) ==
    \A i \in 1..Len(ws) : ws[i].file = "binding" =>
       \/ vs[ws[i].theme][ws[i].n] # None
       \/ \E j \in 1..(i - 1) : ws[j].file = "version" /\ ws[j].theme = ws[i].theme
                                                       /\ ws[j].n = ws[i].n

AsPlanned(r) == r.ref # None => r.seen = r.ref.look
Made(ts) == {id \in TaskIds : ts[id] # None}
Fresh(ts) == 1 + Cardinality(Made(ts))

\* A task is saved with the reference it has.  A new one is planned with ref.
Follows(w, ts, ref) ==
    w.file \in {"plan", "task"} =>
       /\ w.file = "plan" => AsPlanned(w.to)
       /\ IF ts[w.id] # None THEN w.to.ref = ts[w.id].ref
          ELSE w.file = "plan" /\ w.id = Fresh(ts) /\ w.to.ref = ref

Fit(ws, vs, ts, ref) ==
    /\ ws \in Seq(HostWrites) /\ Binds(ws, vs)
    /\ \A i \in 1..Len(ws) : Follows(ws[i], ts, ref)

CliFit(ws, vs) == ws \in Seq(CliWrites) /\ Binds(ws, vs)

\* A tool of a case outside its trials: in a configuration, or in a task.
Apart(r) == r.trial = 0 /\ r.override # None
Foreign(w) == \/ w.file = "config" /\ w.tool \in Candidates
              \/ w.file \in {"plan", "task"} /\ Apart(w.to)
InFiles(cf, ts) == \/ \E at \in Configs : cf[at] \in Candidates
                   \/ \E id \in TaskIds : ts[id] # None /\ Apart(ts[id])

\* A case was adopted, the files say or a write is about to.
Durable(cs) == \E c \in CaseIds : cs[c] # None /\ cs[c].applied
IsApplied(w) == w.file = "case" /\ w.to.applied

Opened(cs) == {c \in CaseIds : cs[c] # None}
InOrder(cs) == \E n \in 0..MaxCases : Opened(cs) = 1..n

\* A write that brings in no tool that was not adopted, and adopts none.
Lawful(w, cs) ==
    /\ Foreign(w) => Durable(cs)
    /\ w.file = "case" => IF cs[w.id] = None
                          THEN w.id = 1 + Cardinality(Opened(cs)) /\ ~w.to.applied
                          ELSE w.to.applied = cs[w.id].applied
AllLawful(ws, cs) == \A i \in 1..Len(ws) : Lawful(ws[i], cs)

\* A call that adopts may bring a tool in, just before it says so.  ap: the cases
\* that are adopted when it is done.
Owed(ws, cs, ap) ==
    \A i \in 1..Len(ws) :
       /\ Foreign(ws[i]) => Durable(cs) \/ (i < Len(ws) /\ IsApplied(ws[i + 1]))
       /\ ws[i].file = "case" =>
             /\ ws[i].to.applied = ap[ws[i].id]
             /\ cs[ws[i].id] # None \/ ws[i].id = 1 + Cardinality(Opened(cs))
Knows(cs, ap) == \A c \in CaseIds : cs[c] # None /\ cs[c].applied => ap[c]
Owes(ws, cs) == \E ap : Knows(cs, ap) /\ Owed(ws, cs, ap)

\* It has nothing to do with either.
Light(ws) == \A i \in 1..Len(ws) : ws[i].file \notin {"config", "plan", "task", "case", "session"}

\* A task is saved with the request it has, unless it is the task id of a request key
\* that is new; a session records the requests that are recorded, and the new one.
Tags(w, s, ts, key, id) ==
    /\ w.file \in {"plan", "task"} /\ w.to.request # None =>
          \/ ts[w.id] # None /\ ts[w.id].request = w.to.request
          \/ w.to.request = key /\ w.id = id
    /\ w.file = "session" => \A k \in Keys : s.done[k] # 0 \/ k = key => w.to.done[k] # 0
AllTag(ws, s, ts, key, id) == \A i \in 1..Len(ws) : Tags(ws[i], s, ts, key, id)

\* The tasks that are trials; the tasks that a case was opened from; a case that is there.
Tried(ts) == {id \in Made(ts) : ts[id].trial # 0}
Behind(cs, id) == \E c \in CaseIds : cs[c] # None /\ cs[c].source = id
Stands(cs, c) == c # 0 /\ cs[c] # None

\* A session whose task is a trial has a case with a source that runs no other trial,
\* or a case was opened from that trial.
Traced(s, ts, cs) ==
    s.active \in Tried(ts) =>
       \/ Behind(cs, s.active)
       \/ /\ Stands(cs, s.case) /\ cs[s.case].source # 0
          /\ cs[s.case].status = "candidate-running" => cs[s.case].trial = s.active

\* It has a task, unless nothing was tried and nothing can be.
Placed(s, ts, cs) ==
    s.active \notin Made(ts) =>
       Tried(ts) = {} /\ ~(Stands(cs, s.case) /\ cs[s.case].source # 0)

\* Its requests are for tasks that are no trials.
Noted(s, ts) == \A k \in Keys : s.done[k] # 0 => s.done[k] \in Made(ts) \ Tried(ts)

Ready(s, ts, cs) == Traced(s, ts, cs) /\ Placed(s, ts, cs) /\ Noted(s, ts)
Undelivered(ts, cs) == \A id \in Tried(ts) : ts[id].status = "exported" => Behind(cs, id)

\* A write that changes nothing of this: a trial stays one, and a case's source its
\* source.
KeepsTask(id, r, ts, cs) ==
    /\ r.trial = IF ts[id] = None THEN 0 ELSE ts[id].trial
    /\ r.status = "exported" /\ r.trial # 0 => Behind(cs, id)
KeepsCase(c, r, cs) ==
    cs[c] # None /\ r.source = cs[c].source /\ r.status # "candidate-running"
Plain(w, ts, cs) ==
    /\ w.file \in {"plan", "task"} => KeepsTask(w.id, w.to, ts, cs)
    /\ w.file = "case" => KeepsCase(w.id, w.to, cs)
    /\ w.file = "session" => Ready(w.to, ts, cs)
AllPlain(ws, ts, cs) == \A i \in 1..Len(ws) : Plain(ws[i], ts, cs)

\* A plan or a case is saved.
Moves(w, ts, cs, tt, ct) ==
    \/ w.file = "plan" /\ tt = [ts EXCEPT ![w.id] = w.to] /\ ct = cs
    \/ w.file = "case" /\ tt = ts /\ ct = [cs EXCEPT ![w.id] = w.to]

\* Writes that lead to a session, through tasks tss and cases css: it is ready by
\* then, and they are plain from then on.
Leading(ws, n, tss, css) ==
    /\ \A j \in 1..(n - 1) : Moves(ws[j], tss[j], css[j], tss[j + 1], css[j + 1])
    /\ \A j \in 1..n : Undelivered(tss[j], css[j])
    /\ ws[n].file = "session" /\ Ready(ws[n].to, tss[n], css[n])
    /\ \A i \in (n + 1)..Len(ws) : Plain(ws[i], tss[n], css[n])
Lead(ws, ts, cs) ==
    \E n \in 1..Len(ws) : \E tss, css :
       tss[1] = ts /\ css[1] = cs /\ Leading(ws, n, tss, css)

\* Its first writes are plans, and then the session.
Plans(ws) == \A i \in 1..Len(ws) : ws[i].file = "plan"
Leads(ws) == \E n \in 1..Len(ws) :
                ws[n].file = "session" /\ \A j \in 1..(n - 1) : ws[j].file = "plan"

\* Two lists of writes after one another.
LEMMA BindsJoin ==
    ASSUME NEW S, NEW s \in Seq(S), NEW t \in Seq(S), NEW vs, Binds(s, vs), Binds(t, vs)
    PROVE  Binds(s \o t, vs)
<1>1. /\ Len(s \o t) = Len(s) + Len(t) /\ Len(s) \in Nat /\ Len(t) \in Nat
      /\ \A i \in 1..Len(s) : (s \o t)[i] = s[i]
      /\ \A i \in (Len(s) + 1)..(Len(s) + Len(t)) : (s \o t)[i] = t[i - Len(s)]
  OBVIOUS
<1> DEFINE u == s \o t
<1>2. SUFFICES ASSUME NEW i \in 1..Len(u), u[i].file = "binding"
               PROVE  \/ vs[u[i].theme][u[i].n] # None
                      \/ \E j \in 1..(i - 1) : u[j].file = "version" /\ u[j].theme = u[i].theme
                                                                     /\ u[j].n = u[i].n
  BY DEF Binds
<1>3. CASE i <= Len(s)
  <2>1. i \in 1..Len(s) /\ u[i] = s[i] /\ \A j \in 1..(i - 1) : u[j] = s[j]
    BY <1>1, <1>3
  <2> HIDE DEF u
  <2>2. CASE vs[s[i].theme][s[i].n] # None
    BY <2>1, <2>2
  <2>3. CASE ~(vs[s[i].theme][s[i].n] # None)
    <3>1. PICK j \in 1..(i - 1) : s[j].file = "version" /\ s[j].theme = s[i].theme /\ s[j].n = s[i].n
      BY <1>2, <2>1, <2>3 DEF Binds
    <3> QED
      BY <2>1, <3>1
  <2> QED
    BY <2>2, <2>3
<1>4. CASE i > Len(s)
  <2> DEFINE k == i - Len(s)
  <2>1. k \in 1..Len(t) /\ u[i] = t[k] /\ \A j \in 1..(k - 1) : u[Len(s) + j] = t[j]
    BY <1>1, <1>4
  <2>2. \A j \in 1..(k - 1) : Len(s) + j \in 1..(i - 1)
    BY <1>1, <1>4
  <2> HIDE DEF u, k
  <2>3. CASE vs[t[k].theme][t[k].n] # None
    BY <2>1, <2>3
  <2>4. CASE ~(vs[t[k].theme][t[k].n] # None)
    <3>1. PICK j \in 1..(k - 1) : t[j].file = "version" /\ t[j].theme = t[k].theme /\ t[j].n = t[k].n
      BY <1>2, <2>1, <2>4 DEF Binds
    <3>2. Len(s) + j \in 1..(i - 1) /\ u[Len(s) + j] = t[j]
      BY <2>1, <2>2
    <3> QED
      BY <2>1, <3>1, <3>2
  <2> QED
    BY <2>3, <2>4
<1>5. i \in Int /\ Len(s) \in Int
  BY <1>1, <1>2
<1> HIDE DEF u
<1> QED
  BY <1>3, <1>4, <1>5

\* Two parts of a call of the conversation.
LEMMA FitJoin ==
    ASSUME NEW s, NEW t, NEW vs, NEW ts, NEW ref, Fit(s, vs, ts, ref), Fit(t, vs, ts, ref)
    PROVE  Fit(s \o t, vs, ts, ref)
<1>1. s \in Seq(HostWrites) /\ t \in Seq(HostWrites)
  BY DEF Fit
<1>2. s \o t \in Seq(HostWrites) /\ Binds(s \o t, vs)
  BY <1>1, BindsJoin DEF Fit
<1>3. ASSUME NEW i \in 1..Len(s \o t) PROVE Follows((s \o t)[i], ts, ref)
  <2>1. CASE i <= Len(s)
    BY <1>1, <2>1 DEF Fit
  <2>2. CASE i > Len(s)
    <3>1. (s \o t)[i] = t[i - Len(s)] /\ i - Len(s) \in 1..Len(t)
      BY <1>1, <2>2
    <3> QED
      BY <3>1 DEF Fit
  <2> QED
    BY <1>1, <2>1, <2>2
<1> QED
  BY <1>2, <1>3 DEF Fit

\* Two parts of a call of the command line.
LEMMA CliJoin ==
    ASSUME NEW s, NEW t, NEW vs, CliFit(s, vs), CliFit(t, vs)
    PROVE  CliFit(s \o t, vs)
BY BindsJoin DEF CliFit

\* Lawful writes after one another.
LEMMA LawfulJoin ==
    ASSUME NEW S, NEW s \in Seq(S), NEW t \in Seq(S), NEW cs, AllLawful(s, cs), AllLawful(t, cs)
    PROVE  AllLawful(s \o t, cs)
<1>1. SUFFICES ASSUME NEW i \in 1..Len(s \o t) PROVE Lawful((s \o t)[i], cs)
  BY DEF AllLawful
<1>2. CASE i <= Len(s)
  <2>1. (s \o t)[i] = s[i] /\ i \in 1..Len(s)
    BY <1>2
  <2> QED
    BY <2>1 DEF AllLawful
<1>3. CASE i > Len(s)
  <2>1. (s \o t)[i] = t[i - Len(s)] /\ i - Len(s) \in 1..Len(t)
    BY <1>3
  <2> QED
    BY <2>1 DEF AllLawful
<1> QED
  BY <1>2, <1>3

\* Writes that tag after one another.
LEMMA TagJoin ==
    ASSUME NEW S, NEW s \in Seq(S), NEW t \in Seq(S), NEW ss, NEW ts, NEW key, NEW id,
           AllTag(s, ss, ts, key, id), AllTag(t, ss, ts, key, id)
    PROVE  AllTag(s \o t, ss, ts, key, id)
<1>1. SUFFICES ASSUME NEW i \in 1..Len(s \o t) PROVE Tags((s \o t)[i], ss, ts, key, id)
  BY DEF AllTag
<1>2. CASE i <= Len(s)
  <2>1. (s \o t)[i] = s[i] /\ i \in 1..Len(s)
    BY <1>2
  <2> QED
    BY <2>1 DEF AllTag
<1>3. CASE i > Len(s)
  <2>1. (s \o t)[i] = t[i - Len(s)] /\ i - Len(s) \in 1..Len(t)
    BY <1>3
  <2> QED
    BY <2>1 DEF AllTag
<1> QED
  BY <1>2, <1>3

\* What leads to the session.
LEMMA LeadsJoin ==
    ASSUME NEW S, NEW s \in Seq(S), NEW t \in Seq(S), Leads(s) \/ (Plans(s) /\ Leads(t))
    PROVE  Leads(s \o t)
<1> DEFINE u == s \o t
<1>1. /\ Len(u) = Len(s) + Len(t) /\ Len(s) \in Nat /\ Len(t) \in Nat
      /\ \A i \in 1..Len(s) : u[i] = s[i]
      /\ \A i \in 1..Len(t) : u[Len(s) + i] = t[i]
  OBVIOUS
<1> HIDE DEF u
<1>2. CASE Leads(s)
  <2>1. PICK n \in 1..Len(s) : s[n].file = "session" /\ \A j \in 1..(n - 1) : s[j].file = "plan"
    BY <1>2 DEF Leads
  <2>2. n \in 1..Len(u) /\ u[n] = s[n] /\ \A j \in 1..(n - 1) : u[j] = s[j]
    BY <1>1
  <2> QED
    BY <2>1, <2>2 DEF Leads, u
<1>3. CASE Plans(s) /\ Leads(t)
  <2>1. PICK n \in 1..Len(t) : t[n].file = "session" /\ \A j \in 1..(n - 1) : t[j].file = "plan"
    BY <1>3 DEF Leads
  <2>2. Len(s) + n \in 1..Len(u) /\ u[Len(s) + n] = t[n]
    BY <1>1
  <2>3. ASSUME NEW j \in 1..(Len(s) + n - 1) PROVE u[j].file = "plan"
    <3>1. CASE j <= Len(s)
      <4>1. j \in 1..Len(s) /\ u[j] = s[j]
        BY <1>1, <3>1
      <4> QED
        BY <1>3, <4>1 DEF Plans
    <3>2. CASE j > Len(s)
      <4>1. j - Len(s) \in 1..(n - 1) /\ j - Len(s) \in 1..Len(t) /\ Len(s) + (j - Len(s)) = j
        BY <1>1, <3>2
      <4>2. u[j] = t[j - Len(s)]
        BY <1>1, <4>1
      <4> QED
        BY <2>1, <4>1, <4>2
    <3> QED
      BY <1>1, <3>1, <3>2
  <2> QED
    BY <2>2, <2>1, <2>3 DEF Leads, u
<1> QED
  BY <1>2, <1>3

\* Plain writes after one another.
LEMMA PlainJoin ==
    ASSUME NEW S, NEW s \in Seq(S), NEW t \in Seq(S), NEW ts, NEW cs,
           AllPlain(s, ts, cs), AllPlain(t, ts, cs)
    PROVE  AllPlain(s \o t, ts, cs)
<1>1. SUFFICES ASSUME NEW i \in 1..Len(s \o t) PROVE Plain((s \o t)[i], ts, cs)
  BY DEF AllPlain
<1>2. CASE i <= Len(s)
  <2>1. (s \o t)[i] = s[i] /\ i \in 1..Len(s)
    BY <1>2
  <2> QED
    BY <2>1 DEF AllPlain
<1>3. CASE i > Len(s)
  <2>1. (s \o t)[i] = t[i - Len(s)] /\ i - Len(s) \in 1..Len(t)
    BY <1>3
  <2> QED
    BY <2>1 DEF AllPlain
<1> QED
  BY <1>2, <1>3

\* A session that is ready.
LEMMA LeadSave ==
    ASSUME NEW s, NEW ts, NEW cs, Ready(s, ts, cs), Undelivered(ts, cs)
    PROVE  Lead(Save(s), ts, cs)
<1> DEFINE w == [file |-> "session", to |-> s]
           tss == [j \in {1} |-> ts]
           css == [j \in {1} |-> cs]
<1>1. w.file = "session" /\ w.to = s /\ Save(s) = <<w>>
  BY DEF Save
<1>2. tss[1] = ts /\ css[1] = cs
  OBVIOUS
<1> HIDE DEF w, tss, css
<1>3. Len(<<w>>) = 1 /\ <<w>>[1] = w
  OBVIOUS
<1>4. Leading(<<w>>, 1, tss, css)
  BY <1>1, <1>2, <1>3 DEF Leading
<1> QED
  BY <1>1, <1>2, <1>3, <1>4 DEF Lead

\* One more write that leads to it.
LEMMA LeadMove ==
    ASSUME NEW S, NEW w \in S, NEW u \in Seq(S), NEW ts, NEW cs, NEW tt, NEW ct,
           Moves(w, ts, cs, tt, ct), Undelivered(ts, cs), Lead(u, tt, ct)
    PROVE  Lead(<<w>> \o u, ts, cs)
<1>0. PICK n \in 1..Len(u) : \E tss, css : tss[1] = tt /\ css[1] = ct /\ Leading(u, n, tss, css)
  BY DEF Lead
<1>1. PICK tss, css : tss[1] = tt /\ css[1] = ct /\ Leading(u, n, tss, css)
  BY <1>0
<1> DEFINE v == <<w>> \o u
           tsv == [j \in 1..(n + 1) |-> IF j = 1 THEN ts ELSE tss[j - 1]]
           csv == [j \in 1..(n + 1) |-> IF j = 1 THEN cs ELSE css[j - 1]]
<1>2. /\ Len(u) \in Nat /\ Len(v) = Len(u) + 1 /\ v[1] = w
      /\ \A i \in 2..Len(v) : v[i] = u[i - 1]
  OBVIOUS
<1>3. /\ tsv[1] = ts /\ csv[1] = cs
      /\ \A j \in 2..(n + 1) : tsv[j] = tss[j - 1] /\ csv[j] = css[j - 1]
  OBVIOUS
<1>4. n \in 1..Len(u)
  BY <1>0
<1> HIDE DEF v, tsv, csv
<1>5. ASSUME NEW j \in 1..n PROVE Moves(v[j], tsv[j], csv[j], tsv[j + 1], csv[j + 1])
  <2>1. CASE j = 1
    <3>1. tsv[2] = tt /\ csv[2] = ct
      BY <1>1, <1>2, <1>3, <1>4
    <3> QED
      BY <1>2, <1>3, <2>1, <3>1
  <2>2. CASE j # 1
    <3>1. /\ j - 1 \in 1..(n - 1) /\ j \in 2..(n + 1) /\ j + 1 \in 2..(n + 1) /\ j \in 2..Len(v)
          /\ (j - 1) + 1 = j /\ (j + 1) - 1 = j
      BY <1>2, <1>4, <2>2
    <3>2. Moves(u[j - 1], tss[j - 1], css[j - 1], tss[j], css[j])
      BY <1>1, <3>1 DEF Leading
    <3>3. /\ v[j] = u[j - 1] /\ tsv[j] = tss[j - 1] /\ csv[j] = css[j - 1]
          /\ tsv[j + 1] = tss[j] /\ csv[j + 1] = css[j]
      BY <1>2, <1>3, <3>1
    <3> QED
      BY <3>2, <3>3
  <2> QED
    BY <2>1, <2>2
<1>6. ASSUME NEW j \in 1..(n + 1) PROVE Undelivered(tsv[j], csv[j])
  <2>1. CASE j = 1
    BY <1>3, <2>1
  <2>2. CASE j # 1
    <3>1. j - 1 \in 1..n /\ j \in 2..(n + 1)
      BY <1>2, <1>4, <2>2
    <3> QED
      BY <1>1, <1>3, <3>1 DEF Leading
  <2> QED
    BY <2>1, <2>2
<1>7. /\ n + 1 \in 2..Len(v) /\ n + 1 \in 2..(n + 1) /\ (n + 1) - 1 = n /\ n + 1 \in 1..Len(v)
      /\ v[n + 1] = u[n] /\ tsv[n + 1] = tss[n] /\ csv[n + 1] = css[n]
  BY <1>2, <1>3, <1>4
<1>8. ASSUME NEW i \in (n + 2)..Len(v) PROVE Plain(v[i], tss[n], css[n])
  <2>1. i - 1 \in (n + 1)..Len(u) /\ i \in 2..Len(v)
    BY <1>2, <1>4
  <2> QED
    BY <1>1, <1>2, <2>1 DEF Leading
<1>9. Leading(v, n + 1, tsv, csv)
  <2>1. (n + 1) + 1 = n + 2
    BY <1>2, <1>4
  <2> QED
    BY <1>1, <1>5, <1>6, <1>7, <1>8, <2>1 DEF Leading
<1> QED
  BY <1>3, <1>7, <1>9 DEF Lead, v

\* The first of the writes that lead to it is done.
LEMMA LeadTail ==
    ASSUME NEW S, NEW ws \in Seq(S), NEW ts, NEW cs, Lead(ws, ts, cs)
    PROVE  /\ ws # <<>>
           /\ \/ /\ Head(ws).file = "session" /\ Ready(Head(ws).to, ts, cs)
                 /\ AllPlain(Tail(ws), ts, cs)
              \/ \E tt, ct : Moves(Head(ws), ts, cs, tt, ct) /\ Lead(Tail(ws), tt, ct)
<1>0. PICK n \in 1..Len(ws) : \E tss, css : tss[1] = ts /\ css[1] = cs /\ Leading(ws, n, tss, css)
  BY DEF Lead
<1>1. PICK tss, css : tss[1] = ts /\ css[1] = cs /\ Leading(ws, n, tss, css)
  BY <1>0
<1> DEFINE u == Tail(ws)
<1>2. /\ Len(ws) \in Nat \ {0} /\ ws # <<>> /\ Head(ws) = ws[1] /\ Len(u) = Len(ws) - 1
      /\ \A i \in 1..Len(u) : u[i] = ws[i + 1]
  BY <1>0
<1>3. n \in 1..Len(ws)
  BY <1>0
<1> HIDE DEF u
<1>4. CASE n = 1
  <2>1. Head(ws).file = "session" /\ Ready(Head(ws).to, ts, cs)
    BY <1>1, <1>2, <1>4 DEF Leading
  <2>2. ASSUME NEW i \in 1..Len(u) PROVE Plain(u[i], ts, cs)
    <3>1. i + 1 \in 2..Len(ws) /\ u[i] = ws[i + 1]
      BY <1>2
    <3> QED
      BY <1>1, <1>4, <3>1 DEF Leading
  <2> QED
    BY <1>2, <2>1, <2>2 DEF AllPlain, u
<1>5. CASE n # 1
  <2> DEFINE m == n - 1
             tst == [j \in 1..m |-> tss[j + 1]]
             cst == [j \in 1..m |-> css[j + 1]]
  <2>1. m \in 1..Len(u) /\ m + 1 = n /\ n \in 2..Len(ws) /\ Len(u) + 1 = Len(ws)
    BY <1>2, <1>3, <1>5
  <2>2. \A j \in 1..m : tst[j] = tss[j + 1] /\ cst[j] = css[j + 1]
    OBVIOUS
  <2> HIDE DEF m, tst, cst
  <2>3. Moves(Head(ws), ts, cs, tss[2], css[2])
    <3>1. 1 \in 1..(n - 1) /\ 1 + 1 = 2
      BY <1>2, <2>1
    <3> QED
      BY <1>1, <1>2, <3>1 DEF Leading
  <2>4. tst[1] = tss[2] /\ cst[1] = css[2]
    BY <1>2, <2>1, <2>2
  <2>5. ASSUME NEW j \in 1..(m - 1) PROVE Moves(u[j], tst[j], cst[j], tst[j + 1], cst[j + 1])
    <3>1. /\ j \in 1..m /\ j + 1 \in 1..m /\ j + 1 \in 1..(n - 1) /\ j \in 1..Len(u)
      BY <1>2, <2>1
    <3>2. Moves(ws[j + 1], tss[j + 1], css[j + 1], tss[(j + 1) + 1], css[(j + 1) + 1])
      BY <1>1, <3>1 DEF Leading
    <3> QED
      BY <1>2, <2>2, <3>1, <3>2
  <2>6. ASSUME NEW j \in 1..m PROVE Undelivered(tst[j], cst[j])
    <3>1. j + 1 \in 1..n
      BY <1>2, <2>1
    <3> QED
      BY <1>1, <2>2, <3>1 DEF Leading
  <2>7. m \in 1..m /\ u[m] = ws[n] /\ tst[m] = tss[n] /\ cst[m] = css[n]
    BY <1>2, <2>1, <2>2
  <2>8. ASSUME NEW i \in (m + 1)..Len(u) PROVE Plain(u[i], tst[m], cst[m])
    <3>1. i \in 1..Len(u) /\ i + 1 \in (n + 1)..Len(ws)
      BY <1>2, <2>1
    <3> QED
      BY <1>1, <1>2, <2>7, <3>1 DEF Leading
  <2>9. Leading(u, m, tst, cst)
    BY <1>1, <2>5, <2>6, <2>7, <2>8 DEF Leading
  <2> QED
    BY <1>2, <2>1, <2>3, <2>4, <2>9 DEF Lead, u
<1> QED
  BY <1>4, <1>5

\* What comes after it.
LEMMA LeadLight ==
    ASSUME NEW S, NEW s \in Seq(S), NEW t \in Seq(S), NEW ts, NEW cs, Lead(s, ts, cs), Light(t)
    PROVE  Lead(s \o t, ts, cs)
<1>0. PICK n \in 1..Len(s) : \E tss, css : tss[1] = ts /\ css[1] = cs /\ Leading(s, n, tss, css)
  BY DEF Lead
<1>1. PICK tss, css : tss[1] = ts /\ css[1] = cs /\ Leading(s, n, tss, css)
  BY <1>0
<1> DEFINE v == s \o t
<1>2. /\ Len(v) = Len(s) + Len(t) /\ Len(s) \in Nat /\ Len(t) \in Nat
      /\ \A i \in 1..Len(s) : v[i] = s[i]
      /\ \A i \in 1..Len(t) : v[Len(s) + i] = t[i]
  OBVIOUS
<1>3. n \in 1..Len(s)
  BY <1>0
<1> HIDE DEF v
<1>4. ASSUME NEW i \in (n + 1)..Len(v) PROVE Plain(v[i], tss[n], css[n])
  <2>1. CASE i <= Len(s)
    <3>1. i \in (n + 1)..Len(s) /\ v[i] = s[i]
      BY <1>2, <1>3, <2>1
    <3> QED
      BY <1>1, <3>1 DEF Leading
  <2>2. CASE ~(i <= Len(s))
    <3>1. i - Len(s) \in 1..Len(t) /\ Len(s) + (i - Len(s)) = i
      BY <1>2, <1>3, <2>2
    <3>2. v[i] = t[i - Len(s)]
      BY <1>2, <3>1
    <3> QED
      BY <3>1, <3>2 DEF Light, Plain
  <2> QED
    BY <2>1, <2>2
<1>5. n \in 1..Len(v) /\ v[n] = s[n] /\ \A j \in 1..(n - 1) : v[j] = s[j]
  BY <1>2, <1>3
<1>6. Leading(v, n, tss, css)
  BY <1>1, <1>4, <1>5 DEF Leading
<1> QED
  BY <1>1, <1>5, <1>6 DEF Lead, v

\* What is light is lawful and plain, and tags nothing.
LEMMA LightIs ==
    /\ \A ws, cs : Light(ws) => AllLawful(ws, cs)
    /\ \A ws, ts, cs : Light(ws) => AllPlain(ws, ts, cs)
    /\ \A ws, s, ts, key, id : Light(ws) => AllTag(ws, s, ts, key, id)
    /\ \A w : w.file \notin {"config", "plan", "task", "case", "session"} => Light(<<w>>)
    /\ \A v, w : v.file = "source" /\ w.file = "source" => Light(<<v, w>>)
<1>1. \A ws, cs : Light(ws) => AllLawful(ws, cs)
  BY DEF Light, AllLawful, Lawful, Foreign
<1>4. \A ws, s, ts, key, id : Light(ws) => AllTag(ws, s, ts, key, id)
  BY DEF Light, AllTag, Tags
<1>5. \A ws, ts, cs : Light(ws) => AllPlain(ws, ts, cs)
  BY DEF Light, AllPlain, Plain
<1>2. ASSUME NEW w, w.file \notin {"config", "plan", "task", "case", "session"} PROVE Light(<<w>>)
  <2>1. Len(<<w>>) = 1 /\ <<w>>[1] = w
    OBVIOUS
  <2> QED
    BY <1>2, <2>1 DEF Light
<1>3. ASSUME NEW v, NEW w, v.file = "source" /\ w.file = "source" PROVE Light(<<v, w>>)
  <2>1. Len(<<v, w>>) = 2 /\ <<v, w>>[1] = v /\ <<v, w>>[2] = w
    OBVIOUS
  <2> QED
    BY <1>3, <2>1 DEF Light
<1> QED
  BY <1>1, <1>2, <1>3, <1>4, <1>5

(***************************************************************************)
(* The parts of a call                                                     *)
(***************************************************************************)

\* A list of some is a list of more.
LEMMA SeqOfMore ==
    ASSUME NEW S, NEW T, S \subseteq T, NEW s \in Seq(S)
    PROVE  s \in Seq(T)
<1>1. Len(s) \in Nat /\ s \in [1..Len(s) -> S]
  OBVIOUS
<1>2. s \in [1..Len(s) -> T]
  BY <1>1
<1> QED
  BY <1>1, <1>2, SeqDef

\* An idle process.
LEMMA NoWriteFits == \A vs, ts, ref : Fit(<<>>, vs, ts, ref) /\ CliFit(<<>>, vs)
BY DEF Fit, CliFit, Binds

\* A single write that binds nothing.
LEMMA OneWriteFits ==
    ASSUME NEW w \in HostWrites, NEW vs, NEW ts, NEW ref,
           w.file # "binding", Follows(w, ts, ref)
    PROVE  Fit(<<w>>, vs, ts, ref)
<1>1. <<w>> \in Seq(HostWrites) /\ Len(<<w>>) = 1 /\ <<w>>[1] = w
  OBVIOUS
<1> QED
  BY <1>1 DEF Fit, Binds

\* Saving the session.
LEMMA SaveFits ==
    ASSUME NEW s \in Sessions, NEW vs, NEW ts, NEW ref
    PROVE  /\ Fit(Save(s), vs, ts, ref) /\ Leads(Save(s))
           /\ \A cs : AllLawful(Save(s), cs)
           /\ \A ss, key, id : (\A k \in Keys : ss.done[k] # 0 \/ k = key => s.done[k] # 0)
                               => AllTag(Save(s), ss, ts, key, id)
<1> DEFINE w == [file |-> "session", to |-> s]
<1>1. w \in HostWrites
  BY DEF HostWrites, SavingWrites
<1>2. w.file = "session"
  OBVIOUS
<1> HIDE DEF w
<1>3. Fit(<<w>>, vs, ts, ref)
  BY <1>1, <1>2, OneWriteFits DEF Follows
<1>4. Len(<<w>>) = 1 /\ <<w>>[1] = w
  OBVIOUS
<1>5. Leads(<<w>>) /\ \A cs : AllLawful(<<w>>, cs)
  BY <1>2, <1>4 DEF Leads, AllLawful, Lawful, Foreign
<1>6. w.to = s
  BY DEF w
<1>7. ASSUME NEW ss, NEW key, NEW id, \A k \in Keys : ss.done[k] # 0 \/ k = key => s.done[k] # 0
      PROVE  AllTag(<<w>>, ss, ts, key, id)
  BY <1>2, <1>4, <1>6, <1>7 DEF AllTag, Tags
<1> QED
  BY <1>3, <1>5, <1>7 DEF Save, w

\* What is found out later.
LEMMA LateFits ==
    ASSUME NEW vs, NEW ts, NEW ref
    PROVE  LET Fine(ws) == Fit(ws, vs, ts, ref) /\ Light(ws)
           IN  /\ Fine(View) /\ Fine(Load) /\ Fine(<<[file |-> "repair"]>>)
               /\ \A s \in Sources : Fine(<<[file |-> "link", src |-> s]>>)
               /\ \A s \in Sources, t \in Themes, n \in 0..MaxVersions :
                     Fine(<<[file |-> "derive", theme |-> t, n |-> n, src |-> s]>>)
<1>1. ASSUME NEW w \in LateWrites PROVE Fit(<<w>>, vs, ts, ref) /\ Light(<<w>>)
  <2>1. w \in HostWrites /\ w.file \in {"view", "load", "repair", "derive", "link"}
    BY DEF HostWrites, LateWrites
  <2> QED
    BY <2>1, OneWriteFits, LightIs DEF Follows
<1>2. /\ [file |-> "view"] \in LateWrites /\ [file |-> "load"] \in LateWrites
      /\ [file |-> "repair"] \in LateWrites
  BY DEF LateWrites
<1>3. /\ \A s \in Sources : [file |-> "link", src |-> s] \in LateWrites
      /\ \A s \in Sources, t \in Themes, n \in 0..MaxVersions :
            [file |-> "derive", theme |-> t, n |-> n, src |-> s] \in LateWrites
  BY DEF LateWrites
<1> QED
  BY <1>1, <1>2, <1>3 DEF View, Load

\* Saving a planned task.
LEMMA PlanFits ==
    ASSUME NEW id \in TaskIds, NEW r \in TaskRecords, AsPlanned(r), NEW vs, NEW ts, NEW ref,
           IF ts[id] # None THEN r.ref = ts[id].ref ELSE id = Fresh(ts) /\ r.ref = ref
    PROVE  Fit(Plan(id, r), vs, ts, ref)
<1> DEFINE w == [file |-> "plan", id |-> id, to |-> r]
<1>1. w \in HostWrites
  BY DEF HostWrites, SavingWrites
<1>2. w.file = "plan" /\ w.id = id /\ w.to = r
  OBVIOUS
<1> HIDE DEF w
<1>3. Fit(<<w>>, vs, ts, ref)
  BY <1>1, <1>2, OneWriteFits DEF Follows
<1> QED
  BY <1>3 DEF Plan, w

\* Saving a task that is there.
LEMMA TaskFits ==
    ASSUME NEW id \in TaskIds, NEW r \in Drafts, NEW vs, NEW ts, NEW ref,
           ts[id] # None, r.ref = ts[id].ref
    PROVE  Fit(SaveTask(id, r), vs, ts, ref)
<1> DEFINE w == [file |-> "task", id |-> id, to |-> r]
<1>1. w \in HostWrites
  BY DEF HostWrites, SavingWrites
<1>2. w.file = "task" /\ w.id = id /\ w.to = r
  OBVIOUS
<1> HIDE DEF w
<1>3. Fit(<<w>>, vs, ts, ref)
  BY <1>1, <1>2, OneWriteFits DEF Follows
<1> QED
  BY <1>3 DEF SaveTask, w

\* A record that is changed in anything but its reference.
LEMMA RecordKeeps ==
    ASSUME NEW r \in TaskRecords
    PROVE  /\ \A s \in Planned \cup {"running", "failed"} :
                 /\ [r EXCEPT !.status = s] \in TaskRecords /\ [r EXCEPT !.status = s].ref = r.ref
                 /\ [r EXCEPT !.status = s].seen = r.seen
           /\ [r EXCEPT !.status = "execute"] \in Drafts /\ [r EXCEPT !.status = "execute"].ref = r.ref
           /\ \A b \in BOOLEAN :
                 /\ [r EXCEPT !.missing = b] \in TaskRecords /\ [r EXCEPT !.missing = b].ref = r.ref
                 /\ [r EXCEPT !.missing = b].seen = r.seen
           /\ \A tool \in Tools \cup {None} :
                 [r EXCEPT !.override = tool] \in TaskRecords /\ [r EXCEPT !.override = tool].ref = r.ref
           /\ r \in Drafts
BY DEF TaskRecords, Drafts

\* Executing a task that is there.
LEMMA ExecuteFits ==
    ASSUME NEW id \in TaskIds, NEW r \in TaskRecords, NEW vs, NEW ts, NEW ref,
           ts[id] # None, r.ref = ts[id].ref
    PROVE  Fit(Execute(id, r), vs, ts, ref)
BY RecordKeeps, TaskFits DEF Execute

\* The pipeline saves a task when it starts and when it ends.
LEMMA RunsFits ==
    ASSUME NEW id \in TaskIds, NEW r \in TaskRecords, AsPlanned(r), NEW vs, NEW ts, NEW ref,
           NEW end \in {"pending", "failed"},
           IF ts[id] # None THEN r.ref = ts[id].ref ELSE id = Fresh(ts) /\ r.ref = ref
    PROVE  Fit(Runs(id, r, end), vs, ts, ref)
<1>1. /\ [r EXCEPT !.status = "running"] \in TaskRecords /\ [r EXCEPT !.status = "running"].ref = r.ref
      /\ [r EXCEPT !.status = "running"].seen = r.seen
  BY RecordKeeps
<1>2. /\ [r EXCEPT !.status = end] \in TaskRecords /\ [r EXCEPT !.status = end].ref = r.ref
      /\ [r EXCEPT !.status = end].seen = r.seen
  BY RecordKeeps DEF Planned
<1>3. Fit(Plan(id, [r EXCEPT !.status = "running"]), vs, ts, ref)
  BY <1>1, PlanFits DEF AsPlanned
<1>4. Fit(Plan(id, [r EXCEPT !.status = end]), vs, ts, ref)
  BY <1>2, PlanFits DEF AsPlanned
<1> QED
  BY <1>3, <1>4, FitJoin DEF Runs

\* Staging a source.
LEMMA StagedFits ==
    ASSUME NEW s \in Sources, NEW vs, NEW ts, NEW ref
    PROVE  Fit(Staged(s), vs, ts, ref) /\ Light(Staged(s))
<1> DEFINE v == [file |-> "source", id |-> s, to |-> "file"]
           w == [file |-> "source", id |-> s, to |-> "registered"]
<1>1. v \in HostWrites /\ w \in HostWrites
  BY DEF HostWrites, SavingWrites
<1>2. /\ v.file = "source" /\ w.file = "source"
      /\ Staged(s) = <<v>> \o <<w>> /\ Staged(s) = <<v, w>>
  BY DEF Staged
<1> HIDE DEF v, w
<1>3. Fit(<<v>>, vs, ts, ref) /\ Fit(<<w>>, vs, ts, ref)
  BY <1>1, <1>2, OneWriteFits DEF Follows
<1> QED
  BY <1>2, <1>3, FitJoin, LightIs

\* What a task is saved with.
LEMMA TaskLawful ==
    ASSUME NEW id, NEW r, NEW cs, Apart(r) => Durable(cs)
    PROVE  AllLawful(Plan(id, r), cs) /\ AllLawful(SaveTask(id, r), cs)
BY DEF AllLawful, Lawful, Foreign, Plan, SaveTask

\* Its tool, and the case it is a trial of, change only by name.
LEMMA ApartKeeps ==
    ASSUME NEW r \in TaskRecords
    PROVE  /\ \A s : Apart([r EXCEPT !.status = s]) <=> Apart(r)
           /\ \A b : Apart([r EXCEPT !.missing = b]) <=> Apart(r)
           /\ Apart(Mended(r)) <=> Apart(r)
BY DEF Apart, TaskRecords, Mended

\* What it is tagged with.
LEMMA TaskTags ==
    ASSUME NEW id, NEW r, NEW ss, NEW ts, NEW key, NEW at,
           \/ r.request = None \/ (ts[id] # None /\ r.request = ts[id].request)
           \/ r.request = key /\ id = at
    PROVE  /\ AllTag(Plan(id, r), ss, ts, key, at) /\ Plans(Plan(id, r))
           /\ AllTag(SaveTask(id, r), ss, ts, key, at)
BY DEF AllTag, Tags, Plan, SaveTask, Plans

\* Its request changes only by name.
LEMMA RequestKeeps ==
    ASSUME NEW r \in TaskRecords
    PROVE  /\ \A s : [r EXCEPT !.status = s].request = r.request
           /\ \A b : [r EXCEPT !.missing = b].request = r.request
           /\ \A tool : [r EXCEPT !.override = tool].request = r.request
           /\ Mended(r).request = r.request
BY DEF TaskRecords, Mended

\* Executing a task, and planning it, by its request.
LEMMA WorkTags ==
    ASSUME NEW id, NEW r \in TaskRecords, NEW ss, NEW ts, NEW key, NEW at, NEW end,
           r.request = None \/ (ts[id] # None /\ r.request = ts[id].request)
    PROVE  /\ AllTag(Execute(id, r), ss, ts, key, at)
           /\ AllTag(Runs(id, r, end), ss, ts, key, at) /\ Plans(Runs(id, r, end))
<1>1. AllTag(Execute(id, r), ss, ts, key, at)
  BY RequestKeeps, TaskTags DEF Execute
<1> DEFINE a == [r EXCEPT !.status = "running"]
           b == [r EXCEPT !.status = end]
           S == [file : {"plan"}, id : {id}, to : {a, b}]
           ra == Plan(id, a)
           rb == Plan(id, b)
<1>2. AllTag(ra, ss, ts, key, at) /\ AllTag(rb, ss, ts, key, at)
  BY RequestKeeps, TaskTags
<1>3. ra \in Seq(S) /\ rb \in Seq(S)
  BY DEF Plan
<1>4. Runs(id, r, end) = ra \o rb /\ \A w \in S : w.file = "plan"
  BY DEF Runs
<1> HIDE DEF S, ra, rb
<1>5. ra \o rb \in Seq(S)
  BY <1>3
<1>6. Plans(ra \o rb)
  BY <1>4, <1>5 DEF Plans
<1>7. AllTag(ra \o rb, ss, ts, key, at)
  BY <1>2, <1>3, TagJoin
<1> QED
  BY <1>1, <1>4, <1>6, <1>7

\* Executing a task, and planning it.
LEMMA WorkLawful ==
    ASSUME NEW id, NEW r \in TaskRecords, NEW cs, Apart(r) => Durable(cs), NEW end
    PROVE  AllLawful(Execute(id, r), cs) /\ AllLawful(Runs(id, r, end), cs)
<1>1. AllLawful(Execute(id, r), cs)
  BY ApartKeeps, TaskLawful DEF Execute
<1>2. /\ AllLawful(Plan(id, [r EXCEPT !.status = "running"]), cs)
      /\ AllLawful(Plan(id, [r EXCEPT !.status = end]), cs)
  BY ApartKeeps, TaskLawful
<1> DEFINE S == [file : {"plan"}, id : {id}, to : {[r EXCEPT !.status = "running"], [r EXCEPT !.status = end]}]
<1>3. /\ Plan(id, [r EXCEPT !.status = "running"]) \in Seq(S)
      /\ Plan(id, [r EXCEPT !.status = end]) \in Seq(S)
  BY DEF Plan
<1> HIDE DEF S
<1>4. AllLawful(Runs(id, r, end), cs)
  BY <1>2, <1>3, LawfulJoin DEF Runs
<1> QED
  BY <1>1, <1>4

\* The trial that a task is changes only by name.
LEMMA TrialKeeps ==
    ASSUME NEW r \in TaskRecords
    PROVE  /\ \A s : [r EXCEPT !.status = s].trial = r.trial /\ [r EXCEPT !.status = s].status = s
           /\ \A b : [r EXCEPT !.missing = b].trial = r.trial /\ [r EXCEPT !.missing = b].status = r.status
           /\ \A tool : /\ [r EXCEPT !.override = tool].trial = r.trial
                        /\ [r EXCEPT !.override = tool].status = r.status
           /\ Mended(r).trial = r.trial /\ Mended(r).status = r.status
BY DEF TaskRecords, Mended

\* Single writes that are plain.
LEMMA OnePlain ==
    /\ \A s, ts, cs : Ready(s, ts, cs) => AllPlain(Save(s), ts, cs)
    /\ \A id, r, ts, cs : KeepsTask(id, r, ts, cs) =>
          AllPlain(Plan(id, r), ts, cs) /\ AllPlain(SaveTask(id, r), ts, cs)
    /\ \A c, r, ts, cs : KeepsCase(c, r, cs) => AllPlain(SaveCase(c, r), ts, cs)
<1>1. ASSUME NEW w, NEW ts, NEW cs, Plain(w, ts, cs) PROVE AllPlain(<<w>>, ts, cs)
  <2>1. Len(<<w>>) = 1 /\ <<w>>[1] = w
    OBVIOUS
  <2> QED
    BY <1>1, <2>1 DEF AllPlain
<1>2. ASSUME NEW s, NEW ts, NEW cs, Ready(s, ts, cs) PROVE AllPlain(Save(s), ts, cs)
  <2>1. Plain([file |-> "session", to |-> s], ts, cs)
    BY <1>2 DEF Plain
  <2> QED
    BY <1>1, <2>1 DEF Save
<1>3. ASSUME NEW id, NEW r, NEW ts, NEW cs, KeepsTask(id, r, ts, cs)
      PROVE  AllPlain(Plan(id, r), ts, cs) /\ AllPlain(SaveTask(id, r), ts, cs)
  <2>1. /\ Plain([file |-> "plan", id |-> id, to |-> r], ts, cs)
        /\ Plain([file |-> "task", id |-> id, to |-> r], ts, cs)
    BY <1>3 DEF Plain
  <2> QED
    BY <1>1, <2>1 DEF Plan, SaveTask
<1>4. ASSUME NEW c, NEW r, NEW ts, NEW cs, KeepsCase(c, r, cs) PROVE AllPlain(SaveCase(c, r), ts, cs)
  <2>1. Plain([file |-> "case", id |-> c, to |-> r], ts, cs)
    BY <1>4 DEF Plain
  <2> QED
    BY <1>1, <2>1 DEF SaveCase
<1> QED
  BY <1>2, <1>3, <1>4

\* Executing a task, and planning it, by the trial it is.
LEMMA WorkPlain ==
    ASSUME NEW id, NEW r \in TaskRecords, NEW ts, NEW cs, NEW end, end # "exported",
           r.trial = IF ts[id] = None THEN 0 ELSE ts[id].trial
    PROVE  AllPlain(Execute(id, r), ts, cs) /\ AllPlain(Runs(id, r, end), ts, cs)
<1> DEFINE e == [r EXCEPT !.status = "execute"]
           a == [r EXCEPT !.status = "running"]
           b == [r EXCEPT !.status = end]
           S == [file : {"plan"}, id : {id}, to : {a, b}]
<1>0. /\ e.trial = r.trial /\ e.status = "execute" /\ a.trial = r.trial /\ a.status = "running"
      /\ b.trial = r.trial /\ b.status = end
  BY TrialKeeps
<1>1. AllPlain(Execute(id, r), ts, cs)
  <2>1. Execute(id, r) = SaveTask(id, e)
    BY DEF Execute
  <2> HIDE DEF e
  <2>2. KeepsTask(id, e, ts, cs)
    BY <1>0 DEF KeepsTask
  <2> QED
    BY <2>1, <2>2, OnePlain
<1>2. AllPlain(Plan(id, a), ts, cs) /\ AllPlain(Plan(id, b), ts, cs)
  <2> HIDE DEF a, b
  <2>1. KeepsTask(id, a, ts, cs) /\ KeepsTask(id, b, ts, cs)
    BY <1>0 DEF KeepsTask
  <2> QED
    BY <2>1, OnePlain
<1>3. Plan(id, a) \in Seq(S) /\ Plan(id, b) \in Seq(S)
  BY DEF Plan
<1> HIDE DEF S
<1>4. AllPlain(Runs(id, r, end), ts, cs)
  BY <1>2, <1>3, PlainJoin DEF Runs
<1> QED
  BY <1>1, <1>4

\* A task is saved, and nothing else.
Puts(tt, ts, id, r) == /\ tt \in [TaskIds -> TaskRecords \cup {None}] /\ tt[id] = r
                       /\ \A x \in TaskIds : x # id => tt[x] = ts[x]

LEMMA PutIs ==
    ASSUME NEW ts \in [TaskIds -> TaskRecords \cup {None}], NEW id \in TaskIds, NEW r \in TaskRecords
    PROVE  Puts([ts EXCEPT ![id] = r], ts, id, r)
BY DEF Puts

\* A task that is no trial is planned, whatever it is then.
LEMMA TaskPut ==
    ASSUME NEW ts \in [TaskIds -> TaskRecords \cup {None}], NEW id \in TaskIds, id \notin Tried(ts),
           NEW r \in TaskRecords, r.status # "exported", NEW cs, Undelivered(ts, cs),
           NEW tt, Puts(tt, ts, id, r)
    PROVE  /\ tt \in [TaskIds -> TaskRecords \cup {None}] /\ Undelivered(tt, cs)
           /\ Made(tt) = Made(ts) \cup {id}
           /\ Tried(tt) = IF r.trial = 0 THEN Tried(ts) ELSE Tried(ts) \cup {id}
<1>1. r # None
  BY ConversationAssumption
<1>2. /\ tt \in [TaskIds -> TaskRecords \cup {None}] /\ tt[id] = r
      /\ \A x \in TaskIds : x # id => tt[x] = ts[x]
  BY DEF Puts
<1>3. Made(tt) = Made(ts) \cup {id}
  BY <1>1, <1>2 DEF Made
<1>4. Tried(tt) = IF r.trial = 0 THEN Tried(ts) ELSE Tried(ts) \cup {id}
  BY <1>1, <1>2, <1>3 DEF Tried, Made
<1>5. Undelivered(tt, cs)
  BY <1>2, <1>4 DEF Undelivered, Tried, Made
<1> QED
  BY <1>2, <1>3, <1>4, <1>5

\* A plan, and a case, that lead to what comes after.
LEMMA LeadPlan ==
    ASSUME NEW id \in TaskIds, NEW r \in TaskRecords, NEW u \in Seq(HostWrites), NEW ts, NEW cs,
           Undelivered(ts, cs), NEW tt, tt = [ts EXCEPT ![id] = r], Lead(u, tt, cs)
    PROVE  Lead(Plan(id, r) \o u, ts, cs) /\ Plan(id, r) \in Seq(HostWrites)
<1> DEFINE w == [file |-> "plan", id |-> id, to |-> r]
<1>1. w \in HostWrites
  BY DEF HostWrites, SavingWrites
<1>2. w.file = "plan" /\ w.id = id /\ w.to = r /\ Plan(id, r) = <<w>>
  BY DEF Plan
<1> HIDE DEF w
<1>3. Moves(w, ts, cs, tt, cs)
  BY <1>2 DEF Moves
<1> QED
  BY <1>1, <1>2, <1>3, LeadMove

LEMMA LeadCase ==
    ASSUME NEW c \in CaseIds, NEW r \in CaseRecords, NEW u \in Seq(HostWrites), NEW ts, NEW cs,
           Undelivered(ts, cs), NEW ct, ct = [cs EXCEPT ![c] = r], Lead(u, ts, ct)
    PROVE  Lead(SaveCase(c, r) \o u, ts, cs)
<1> DEFINE w == [file |-> "case", id |-> c, to |-> r]
<1>1. w \in HostWrites
  BY DEF HostWrites, SavingWrites
<1>2. w.file = "case" /\ w.id = c /\ w.to = r /\ SaveCase(c, r) = <<w>>
  BY DEF SaveCase
<1> HIDE DEF w
<1>3. Moves(w, ts, cs, ts, ct)
  BY <1>2 DEF Moves
<1> QED
  BY <1>1, <1>2, <1>3, LeadMove

\* A task is planned, and then saved as what it is for.
LEMMA LeadRuns ==
    ASSUME NEW ts \in [TaskIds -> TaskRecords \cup {None}], NEW id \in TaskIds, id \notin Tried(ts),
           NEW r \in TaskRecords, r.trial = 0, NEW x \in TaskRecords, NEW cs, Undelivered(ts, cs),
           NEW u \in Seq(HostWrites), NEW tx, tx = [ts EXCEPT ![id] = x], Lead(u, tx, cs)
    PROVE  Lead(Runs(id, r, "pending") \o (Plan(id, x) \o u), ts, cs)
<1> DEFINE a == [r EXCEPT !.status = "running"]
           b == [r EXCEPT !.status = "pending"]
           ta == [ts EXCEPT ![id] = a]
           tb == [ta EXCEPT ![id] = b]
           p == Plan(id, x) \o u
<1>1. /\ a \in TaskRecords /\ a.trial = 0 /\ a.status = "running"
      /\ b \in TaskRecords /\ b.trial = 0 /\ b.status = "pending"
  BY RecordKeeps, TrialKeeps DEF Planned
<1>2. tx = [tb EXCEPT ![id] = x]
  OBVIOUS
<1>3. Runs(id, r, "pending") = Plan(id, a) \o Plan(id, b)
  BY DEF Runs
<1> HIDE DEF a, b
<1>11. ta = [ts EXCEPT ![id] = a] /\ tb = [ta EXCEPT ![id] = b]
  OBVIOUS
<1>12. Puts(ta, ts, id, a)
  BY <1>1, PutIs
<1> HIDE DEF ta
<1>4. /\ ta \in [TaskIds -> TaskRecords \cup {None}] /\ Undelivered(ta, cs) /\ Tried(ta) = Tried(ts)
  BY <1>1, <1>12, TaskPut
<1>13. Puts(tb, ta, id, b)
  BY <1>1, <1>4, PutIs
<1> HIDE DEF tb
<1>5. /\ tb \in [TaskIds -> TaskRecords \cup {None}] /\ Undelivered(tb, cs) /\ Tried(tb) = Tried(ts)
  BY <1>1, <1>4, <1>13, TaskPut
<1>6. Lead(p, tb, cs) /\ p \in Seq(HostWrites)
  <2>1. Lead(Plan(id, x) \o u, tb, cs) /\ Plan(id, x) \in Seq(HostWrites)
    BY <1>2, <1>5, LeadPlan
  <2>2. Plan(id, x) \o u \in Seq(HostWrites)
    BY <2>1
  <2> QED
    BY <2>1, <2>2
<1> HIDE DEF p
<1>7. Lead(Plan(id, b) \o p, ta, cs) /\ Plan(id, b) \in Seq(HostWrites)
  BY <1>1, <1>4, <1>6, <1>11, LeadPlan
<1>8. Plan(id, b) \o p \in Seq(HostWrites)
  BY <1>6, <1>7
<1>9. Lead(Plan(id, a) \o (Plan(id, b) \o p), ts, cs) /\ Plan(id, a) \in Seq(HostWrites)
  BY <1>1, <1>7, <1>8, <1>11, LeadPlan
<1>10. (Plan(id, a) \o Plan(id, b)) \o p = Plan(id, a) \o (Plan(id, b) \o p)
  BY <1>6, <1>7, <1>9, ConcatAssociative
<1> QED
  BY <1>3, <1>9, <1>10 DEF p

\* Saving a case.
LEMMA CaseFits ==
    ASSUME NEW c \in CaseIds, NEW r \in CaseRecords, NEW vs, NEW ts, NEW ref
    PROVE  Fit(SaveCase(c, r), vs, ts, ref)
<1> DEFINE w == [file |-> "case", id |-> c, to |-> r]
<1>1. w \in HostWrites
  BY DEF HostWrites, SavingWrites
<1>2. w.file = "case"
  OBVIOUS
<1> HIDE DEF w
<1>3. Fit(<<w>>, vs, ts, ref)
  BY <1>1, <1>2, OneWriteFits DEF Follows
<1> QED
  BY <1>3 DEF SaveCase, w

\* It tags nothing.
LEMMA CaseTags ==
    ASSUME NEW c, NEW r, NEW ss, NEW ts, NEW key, NEW id
    PROVE  AllTag(SaveCase(c, r), ss, ts, key, id)
BY DEF AllTag, Tags, SaveCase

\* Configuring a tool.
LEMMA ConfigFits ==
    ASSUME NEW at \in Configs, NEW tool \in Tools \cup {None}, NEW vs, NEW ts, NEW ref
    PROVE  Fit(<<[file |-> "config", at |-> at, tool |-> tool]>>, vs, ts, ref)
<1> DEFINE w == [file |-> "config", at |-> at, tool |-> tool]
<1>1. w \in HostWrites
  BY DEF HostWrites, SavingWrites
<1>2. w.file = "config"
  OBVIOUS
<1> HIDE DEF w
<1>3. Fit(<<w>>, vs, ts, ref)
  BY <1>1, <1>2, OneWriteFits DEF Follows
<1> QED
  BY <1>3 DEF w

\* The bindings that a call writes last.
LEMMA BindingsAre ==
    ASSUME NEW kinds, NEW t \in Themes, NEW n \in 1..MaxVersions
    PROVE  /\ Bindings(kinds, t, n) \in Seq(ThemeWrites)
           /\ \A i \in 1..Len(Bindings(kinds, t, n)) :
                 /\ Bindings(kinds, t, n)[i].file = "binding"
                 /\ Bindings(kinds, t, n)[i].theme = t /\ Bindings(kinds, t, n)[i].n = n
<1> DEFINE B(k) == [file |-> "binding", kind |-> k, theme |-> t, n |-> n]
           c == B("conversation")
           p == B("project")
<1>1. \A k \in Kinds : B(k) \in ThemeWrites
  BY DEF ThemeWrites
<1>2. c \in ThemeWrites /\ p \in ThemeWrites
  BY <1>1 DEF Kinds
<1>3. /\ c.file = "binding" /\ c.theme = t /\ c.n = n
      /\ p.file = "binding" /\ p.theme = t /\ p.n = n
  OBVIOUS
<1>4. Bindings(kinds, t, n) = (IF "conversation" \in kinds THEN <<c>> ELSE <<>>) \o
                              (IF "project" \in kinds THEN <<p>> ELSE <<>>)
  BY DEF Bindings, Bind
<1> HIDE DEF c, p
<1> DEFINE Are(s) == s \in Seq(ThemeWrites) /\ \A i \in 1..Len(s) :
                        s[i].file = "binding" /\ s[i].theme = t /\ s[i].n = n
<1>5. Are(<<>>) /\ Are(<<c>>) /\ Are(<<p>>)
  BY <1>2, <1>3
<1>6. ASSUME NEW s, NEW u, Are(s), Are(u) PROVE Are(s \o u)
  <2>1. /\ Len(s \o u) = Len(s) + Len(u) /\ Len(s) \in Nat /\ Len(u) \in Nat
        /\ \A i \in 1..Len(s \o u) : (s \o u)[i] = IF i <= Len(s) THEN s[i] ELSE u[i - Len(s)]
        /\ s \o u \in Seq(ThemeWrites)
    BY <1>6
  <2> QED
    BY <1>6, <2>1
<1> HIDE DEF Are
<1>7. Are(Bindings(kinds, t, n))
  BY <1>4, <1>5, <1>6
<1> QED
  BY <1>7 DEF Are

\* Writes of themes are for everyone.
LEMMA ThemeFit ==
    ASSUME NEW s \in Seq(ThemeWrites), NEW vs, Binds(s, vs)
    PROVE  CliFit(s, vs) /\ Light(s) /\ \A ts, ref : Fit(s, vs, ts, ref)
<1>1. s \in Seq(HostWrites) /\ s \in Seq(CliWrites)
  BY SeqOfMore DEF HostWrites, CliWrites
<1>2. ASSUME NEW ts, NEW ref, NEW i \in 1..Len(s) PROVE Follows(s[i], ts, ref)
  <2>1. s[i] \in ThemeWrites
    OBVIOUS
  <2> QED
    BY <2>1, ThemeWriteIs DEF Follows
<1>3. ASSUME NEW i \in 1..Len(s) PROVE s[i].file \notin {"config", "plan", "task", "case", "session"}
  <2>1. s[i] \in ThemeWrites
    OBVIOUS
  <2> QED
    BY <2>1, ThemeWriteIs
<1> QED
  BY <1>1, <1>2, <1>3 DEF Fit, CliFit, Light

\* Bindings to a version that is there.
LEMMA BindingsFit ==
    ASSUME NEW kinds, NEW t \in Themes, NEW n \in 1..MaxVersions, NEW vs, vs[t][n] # None
    PROVE  /\ CliFit(Bindings(kinds, t, n), vs) /\ Light(Bindings(kinds, t, n))
           /\ \A ts, ref : Fit(Bindings(kinds, t, n), vs, ts, ref)
BY BindingsAre, ThemeFit, SMTT(20) DEF Binds

\* A version, its index and then the bindings to it.
LEMMA MadeFits ==
    ASSUME NEW kinds, NEW t \in Themes, NEW n \in 1..MaxVersions, NEW srcs \in SUBSET Sources, NEW vs
    PROVE  LET ws == <<Version(t, n, srcs), Index(t, n)>> \o Bindings(kinds, t, n)
           IN  CliFit(ws, vs) /\ Light(ws) /\ \A ts, ref : Fit(ws, vs, ts, ref)
<1> DEFINE v == [file |-> "version", theme |-> t, n |-> n, srcs |-> srcs]
           x == [file |-> "index", theme |-> t, n |-> n]
           b == Bindings(kinds, t, n)
           ws == <<v, x>> \o b
<1>1. v \in ThemeWrites /\ x \in ThemeWrites
  BY DEF ThemeWrites
<1>2. v.file = "version" /\ v.theme = t /\ v.n = n /\ x.file = "index"
  OBVIOUS
<1>3. b \in Seq(ThemeWrites) /\ \A i \in 1..Len(b) : b[i].theme = t /\ b[i].n = n
  BY BindingsAre
<1>4. <<Version(t, n, srcs), Index(t, n)>> \o Bindings(kinds, t, n) = ws
  BY DEF Version, Index
<1> HIDE DEF v, x, b
<1>5. ws \in Seq(ThemeWrites) /\ Len(ws) = 2 + Len(b) /\ ws[1] = v /\ ws[2] = x
  BY <1>1, <1>3
<1>6. \A i \in 3..(2 + Len(b)) : ws[i] = b[i - 2]
  BY <1>1, <1>3
<1>7. Binds(ws, vs)
  <2> SUFFICES ASSUME NEW i \in 1..Len(ws), ws[i].file = "binding"
               PROVE  \E j \in 1..(i - 1) : ws[j].file = "version" /\ ws[j].theme = ws[i].theme
                                                                   /\ ws[j].n = ws[i].n
    BY DEF Binds
  <2>1. i # 1 /\ i # 2
    BY <1>2, <1>5
  <2>2. i \in 3..(2 + Len(b)) /\ i - 2 \in 1..Len(b) /\ 1 \in 1..(i - 1)
    BY <1>3, <1>5, <2>1
  <2>3. ws[i].theme = t /\ ws[i].n = n
    BY <1>3, <1>6, <2>2
  <2> HIDE DEF ws
  <2> QED
    BY <1>2, <1>5, <2>2, <2>3
<1> HIDE DEF ws
<1> QED
  BY <1>4, <1>5, <1>7, ThemeFit

\* A theme that is created.
LEMMA CreateFits ==
    ASSUME NEW kinds, NEW t \in Themes, NEW srcs \in SUBSET Sources, NEW vs
    PROVE  /\ CliFit(Create(t, srcs, kinds), vs) /\ Light(Create(t, srcs, kinds))
           /\ \A ts, ref : Fit(Create(t, srcs, kinds), vs, ts, ref)
BY ThemesAssumption, MadeFits DEF Create

\* The first write and the rest.
LEMMA WriteLeft ==
    ASSUME NEW S, NEW ws \in Seq(S), ws # <<>>
    PROVE  /\ Head(ws) \in S /\ Tail(ws) \in Seq(S) /\ Len(Tail(ws)) = Len(ws) - 1
           /\ Head(ws) = ws[1] /\ Len(ws) \in Nat \ {0}
           /\ \A i \in 1..(Len(ws) - 1) : Tail(ws)[i] = ws[i + 1]
OBVIOUS

\* A binding that is due finds its version.
LEMMA BindingDue ==
    ASSUME NEW S, NEW ws \in Seq(S), ws # <<>>, NEW vs, Binds(ws, vs), Head(ws).file = "binding"
    PROVE  vs[Head(ws).theme][Head(ws).n] # None
BY WriteLeft DEF Binds

\* What is bound to is there or still comes when the first write is done.
LEMMA BindsTail ==
    ASSUME NEW S, NEW ws \in Seq(S), ws # <<>>, NEW vs, NEW vt, Binds(ws, vs),
           \A t \in Themes, n \in 1..MaxVersions : vs[t][n] # None => vt[t][n] # None,
           \A i \in 1..Len(ws) : ws[i].file = "binding" =>
                                    ws[i].theme \in Themes /\ ws[i].n \in 1..MaxVersions,
           Head(ws).file = "version" => vt[Head(ws).theme][Head(ws).n] # None
    PROVE  Binds(Tail(ws), vt)
<1> DEFINE u == Tail(ws)
<1>1. /\ Len(u) = Len(ws) - 1 /\ Len(ws) \in Nat \ {0} /\ Head(ws) = ws[1]
      /\ \A i \in 1..(Len(ws) - 1) : u[i] = ws[i + 1]
  BY WriteLeft
<1> HIDE DEF u
<1>2. SUFFICES ASSUME NEW i \in 1..Len(u), u[i].file = "binding", ~(vt[u[i].theme][u[i].n] # None)
               PROVE  \E j \in 1..(i - 1) : u[j].file = "version" /\ u[j].theme = u[i].theme
                                                                  /\ u[j].n = u[i].n
  BY DEF Binds, u
<1>3. i \in 1..(Len(ws) - 1) /\ i + 1 \in 1..Len(ws) /\ u[i] = ws[i + 1]
  BY <1>1
<1>4. ~(vs[ws[i + 1].theme][ws[i + 1].n] # None)
  BY <1>2, <1>3
<1>5. PICK j \in 1..((i + 1) - 1) : ws[j].file = "version" /\ ws[j].theme = ws[i + 1].theme
                                                         /\ ws[j].n = ws[i + 1].n
  BY <1>2, <1>3, <1>4 DEF Binds
<1>6. j # 1
  BY <1>1, <1>2, <1>3, <1>5
<1>7. j - 1 \in 1..(i - 1) /\ u[j - 1] = ws[j]
  <2>1. j - 1 \in 1..(Len(ws) - 1) /\ j - 1 \in 1..(i - 1)
    BY <1>1, <1>3, <1>6
  <2>2. (j - 1) + 1 = j
    OBVIOUS
  <2> QED
    BY <1>1, <2>1, <2>2
<1> QED
  BY <1>3, <1>5, <1>7

(***************************************************************************)
(* The invariant                                                           *)
(***************************************************************************)

Numbered(ts) == \E n \in 0..MaxTasks : Made(ts) = 1..n

\* Tasks as they once were: those there are, with the references they have.
Kept(runs, ts) ==
    /\ runs \in [TaskIds -> TaskRecords \cup {None}]
    /\ \A id \in TaskIds : runs[id] # None =>
          ts[id] # None /\ ts[id].ref = runs[id].ref /\ AsPlanned(runs[id])

Files(k) == [Themes -> [1..MaxVersions -> (1..k) \cup {None}]]

\* A file that a restore writes, None where it leaves what is there.
Restorable(w, k, ts) ==
    /\ w.file = "restore"
    /\ w.group = "themes" => /\ w.to.versions \in Files(k)
                             /\ w.to.index \in [Themes -> (0..MaxVersions) \cup {None}]
    /\ w.group \in Kinds => w.to \in Found(k) \cup {None}
    /\ w.group = "session" => w.to \in Sessions \cup {None}
    /\ w.group = "runs" => Kept(w.to, ts)

RestoreFit(ws, k, ts) ==
    /\ \E S : ws \in Seq(S)
    /\ \A i \in 1..Len(ws) : Restorable(ws[i], k, ts)

\* The files of a backup.
Snapshot(s, k, ts) ==
    /\ s.themes.versions \in Files(k) /\ s.themes.index \in [Themes -> 0..MaxVersions]
    /\ s.conversation \in Found(k) \cup {None} /\ s.project \in Found(k) \cup {None}
    /\ s.session \in Sessions
    /\ Kept(s.runs, ts) /\ Numbered(s.runs)

DataInv ==
    /\ TypeOK /\ Len(looks) <= MaxLooks /\ bound \in [Kinds -> Found(Len(looks)) \cup {None}]
    /\ Numbered(tasks) /\ ThemeAsPlanned

TodoInv ==
    /\ todo = [p \in Processes |-> todo[p]]
    /\ \E ref : Fit(todo[host], versions, tasks, ref)
    /\ CliFit(todo[cli], versions)
    /\ RestoreFit(todo[operator], Len(looks), tasks)

CopiesInv ==
    /\ archive # None => Snapshot(archive.files, Len(looks), tasks)
    /\ Making("archive") => Snapshot(backup.moment, Len(looks), tasks)
    /\ Making("hash") => \E n \in 0..MaxTasks : backup.listed.runs = 1..n /\ 1..n \subseteq Made(tasks)

WorkInv == DataInv /\ TodoInv /\ CopiesInv

(***************************************************************************)
(* What a call finds                                                       *)
(***************************************************************************)

\* There is a greatest element.
LEMMA NewestIs ==
    ASSUME NEW n \in Nat, NEW S, S \subseteq 1..n, S # {}
    PROVE  \E x \in S : \A y \in S : y <= x
<1> DEFINE T == {0..(n - x) : x \in S}
           R == StrictSubsetOrdering(Nat)
<1>1. T \subseteq FiniteSubsetsOf(Nat) /\ T # {}
  <2>1. ASSUME NEW x \in S PROVE 0..(n - x) \in SUBSET Nat /\ IsFiniteSet(0..(n - x))
    <3>1. n - x \in Int
      OBVIOUS
    <3> QED
      BY <3>1, FS_Interval
  <2> QED
    BY <2>1 DEF FiniteSubsetsOf
<1>2. PICK t \in T : \A u \in T : ~(<<u, t>> \in R)
  <2> HIDE DEF T, R
  <2> QED
    BY <1>1, WFMin, FS_StrictSubsetOrderingWellFounded DEF R
<1>3. PICK x \in S : t = 0..(n - x)
  OBVIOUS
<1>4. ASSUME NEW y \in S, ~(y <= x) PROVE FALSE
  <2>1. 0..(n - y) \in T /\ 0..(n - y) \in SUBSET Nat /\ t \in SUBSET Nat
    BY <1>3
  <2>2. 0..(n - y) \subseteq t /\ (n - x) \in t /\ (n - x) \notin 0..(n - y)
    BY <1>3, <1>4
  <2> QED
    BY <1>2, <2>1, <2>2 DEF StrictSubsetOrdering, FiniteSubsetsOf
<1> QED
  BY <1>4

\* The files have their types, and a task has its theme.
LEMMA DataFacts ==
    ASSUME DataInv
    PROVE  /\ versions \in [Themes -> [1..MaxVersions -> (1..Len(looks)) \cup {None}]]
           /\ index \in [Themes -> 0..MaxVersions]
           /\ bound \in [Kinds -> Found(Len(looks)) \cup {None}] /\ bound \in [Kinds -> Refs \cup {None}]
           /\ looks \in Seq(SUBSET Sources) /\ Len(looks) \in Nat /\ Len(looks) <= MaxLooks
           /\ session \in Sessions /\ tasks \in [TaskIds -> TaskRecords \cup {None}]
           /\ sources \in [Sources -> {"none", "file", "registered"}]
           /\ config \in [Configs -> Tools \cup {None}]
           /\ cases \in [CaseIds -> CaseRecords \cup {None}]
           /\ \A id \in TaskIds : tasks[id] # None => tasks[id] \in TaskRecords /\ AsPlanned(tasks[id])
           /\ TaskIds = 1..MaxTasks /\ MaxTasks \in Nat
BY ConversationAssumption
   DEF DataInv, TypeOK, ThemesOK, TalkOK, CasesOK, ThemeAsPlanned, AsPlanned, TaskIds

\* The next task is the one after the last.
LEMMA FreshIs ==
    ASSUME DataInv
    PROVE  /\ Fresh(tasks) = FreshTask /\ FreshTask \in Nat \ {0}
           /\ FreshTask \in TaskIds => tasks[FreshTask] = None
           /\ CanPlan => FreshTask \in TaskIds
<1>1. PICK n \in 0..MaxTasks : Made(tasks) = 1..n
  BY DEF DataInv, Numbered
<1>2. n \in Int /\ 1 \in Int /\ MaxTasks \in Nat
  BY ConversationAssumption
<1>3. Cardinality(1..n) = n
  BY <1>2, FS_Interval
<1>4. FreshTask = 1 + n /\ Fresh(tasks) = 1 + n
  BY <1>1, <1>3 DEF Fresh, FreshTask, Made
<1> QED
  BY <1>1, <1>2, <1>4 DEF Made, CanPlan, TaskIds

\* The active task, if any, is there.
LEMMA ActiveIs ==
    ASSUME DataInv
    PROVE  /\ Active \in 0..MaxTasks
           /\ Active # 0 => /\ Active \in TaskIds /\ tasks[Active] # None
                            /\ Current \in TaskRecords /\ AsPlanned(Current)
<1> DEFINE found == {id \in TaskIds : Loads(id)}
<1>1. found \subseteq 1..MaxTasks /\ \A id \in found : tasks[id] # None
  BY DEF Loads, TaskIds
<1>2. found # {} => Recovered \in found
  <2>1. SUFFICES ASSUME found # {} PROVE Recovered \in found
    OBVIOUS
  <2>2. Recovered = CHOOSE id \in found : \A other \in found : other <= id
    BY <2>1 DEF Recovered
  <2> HIDE DEF found
  <2>3. \E id \in found : \A other \in found : other <= id
    BY <1>1, <2>1, DataFacts, NewestIs
  <2> QED
    BY <2>2, <2>3
<1>3. found = {} => Recovered = 0
  BY DEF Recovered
<1>4. session.active \in 0..MaxTasks
  BY DataFacts DEF Sessions
<1> HIDE DEF found
<1>5. Recovered \in 0..MaxTasks /\ (Recovered # 0 => Recovered \in TaskIds /\ tasks[Recovered] # None)
  <2>0. TaskIds = 1..MaxTasks /\ MaxTasks \in Nat
    BY DataFacts
  <2>1. CASE found = {}
    BY <1>3, <2>1, <2>0
  <2>2. CASE found # {}
    <3>1. Recovered \in found
      BY <1>2, <2>2
    <3>2. Recovered \in 1..MaxTasks /\ tasks[Recovered] # None
      BY <1>1, <3>1
    <3> QED
      BY <3>2, <2>0
  <2> QED
    BY <2>1, <2>2
<1> HIDE DEF Recovered
<1>6. Active \in 0..MaxTasks /\ (Active # 0 => Active \in TaskIds /\ tasks[Active] # None)
  <2>1. CASE session.active # 0 /\ tasks[session.active] # None
    <3>1. Active = session.active /\ session.active \in TaskIds
      BY <1>4, <2>1, DataFacts DEF Active
    <3> QED
      BY <1>4, <2>1, <3>1
  <2>2. CASE ~(session.active # 0 /\ tasks[session.active] # None)
    <3>1. Active = Recovered
      BY <2>2 DEF Active
    <3> QED
      BY <1>5, <3>1
  <2> QED
    BY <2>1, <2>2
<1> QED
  BY <1>6, DataFacts DEF Current

\* The session, brought up to date.
LEMMA NowIs ==
    ASSUME DataInv
    PROVE  Now \in Sessions /\ Now.done = session.done
BY ActiveIs, DataFacts DEF Now, Sessions

\* A session that is changed.
LEMMA SessionKeeps ==
    ASSUME NEW s \in Sessions
    PROVE  /\ \A b \in BOOLEAN : [s EXCEPT !.unbound = b] \in Sessions
           /\ \A id \in 0..MaxTasks : [s EXCEPT !.active = id] \in Sessions
           /\ \A reg \in {"none", "required", "registered", "external"} : [s EXCEPT !.reg = reg] \in Sessions
           /\ \A c \in 0..MaxCases : [s EXCEPT !.case = c] \in Sessions
           /\ \A c \in 0..MaxCases, id \in 0..MaxTasks :
                 [s EXCEPT !.case = c, !.active = id] \in Sessions
           /\ \A src \in Sources : Registered(s, src) \in Sessions
           /\ \A id \in 0..MaxTasks, key \in Keys : [s EXCEPT !.active = id, !.done[key] = id] \in Sessions
BY DEF Sessions, Registered

\* What is recorded of the requests stays.
LEMMA DoneKeeps ==
    ASSUME NEW s \in Sessions
    PROVE  /\ \A b : [s EXCEPT !.unbound = b].done = s.done
           /\ \A id : [s EXCEPT !.active = id].done = s.done
           /\ \A reg : [s EXCEPT !.reg = reg].done = s.done
           /\ \A c : [s EXCEPT !.case = c].done = s.done
           /\ \A c, id : [s EXCEPT !.case = c, !.active = id].done = s.done
           /\ \A src : Registered(s, src).done = s.done
BY DEF Sessions, Registered

\* A session that is like another one is ready when that one is.
LEMMA LikeReady ==
    ASSUME NEW s, NEW t, t.done = s.done, t.active = s.active, t.case = s.case,
           NEW ts, NEW cs, Ready(s, ts, cs)
    PROVE  Ready(t, ts, cs)
BY DEF Ready, Traced, Placed, Noted

\* The session of most calls: with the task and the case that it has now.
Alike(s) == /\ s \in Sessions /\ s.done = session.done
            /\ s.active \in {session.active, Active} /\ s.case \in {session.case, ActiveCase}

LEMMA AlikeKeeps ==
    ASSUME DataInv
    PROVE  /\ Alike(session) /\ Alike(Now)
           /\ \A s : Alike(s) => /\ \A b \in BOOLEAN : Alike([s EXCEPT !.unbound = b])
                                 /\ \A reg \in {"none", "required", "registered", "external"} :
                                       Alike([s EXCEPT !.reg = reg])
                                 /\ \A src \in Sources : Alike(Registered(s, src))
<1>1. session \in Sessions /\ Alike(session)
  BY DataFacts DEF Alike
<1>2. Alike(Now)
  <2>1. Now.active = Active /\ Now.case = session.case
    BY <1>1 DEF Now, Sessions
  <2> QED
    BY <2>1, NowIs DEF Alike
<1>3. ASSUME NEW s, Alike(s)
      PROVE  /\ \A b \in BOOLEAN : Alike([s EXCEPT !.unbound = b])
             /\ \A reg \in {"none", "required", "registered", "external"} : Alike([s EXCEPT !.reg = reg])
             /\ \A src \in Sources : Alike(Registered(s, src))
  <2>1. s \in Sessions
    BY <1>3 DEF Alike
  <2>2. /\ \A b \in BOOLEAN : [s EXCEPT !.unbound = b] \in Sessions
        /\ \A reg \in {"none", "required", "registered", "external"} : [s EXCEPT !.reg = reg] \in Sessions
        /\ \A src \in Sources : Registered(s, src) \in Sessions
    BY <2>1, SessionKeeps
  <2>3. /\ \A b : LET t == [s EXCEPT !.unbound = b]
                  IN  t.done = s.done /\ t.active = s.active /\ t.case = s.case
        /\ \A reg : LET t == [s EXCEPT !.reg = reg]
                    IN  t.done = s.done /\ t.active = s.active /\ t.case = s.case
        /\ \A src : LET t == Registered(s, src)
                    IN  t.done = s.done /\ t.active = s.active /\ t.case = s.case
    BY <2>1 DEF Sessions, Registered
  <2> QED
    BY <1>3, <2>2, <2>3 DEF Alike
<1> QED
  BY <1>1, <1>2, <1>3

\* It is ready when the session is: a task that is there stays the active one.
LEMMA AlikeReady ==
    ASSUME DataInv, Ready(session, tasks, cases), NEW s, Alike(s)
    PROVE  Ready(s, tasks, cases)
<1>1. s.done = session.done /\ s.active \in {session.active, Active} /\ s.case \in {session.case, ActiveCase}
  BY DEF Alike
<1>2. Noted(s, tasks)
  BY <1>1 DEF Ready, Noted
<1>3. /\ Stands(cases, s.case) => s.case = session.case
      /\ Stands(cases, session.case) => s.case = session.case
  BY <1>1 DEF Stands, ActiveCase
<1>4. CASE session.active \in Made(tasks)
  <2>1. session.active # 0 /\ tasks[session.active] # None
    BY <1>4, DataFacts DEF Made
  <2>2. s.active = session.active
    BY <1>1, <2>1 DEF Active
  <2> QED
    BY <1>2, <1>3, <1>4, <2>2 DEF Ready, Traced, Placed
<1>5. CASE session.active \notin Made(tasks)
  <2>1. Tried(tasks) = {} /\ ~(Stands(cases, session.case) /\ cases[session.case].source # 0)
    BY <1>5 DEF Ready, Placed
  <2> QED
    BY <1>2, <1>3, <2>1 DEF Ready, Traced, Placed
<1> QED
  BY <1>4, <1>5

\* A request is recorded with its task.
LEMMA RecordedIs ==
    ASSUME NEW s \in Sessions, NEW key \in Keys, NEW id \in TaskIds
    PROVE  LET r == [s EXCEPT !.active = id, !.done[key] = id]
           IN  \A k \in Keys : s.done[k] # 0 \/ k = key => r.done[k] # 0
<1>1. id # 0 /\ s.done \in [Keys -> 0..MaxTasks]
  BY DEF TaskIds, Sessions
<1>2. [s EXCEPT !.active = id, !.done[key] = id].done = [s.done EXCEPT ![key] = id]
  BY DEF Sessions
<1> QED
  BY <1>1, <1>2

\* A new task is planned with what the conversation is bound to.
LEMMA NewTaskIs ==
    ASSUME DataInv
    PROVE  NewTask \in TaskRecords /\ NewTask.ref = Binding /\ AsPlanned(NewTask) /\ NewTask.request = None
<1>1. Binding \in Found(Len(looks)) \cup {None}
  BY DataFacts DEF Binding, Kinds
<1>2. Binding # None => Binding \in Refs /\ Binding.look \in 1..MaxLooks
  BY <1>1, DataFacts, ThemesAssumption DEF Found, Refs
<1>3. (IF Binding = None THEN None ELSE Binding.look) \in 1..MaxLooks \cup {None}
  BY <1>2
<1>4. Binding \in Refs \cup {None} /\ MaxCases \in Nat
  BY <1>2, ConversationAssumption
<1> HIDE DEF Binding
<1> QED
  BY <1>2, <1>3, <1>4 DEF NewTask, TaskRecords, AsPlanned, Planned

\* A theme that is derived from.
LEMMA DerivesFrom ==
    ASSUME DataInv, NEW t \in Themes, NEW n, CanDerive(t, n), NEW srcs \in SUBSET Sources, NEW kinds
    PROVE  /\ CliFit(Derive(t, n, srcs, kinds), versions) /\ Light(Derive(t, n, srcs, kinds))
           /\ \A ref : Fit(Derive(t, n, srcs, kinds), versions, tasks, ref)
<1>1. n \in 1..MaxVersions /\ versions[t][n] \in 1..Len(looks) /\ index[t] + 1 \in 1..MaxVersions
  BY DataFacts, ThemesAssumption DEF CanDerive, Known
<1>2. looks[versions[t][n]] \cup srcs \in SUBSET Sources
  BY <1>1, DataFacts
<1> QED
  BY <1>1, <1>2, MadeFits DEF Derive

(***************************************************************************)
(* The calls of the conversation                                           *)
(***************************************************************************)

\* What is tried is not in the files yet, or was adopted.
Settled == /\ crashes = 0 /\ restores = 0 /\ InOrder(cases)
           /\ InFiles(config, tasks) => Durable(cases)

\* No trial is delivered, and the session stays with its own.
Steady == Ready(session, tasks, cases) /\ Undelivered(tasks, cases) /\ InOrder(cases)

\* The writes of a call: of one for request key, if that is new, with task id.
Suits(ws, key, id) ==
    /\ Fit(ws, versions, tasks, Binding) /\ (Settled => AllLawful(ws, cases))
    /\ AllTag(ws, session, tasks, key, id)
Fits(ws) == Suits(ws, None, 0) /\ (Steady => AllPlain(ws, tasks, cases))

Requests(ws, key, id) ==
    /\ AllTag(ws, session, tasks, key, id)
    /\ key \in Keys => id \in TaskIds /\ session.done[key] = 0 /\ Leads(ws)

Asks == /\ Idle(host)
        /\ \E ws : /\ todo' = [todo EXCEPT ![host] = ws] /\ Fit(ws, versions, tasks, Binding)
                   /\ Settled => Owes(ws, cases)
                   /\ Steady => AllPlain(ws, tasks, cases) \/ Lead(ws, tasks, cases)
                   /\ \E key, id : Requests(ws, key, id)

\* The next case is a new one.
LEMMA FreshCaseIs ==
    ASSUME InOrder(cases)
    PROVE  FreshCase = 1 + Cardinality(Opened(cases)) /\ (FreshCase \in CaseIds => cases[FreshCase] = None)
<1>1. PICK n \in 0..MaxCases : Opened(cases) = 1..n
  BY DEF InOrder
<1>2. n \in Int /\ 1 \in Int /\ MaxCases \in Nat
  BY ConversationAssumption
<1>3. Cardinality(1..n) = n
  BY <1>2, FS_Interval
<1>4. FreshCase = 1 + n /\ FreshCase = 1 + Cardinality(Opened(cases))
  BY <1>1, <1>3 DEF FreshCase, Opened
<1> QED
  BY <1>1, <1>2, <1>4 DEF Opened

\* A task is saved with a tool apart only if it has one.
LEMMA TaskApart ==
    ASSUME Settled, NEW id \in TaskIds, tasks[id] # None, NEW r, Apart(r) => Apart(tasks[id])
    PROVE  Apart(r) => Durable(cases)
BY DEF Settled, InFiles

\* Parts of a call after one another.
LEMMA SuitsJoin ==
    ASSUME NEW s, NEW t, NEW key, NEW id, Suits(s, key, id), Suits(t, key, id)
    PROVE  Suits(s \o t, key, id)
<1>1. Fit(s \o t, versions, tasks, Binding)
  BY FitJoin DEF Suits
<1>2. s \in Seq(HostWrites) /\ t \in Seq(HostWrites)
  BY DEF Suits, Fit
<1> QED
  BY <1>1, <1>2, LawfulJoin, TagJoin DEF Suits

\* Writes that are light.
LEMMA LightFits ==
    ASSUME NEW ws, Light(ws), Fit(ws, versions, tasks, Binding)
    PROVE  Fits(ws) /\ \A key, id : Suits(ws, key, id)
BY LightIs DEF Fits, Suits

\* Parts of any call.
LEMMA SuitsAll ==
    /\ \A key, id : /\ Suits(<<>>, key, id) /\ Suits(View, key, id) /\ Suits(Load, key, id)
                    /\ Suits(Repaired, key, id)
    /\ Light(<<>>) /\ Light(View) /\ Light(Load) /\ Light(Repaired)
<1>1. Light(<<>>)
  BY DEF Light
<1>2. /\ Light(View) /\ Light(Load) /\ Light(<<[file |-> "repair"]>>)
      /\ \A vs, ts, ref : Fit(View, vs, ts, ref) /\ Fit(<<[file |-> "repair"]>>, vs, ts, ref)
  BY LateFits
<1>3. Light(Repaired)
  <2> DEFINE a == [file |-> "repair"]
             b == [file |-> "view"]
             u == <<a>> \o <<b>>
  <2>1. Repaired = u /\ a.file = "repair" /\ b.file = "view"
    BY DEF Repaired, View
  <2> HIDE DEF a, b
  <2>2. Len(u) = 2 /\ u[1] = a /\ u[2] = b
    OBVIOUS
  <2> HIDE DEF u
  <2> QED
    BY <2>1, <2>2 DEF Light
<1>4. ASSUME NEW key, NEW id
      PROVE  /\ Suits(<<>>, key, id) /\ Suits(View, key, id) /\ Suits(Load, key, id)
             /\ Suits(Repaired, key, id)
  <2>1. /\ Suits(<<>>, key, id) /\ Suits(View, key, id) /\ Suits(Load, key, id)
        /\ Suits(<<[file |-> "repair"]>>, key, id)
    BY <1>1, NoWriteFits, LateFits, LightFits
  <2> QED
    BY <2>1, SuitsJoin DEF Repaired
<1> QED
  BY <1>1, <1>2, <1>3, <1>4

\* The parts that calls are made of.
LEMMA PartsFit ==
    ASSUME DataInv
    PROVE  /\ \A s, t : Fits(s) /\ Fits(t) => Fits(s \o t)
           /\ Fits(<<>>) /\ Fits(View) /\ Fits(Load) /\ Fits(Repaired)
           /\ \A s : Alike(s) => Fits(Save(s)) /\ Fits(Confirmed(s))
           /\ \A s \in Sessions : s.done = session.done => /\ Suits(Save(s), None, 0)
                                                           /\ (Steady => Ready(s, tasks, cases)) => Fits(Save(s))
           /\ \A s \in Sources : Fits(Staged(s)) /\ Fits(<<[file |-> "link", src |-> s]>>)
           /\ \A s \in Sources, t \in Themes, n \in 0..MaxVersions :
                 Fits(<<[file |-> "derive", theme |-> t, n |-> n, src |-> s]>>)
           /\ \A id \in TaskIds, r \in Drafts :
                 /\ tasks[id] # None /\ r.ref = tasks[id].ref /\ r.request = tasks[id].request
                 /\ r.trial = tasks[id].trial /\ (Apart(r) => Apart(tasks[id]))
                 /\ Steady /\ r.status = "exported" /\ r.trial # 0 => Behind(cases, id)
                 => Fits(SaveTask(id, r))
           /\ \A id \in TaskIds, r \in TaskRecords :
                 /\ tasks[id] # None /\ r.ref = tasks[id].ref /\ r.request = tasks[id].request
                 /\ r.trial = tasks[id].trial /\ (Apart(r) => Apart(tasks[id]))
                 => Fits(Execute(id, r))
           /\ \A c \in CaseIds, r \in CaseRecords :
                 (Settled => Lawful([file |-> "case", id |-> c, to |-> r], cases)) =>
                    /\ Suits(SaveCase(c, r), None, 0)
                    /\ KeepsCase(c, r, cases) => Fits(SaveCase(c, r))
<1>1. ASSUME NEW s, NEW t, Fits(s), Fits(t) PROVE Fits(s \o t)
  <2>1. s \in Seq(HostWrites) /\ t \in Seq(HostWrites)
    BY <1>1 DEF Fits, Suits, Fit
  <2>2. Steady => AllPlain(s \o t, tasks, cases)
    BY <1>1, <2>1, PlainJoin DEF Fits
  <2> QED
    BY <1>1, <2>2, SuitsJoin DEF Fits
<1>2. Fits(<<>>) /\ Fits(View) /\ Fits(Load) /\ Fits(Repaired)
  BY SuitsAll, LightIs DEF Fits
<1>3. ASSUME NEW x \in Sessions, x.done = session.done
      PROVE  /\ Suits(Save(x), None, 0)
             /\ (Steady => Ready(x, tasks, cases)) => Fits(Save(x))
  <2>1. \A k \in Keys : session.done[k] # 0 \/ k = None => x.done[k] # 0
    BY <1>3, ConversationAssumption
  <2> QED
    BY <2>1, SaveFits, OnePlain DEF Fits, Suits
<1>4. ASSUME NEW s, Alike(s) PROVE Fits(Save(s)) /\ Fits(Confirmed(s))
  <2> DEFINE c == [s EXCEPT !.unbound = FALSE]
  <2>1. Alike(c)
    BY <1>4, AlikeKeeps
  <2>2. c = [s EXCEPT !.unbound = FALSE]
    OBVIOUS
  <2> HIDE DEF c
  <2>3. ASSUME NEW x, Alike(x) PROVE Fits(Save(x))
    <3>1. x \in Sessions /\ x.done = session.done
      BY <2>3 DEF Alike
    <3>2. Steady => Ready(x, tasks, cases)
      BY <2>3, AlikeReady DEF Steady
    <3> QED
      BY <1>3, <3>1, <3>2
  <2>4. Fits(Save(s)) /\ Fits(Save(c))
    BY <1>4, <2>1, <2>3
  <2> QED
    BY <1>1, <1>2, <2>2, <2>4 DEF Confirmed
<1>5. \A s \in Sources : Fits(Staged(s)) /\ Fits(<<[file |-> "link", src |-> s]>>)
  BY StagedFits, LateFits, LightFits
<1>6. \A s \in Sources, t \in Themes, n \in 0..MaxVersions :
         Fits(<<[file |-> "derive", theme |-> t, n |-> n, src |-> s]>>)
  BY LateFits, LightFits
<1>7. ASSUME NEW id \in TaskIds, tasks[id] # None, NEW r \in Drafts, r.ref = tasks[id].ref,
             r.request = tasks[id].request, r.trial = tasks[id].trial, Apart(r) => Apart(tasks[id]),
             Steady /\ r.status = "exported" /\ r.trial # 0 => Behind(cases, id)
      PROVE  Fits(SaveTask(id, r))
  <2>1. Settled => AllLawful(SaveTask(id, r), cases)
    BY <1>7, TaskApart, TaskLawful
  <2>2. AllTag(SaveTask(id, r), session, tasks, None, 0)
    BY <1>7, TaskTags
  <2>3. Steady => AllPlain(SaveTask(id, r), tasks, cases)
    BY <1>7, OnePlain DEF KeepsTask
  <2> QED
    BY <1>7, <2>1, <2>2, <2>3, TaskFits DEF Fits, Suits
<1>8. ASSUME NEW id \in TaskIds, tasks[id] # None, NEW r \in TaskRecords, r.ref = tasks[id].ref,
             r.request = tasks[id].request, r.trial = tasks[id].trial, Apart(r) => Apart(tasks[id])
      PROVE  Fits(Execute(id, r))
  <2>1. Settled => AllLawful(Execute(id, r), cases)
    BY <1>8, TaskApart, WorkLawful
  <2>2. AllTag(Execute(id, r), session, tasks, None, 0)
    BY <1>8, WorkTags
  <2>3. AllPlain(Execute(id, r), tasks, cases)
    BY <1>8, WorkPlain
  <2> QED
    BY <1>8, <2>1, <2>2, <2>3, ExecuteFits DEF Fits, Suits
<1>9. ASSUME NEW c \in CaseIds, NEW r \in CaseRecords,
             Settled => Lawful([file |-> "case", id |-> c, to |-> r], cases)
      PROVE  Suits(SaveCase(c, r), None, 0) /\ (KeepsCase(c, r, cases) => Fits(SaveCase(c, r)))
  <2> DEFINE w == [file |-> "case", id |-> c, to |-> r]
  <2>1. Settled => Lawful(w, cases)
    BY <1>9
  <2> HIDE DEF w
  <2>2. Settled => AllLawful(<<w>>, cases)
    BY <2>1 DEF AllLawful
  <2>3. Settled => AllLawful(SaveCase(c, r), cases)
    BY <2>2 DEF SaveCase, w
  <2>4. AllTag(SaveCase(c, r), session, tasks, None, 0)
    BY CaseTags
  <2> QED
    BY <2>3, <2>4, CaseFits, OnePlain DEF Fits, Suits
<1> QED
  BY <1>1, <1>2, <1>3, <1>4, <1>5, <1>6, <1>7, <1>8, <1>9

\* A task that is planned anew, or planned again.
LEMMA PlansFit ==
    ASSUME DataInv
    PROVE  /\ CanPlan => \A missing \in BOOLEAN, end \in {"pending", "failed"}, key \in Keys \cup {None},
                            tool \in Tools \cup {None}, c \in 0..MaxCases :
                 LET planned == [NewTask EXCEPT !.missing = missing] IN
                 /\ Fits(Runs(FreshTask, planned, end)) /\ Suits(Runs(FreshTask, planned, end), key, FreshTask)
                 /\ Plans(Runs(FreshTask, planned, end))
                 /\ LET tagged == [planned EXCEPT !.status = "pending", !.request = key]
                    IN  Suits(Plan(FreshTask, tagged), key, FreshTask) /\ Plans(Plan(FreshTask, tagged))
                 /\ tool = None \/ c # 0 =>
                       Suits(Plan(FreshTask, [planned EXCEPT !.status = "pending", !.override = tool,
                                                             !.trial = c]), None, 0)
           /\ Active # 0 => \A missing \in BOOLEAN, end \in {"pending", "failed"} :
                 Fits(Runs(Active, [Current EXCEPT !.missing = missing], end))
<1>1. ASSUME CanPlan, NEW missing \in BOOLEAN, NEW end \in {"pending", "failed"},
             NEW key \in Keys \cup {None}, NEW tool \in Tools \cup {None}, NEW c \in 0..MaxCases
      PROVE  LET planned == [NewTask EXCEPT !.missing = missing] IN
             /\ Fits(Runs(FreshTask, planned, end)) /\ Suits(Runs(FreshTask, planned, end), key, FreshTask)
             /\ Plans(Runs(FreshTask, planned, end))
             /\ LET tagged == [planned EXCEPT !.status = "pending", !.request = key]
                IN  Suits(Plan(FreshTask, tagged), key, FreshTask) /\ Plans(Plan(FreshTask, tagged))
             /\ tool = None \/ c # 0 =>
                   Suits(Plan(FreshTask, [planned EXCEPT !.status = "pending", !.override = tool,
                                                         !.trial = c]), None, 0)
  <2> DEFINE planned == [NewTask EXCEPT !.missing = missing]
  <2>1. /\ planned \in TaskRecords /\ planned.ref = Binding /\ AsPlanned(planned) /\ ~Apart(planned)
        /\ planned.request = None /\ planned.trial = 0
    <3>1. /\ planned \in TaskRecords /\ planned.ref = NewTask.ref /\ planned.seen = NewTask.seen
          /\ planned.request = NewTask.request /\ planned.trial = NewTask.trial
      BY NewTaskIs, RecordKeeps, RequestKeeps, TrialKeeps
    <3>2. ~Apart(NewTask) /\ NewTask.trial = 0
      BY DEF Apart, NewTask
    <3> QED
      BY <3>1, <3>2, NewTaskIs, ApartKeeps DEF AsPlanned
  <2>2. FreshTask \in TaskIds /\ tasks[FreshTask] = None /\ FreshTask = Fresh(tasks)
    BY <1>1, FreshIs
  <2> HIDE DEF planned
  <2>3. /\ [planned EXCEPT !.status = "pending", !.request = key] \in TaskRecords
        /\ [planned EXCEPT !.status = "pending", !.request = key].ref = planned.ref
        /\ [planned EXCEPT !.status = "pending", !.request = key].seen = planned.seen
        /\ ~Apart([planned EXCEPT !.status = "pending", !.request = key])
        /\ [planned EXCEPT !.status = "pending", !.request = key].request = key
    BY <2>1, ZenonT(40) DEF TaskRecords, Planned, Apart
  <2>4. /\ [planned EXCEPT !.status = "pending", !.override = tool, !.trial = c] \in TaskRecords
        /\ [planned EXCEPT !.status = "pending", !.override = tool, !.trial = c].ref = planned.ref
        /\ [planned EXCEPT !.status = "pending", !.override = tool, !.trial = c].seen = planned.seen
        /\ tool = None \/ c # 0 =>
              ~Apart([planned EXCEPT !.status = "pending", !.override = tool, !.trial = c])
        /\ [planned EXCEPT !.status = "pending", !.override = tool, !.trial = c].request = None
    BY <2>1, ZenonT(40) DEF TaskRecords, Planned, Apart
  <2>5. /\ \A k, id : Suits(Runs(FreshTask, planned, end), k, id)
        /\ Plans(Runs(FreshTask, planned, end))
    BY <1>1, <2>1, <2>2, RunsFits, WorkLawful, WorkTags DEF Suits
  <2>8. AllPlain(Runs(FreshTask, planned, end), tasks, cases)
    BY <1>1, <2>1, <2>2, WorkPlain
  <2> DEFINE tagged == [planned EXCEPT !.status = "pending", !.request = key]
             trial == [planned EXCEPT !.status = "pending", !.override = tool, !.trial = c]
  <2>6. Suits(Plan(FreshTask, tagged), key, FreshTask) /\ Plans(Plan(FreshTask, tagged))
    <3>1. AllTag(Plan(FreshTask, tagged), session, tasks, key, FreshTask) /\ Plans(Plan(FreshTask, tagged))
      BY <2>3, TaskTags
    <3> QED
      BY <2>1, <2>2, <2>3, <3>1, PlanFits, TaskLawful DEF Suits, AsPlanned
  <2>7. ASSUME tool = None \/ c # 0 PROVE Suits(Plan(FreshTask, trial), None, 0)
    <3>1. AllTag(Plan(FreshTask, trial), session, tasks, None, 0)
      BY <2>4, TaskTags
    <3> QED
      BY <2>1, <2>2, <2>4, <2>7, <3>1, PlanFits, TaskLawful DEF Suits, AsPlanned
  <2> QED
    BY <2>5, <2>6, <2>7, <2>8 DEF planned, Fits
<1>2. ASSUME Active # 0, NEW missing \in BOOLEAN, NEW end \in {"pending", "failed"}
      PROVE  Fits(Runs(Active, [Current EXCEPT !.missing = missing], end))
  <2> DEFINE r == [Current EXCEPT !.missing = missing]
  <2>1. Active \in TaskIds /\ tasks[Active] # None /\ Current \in TaskRecords /\ AsPlanned(Current)
    BY <1>2, ActiveIs
  <2>2. /\ r \in TaskRecords /\ r.ref = Current.ref /\ r.seen = Current.seen /\ (Apart(r) => Apart(Current))
        /\ r.request = Current.request /\ r.trial = Current.trial
    BY <2>1, RecordKeeps, ApartKeeps, RequestKeeps, TrialKeeps
  <2> HIDE DEF r
  <2>3. /\ AsPlanned(r) /\ r.ref = tasks[Active].ref /\ (Apart(r) => Apart(tasks[Active]))
        /\ r.request = tasks[Active].request /\ r.trial = tasks[Active].trial
    BY <2>1, <2>2 DEF AsPlanned, Current
  <2>4. Settled => AllLawful(Runs(Active, r, end), cases)
    BY <2>1, <2>2, <2>3, TaskApart, WorkLawful
  <2>5. AllTag(Runs(Active, r, end), session, tasks, None, 0)
    BY <2>1, <2>2, <2>3, WorkTags
  <2>6. AllPlain(Runs(Active, r, end), tasks, cases)
    BY <1>2, <2>1, <2>2, <2>3, WorkPlain
  <2> QED
    BY <1>2, <2>1, <2>2, <2>3, <2>4, <2>5, <2>6, RunsFits DEF Fits, Suits, r
<1> QED
  BY <1>1, <1>2

\* A call asks for writes that suit it.
LEMMA RequestAsks ==
    ASSUME NEW ws, NEW key, NEW id, Suits(ws, key, id), Call(host, ws),
           key \in Keys => id \in TaskIds /\ session.done[key] = 0 /\ Leads(ws),
           Steady => AllPlain(ws, tasks, cases) \/ Lead(ws, tasks, cases)
    PROVE  Asks
<1> DEFINE ap == [c \in CaseIds |-> cases[c] # None /\ cases[c].applied]
<1>1. Knows(cases, ap)
  BY DEF Knows
<1>2. ASSUME AllLawful(ws, cases), NEW i \in 1..Len(ws), ws[i].file = "case"
      PROVE  /\ ws[i].to.applied = ap[ws[i].id]
             /\ cases[ws[i].id] # None \/ ws[i].id = 1 + Cardinality(Opened(cases))
  <2>1. ws[i].id \in CaseIds /\ ws[i].to \in CaseRecords
    BY <1>2, HostWriteIs DEF Suits, Fit
  <2>2. Lawful(ws[i], cases) /\ ws[i].to.applied \in BOOLEAN
    BY <1>2, <2>1 DEF AllLawful, CaseRecords
  <2> QED
    BY <1>2, <2>1, <2>2 DEF Lawful
<1> HIDE DEF ap
<1>3. AllLawful(ws, cases) => Owed(ws, cases, ap)
  BY <1>2 DEF Owed, AllLawful, Lawful
<1> QED
  BY <1>1, <1>3 DEF Call, Asks, Suits, Owes, Requests

\* One that is for no new request.
LEMMA CallAsks == ASSUME NEW ws, Fits(ws), Call(host, ws) PROVE Asks
<1>1. None \notin Keys
  BY ConversationAssumption
<1> QED
  BY <1>1, RequestAsks DEF Fits

\* Two or three parts.
LEMMA Joins ==
    ASSUME DataInv, NEW s, NEW t, NEW u, Fits(s), Fits(t), Fits(u)
    PROVE  Fits(s \o t) /\ Fits(s \o t \o u)
<1>1. Fits(s \o t)
  BY PartsFit
<1> QED
  BY <1>1, PartsFit

\* A theme is selected, created or derived.
LEMMA SelectAsks ==
    ASSUME DataInv, NEW t \in Themes, NEW n \in 1..MaxVersions,
           \/ SelectTheme(t, n) \/ CreateTheme(t) \/ DeriveTheme(t, n)
    PROVE  Asks
<1>1. Alike(session)
  BY AlikeKeeps
<1>2. Fits(Confirmed(session))
  BY <1>1, PartsFit
<1>3. CASE SelectTheme(t, n)
  <2>1. Fits(Bindings({"conversation"}, t, n))
    BY <1>3, BindingsFit, LightFits DEF SelectTheme, Known
  <2> QED
    BY <1>2, <1>3, <2>1, Joins, CallAsks DEF SelectTheme
<1>4. CASE CreateTheme(t)
  <2>1. Fits(Create(t, {}, {"conversation"}))
    BY CreateFits, LightFits
  <2> QED
    BY <1>2, <1>4, <2>1, Joins, CallAsks DEF CreateTheme
<1>5. CASE DeriveTheme(t, n)
  <2>1. Fits(Derive(t, n, {}, {"conversation"}))
    BY <1>5, DerivesFrom, LightFits DEF DeriveTheme
  <2> QED
    BY <1>2, <1>5, <2>1, Joins, CallAsks DEF DeriveTheme
<1> QED
  BY <1>3, <1>4, <1>5

\* A theme is made from a source.
LEMMA SourceAsks ==
    ASSUME DataInv, NEW s \in Sources, NEW t \in Themes, NEW n \in 0..MaxVersions,
           ThemeFromSource(t, n, s)
    PROVE  Asks
<1> DEFINE r == Registered(session, s)
           a == Staged(s)
           b == Save(r)
           c == <<[file |-> "derive", theme |-> t, n |-> n, src |-> s]>>
           d == Confirmed(r)
<1>1. Alike(r)
  BY AlikeKeeps
<1>2. Fits(a) /\ Fits(b) /\ Fits(c) /\ Fits(d)
  BY <1>1, PartsFit
<1>3. Call(host, a \o b \o c \o d)
  BY DEF ThemeFromSource
<1> HIDE DEF a, b, c, d
<1>4. Fits(a \o b \o c)
  BY <1>2, Joins
<1>5. Fits(a \o b \o c \o d)
  BY <1>2, <1>4, Joins
<1> QED
  BY <1>3, <1>5, CallAsks

\* The end of most calls.
LEMMA SavedIs ==
    ASSUME DataInv
    PROVE  /\ Fits(Save(Now)) /\ Fits(Save(Now) \o View) /\ Fits(View) /\ Fits(<<>>)
           /\ Fits(Repaired) /\ Fits(View \o Repaired)
           /\ \A s : Alike(s) => Fits(Save(s) \o View)
           /\ \A s \in Sessions : s.done = session.done /\ (Steady => Ready(s, tasks, cases)) =>
                 Fits(Save(s) \o View) /\ Fits(Save(s) \o View \o Repaired)
<1>1. Alike(Now)
  BY AlikeKeeps
<1>2. /\ Fits(View) /\ Fits(Repaired) /\ Fits(<<>>)
      /\ \A s : Alike(s) => Fits(Save(s))
      /\ \A s \in Sessions : s.done = session.done /\ (Steady => Ready(s, tasks, cases)) => Fits(Save(s))
  BY PartsFit
<1> QED
  BY <1>1, <1>2, Joins

\* The session that records a request is ready once its task is there, and so is one
\* that goes back to the task of a request.
LEMMA RecordedReady ==
    ASSUME NEW s \in Sessions, NEW ts \in [TaskIds -> TaskRecords \cup {None}], NEW cs,
           Ready(s, ts, cs), Undelivered(ts, cs), NEW key \in Keys, NEW id \in TaskIds, ts[id] = None,
           NEW r \in TaskRecords, r.trial = 0, r.status # "exported",
           NEW tx, Puts(tx, ts, id, r)
    PROVE  Ready([s EXCEPT !.active = id, !.done[key] = id], tx, cs) /\ Undelivered(tx, cs)
<1> DEFINE x == [s EXCEPT !.active = id, !.done[key] = id]
<1>1. id \notin Made(ts) /\ id \notin Tried(ts)
  BY DEF Made, Tried
<1>2. Undelivered(tx, cs) /\ Made(tx) = Made(ts) \cup {id} /\ Tried(tx) = Tried(ts)
  <2> HIDE DEF x
  <2> QED
    BY <1>1, TaskPut
<1>3. x.active = id /\ x.done = [s.done EXCEPT ![key] = id] /\ s.done \in [Keys -> 0..MaxTasks]
  BY DEF Sessions
<1> HIDE DEF x
<1>4. Traced(x, tx, cs) /\ Placed(x, tx, cs)
  BY <1>1, <1>2, <1>3 DEF Traced, Placed
<1>5. ASSUME NEW k \in Keys, x.done[k] # 0 PROVE x.done[k] \in Made(tx) \ Tried(tx)
  <2>1. CASE k = key
    BY <1>1, <1>2, <1>3, <2>1
  <2>2. CASE k # key
    <3>1. x.done[k] = s.done[k]
      BY <1>3, <2>2
    <3>2. s.done[k] \in Made(ts) \ Tried(ts)
      BY <1>5, <3>1 DEF Ready, Noted
    <3> QED
      BY <1>2, <3>1, <3>2
  <2> QED
    BY <2>1, <2>2
<1> QED
  BY <1>2, <1>4, <1>5 DEF Ready, Noted, x

LEMMA AgainReady ==
    ASSUME DataInv, Steady, NEW key \in Keys, session.done[key] # 0
    PROVE  Ready([session EXCEPT !.active = session.done[key]], tasks, cases)
<1> DEFINE s == [session EXCEPT !.active = session.done[key]]
<1>1. s.active = session.done[key] /\ s.done = session.done
  BY DataFacts DEF Sessions
<1> HIDE DEF s
<1>2. Noted(s, tasks) /\ s.active \in Made(tasks) \ Tried(tasks)
  BY <1>1 DEF Steady, Ready, Noted
<1> QED
  BY <1>2 DEF Ready, Traced, Placed, s

\* A request is submitted.
LEMMA SubmitAsks ==
    ASSUME DataInv, NEW key \in Keys, NEW end \in {"pending", "failed"}, NEW missing \in BOOLEAN,
           Submit(key, end, missing)
    PROVE  Asks
<1> DEFINE id == FreshTask
           planned == [NewTask EXCEPT !.missing = missing]
           tagged == [planned EXCEPT !.status = "pending", !.request = key]
           recorded == [session EXCEPT !.active = id, !.done[key] = id]
           again == [session EXCEPT !.active = session.done[key]]
<1>1. CASE ~Selected /\ ~session.unbound
  <2>1. Call(host, View \o Repaired)
    BY <1>1 DEF Submit
  <2> QED
    BY <2>1, SavedIs, CallAsks
<1>2. CASE ~(~Selected /\ ~session.unbound) /\ session.done[key] # 0
  <2>1. Call(host, Save(again) \o View \o Repaired)
    BY <1>2 DEF Submit
  <2>2. again \in Sessions /\ again.done = session.done
    <3>1. session \in Sessions /\ session.done[key] \in 0..MaxTasks
      BY DataFacts DEF Sessions
    <3> QED
      BY <3>1, SessionKeeps, DoneKeeps
  <2>3. Steady => Ready(again, tasks, cases)
    BY <1>2, AgainReady
  <2> HIDE DEF again
  <2> QED
    BY <2>1, <2>2, <2>3, SavedIs, CallAsks
<1>3. CASE ~(~Selected /\ ~session.unbound) /\ ~(session.done[key] # 0)
  <2>1. /\ CanPlan
        /\ Call(host, Runs(id, planned, end) \o
                      IF end = "failed" THEN <<>>
                      ELSE Plan(id, tagged) \o Save(recorded) \o View \o Repaired)
    BY <1>3 DEF Submit
  <2> DEFINE a == Runs(id, planned, end)
             b == Plan(id, tagged)
             c == Save(recorded)
             rest == b \o c \o View \o Repaired
  <2>2. Fits(a) /\ Suits(a, key, id) /\ Plans(a) /\ Suits(b, key, id) /\ Plans(b)
    <3>1. None \in Tools \cup {None} /\ 0 \in 0..MaxCases /\ key \in Keys \cup {None}
      BY ConversationAssumption
    <3> QED
      BY <2>1, <3>1, PlansFit
  <2>3. /\ recorded \in Sessions
        /\ \A k \in Keys : session.done[k] # 0 \/ k = key => recorded.done[k] # 0
    <3>1. session \in Sessions /\ id \in TaskIds /\ id \in 0..MaxTasks
      BY <2>1, FreshIs, DataFacts
    <3> HIDE DEF id
    <3> QED
      BY <3>1, SessionKeeps, RecordedIs
  <2>4. id \in TaskIds /\ tasks[id] = None
    BY <2>1, FreshIs
  <2> DEFINE tx == [tasks EXCEPT ![id] = tagged]
  <2>10. tx = [tasks EXCEPT ![id] = tagged]
    OBVIOUS
  <2>11. /\ planned \in TaskRecords /\ planned.trial = 0
         /\ tagged \in TaskRecords /\ tagged.trial = 0 /\ tagged.status = "pending"
    <3>1. NewTask \in TaskRecords /\ NewTask.trial = 0
      BY NewTaskIs DEF NewTask
    <3> HIDE DEF NewTask
    <3>2. planned \in TaskRecords /\ planned.trial = 0
      BY <3>1, RecordKeeps, TrialKeeps
    <3> HIDE DEF planned
    <3> QED
      BY <3>2 DEF TaskRecords, Planned
  <2> HIDE DEF planned, tagged
  <2>12. Steady => Ready(recorded, tx, cases) /\ Undelivered(tx, cases)
    <3>1. session \in Sessions /\ tasks \in [TaskIds -> TaskRecords \cup {None}]
      BY DataFacts
    <3>2. Puts(tx, tasks, id, tagged)
      BY <2>4, <2>11, <3>1, PutIs
    <3> HIDE DEF id, tx
    <3> QED
      BY <2>4, <2>11, <3>1, <3>2, RecordedReady DEF Steady
  <2> HIDE DEF id, recorded, tx
  <2>5. Suits(c, key, id) /\ Leads(c)
    BY <2>3, SaveFits DEF Suits
  <2>6. Suits(View, key, id) /\ Suits(Repaired, key, id)
    BY SuitsAll
  <2>7. Call(host, a \o IF end = "failed" THEN <<>> ELSE rest)
    BY <2>1
  <2>13. Steady => Lead(c, tx, cases)
    BY <2>12, LeadSave
  <2>14. a = Runs(id, planned, end) /\ b = Plan(id, tagged)
    OBVIOUS
  <2> HIDE DEF a, b, c
  <2>8. CASE end = "failed"
    <3>1. Call(host, a \o <<>>) /\ Fits(<<>>)
      BY <2>7, <2>8, PartsFit
    <3> QED
      BY <2>2, <3>1, Joins, CallAsks
  <2>9. CASE end # "failed"
    <3>1. /\ a \in Seq(HostWrites) /\ b \in Seq(HostWrites) /\ c \in Seq(HostWrites)
          /\ View \in Seq(HostWrites) /\ Repaired \in Seq(HostWrites)
      BY <2>2, <2>5, <2>6 DEF Suits, Fit
    <3>2. Suits(b \o c, key, id) /\ b \o c \in Seq(HostWrites) /\ Leads(b \o c)
      BY <2>2, <2>5, <3>1, SuitsJoin, LeadsJoin
    <3> DEFINE d == b \o c
               e == d \o View
    <3>8. Suits(d, key, id) /\ d \in Seq(HostWrites) /\ Leads(d)
      BY <3>2
    <3> HIDE DEF d
    <3>3. Suits(e, key, id) /\ e \in Seq(HostWrites) /\ Leads(e)
      BY <2>6, <3>1, <3>8, SuitsJoin, LeadsJoin
    <3>4. rest = e \o Repaired
      BY DEF d
    <3> HIDE DEF e
    <3>5. Suits(rest, key, id) /\ rest \in Seq(HostWrites) /\ Leads(rest)
      BY <2>6, <3>1, <3>3, <3>4, SuitsJoin, LeadsJoin
    <3>9. rest = b \o ((c \o View) \o Repaired)
      <4> DEFINE x == c \o View
      <4>1. (b \o c) \o View = b \o x
        BY <3>1, ConcatAssociative, SMTT(20)
      <4>4. x \in Seq(HostWrites) /\ b \in Seq(HostWrites) /\ Repaired \in Seq(HostWrites)
        BY <3>1
      <4> HIDE DEF x
      <4>2. (b \o x) \o Repaired = b \o (x \o Repaired)
        BY <4>4, ConcatAssociative
      <4>3. rest = (b \o x) \o Repaired
        BY <4>1
      <4> QED
        BY <4>2, <4>3 DEF x
    <3> HIDE DEF rest
    <3>6. Suits(a \o rest, key, id) /\ Leads(a \o rest)
      BY <2>2, <3>1, <3>5, SuitsJoin, LeadsJoin
    <3>7. Call(host, a \o rest)
      BY <2>7, <2>9
    <3>10. ASSUME Steady PROVE Lead(a \o rest, tasks, cases)
      <4> DEFINE u == (c \o View) \o Repaired
      <4>1. c \o View \in Seq(HostWrites) /\ u \in Seq(HostWrites)
        BY <3>1
      <4>2. Lead(c \o View, tx, cases)
        BY <2>13, <3>1, <3>10, LeadLight, SuitsAll
      <4>3. Lead(u, tx, cases)
        BY <3>1, <4>1, <4>2, LeadLight, SuitsAll
      <4> HIDE DEF u
      <4>4. id \notin Tried(tasks) /\ tasks \in [TaskIds -> TaskRecords \cup {None}]
        BY <2>4, DataFacts DEF Tried, Made
      <4>5. end = "pending"
        BY <2>9
      <4>6. Lead(Runs(id, planned, "pending") \o (Plan(id, tagged) \o u), tasks, cases)
        BY <2>4, <2>10, <2>11, <3>10, <4>1, <4>3, <4>4, LeadRuns DEF Steady
      <4> QED
        BY <2>14, <3>9, <4>5, <4>6 DEF u
    <3> QED
      BY <1>3, <2>4, <3>6, <3>7, <3>10, RequestAsks
  <2> QED
    BY <2>8, <2>9
<1> QED
  BY <1>1, <1>2, <1>3

\* What is done with the current task.
LEMMA CurrentIs ==
    ASSUME DataInv, Active # 0
    PROVE  /\ Active \in TaskIds /\ Current \in TaskRecords
           /\ \A s \in Planned \cup {"running", "failed"} :
                 LET r == [Current EXCEPT !.status = s]
                 IN  /\ r \in TaskRecords /\ Fits(Execute(Active, r))
                     /\ s # "exported" \/ (Steady /\ Current.trial # 0 => Behind(cases, Active)) =>
                           Fits(SaveTask(Active, r))
           /\ Fits(Execute(Active, Current))
           /\ Fits(SaveTask(Active, Mended(Current))) /\ Fits(Execute(Active, Mended(Current)))
<1>1. Active \in TaskIds /\ tasks[Active] # None /\ Current \in TaskRecords
  BY ActiveIs
<1>2. ASSUME NEW r \in TaskRecords, r.ref = Current.ref, r.request = Current.request,
             Apart(r) => Apart(Current), r.trial = Current.trial
      PROVE  /\ Fits(Execute(Active, r))
             /\ (Steady /\ r.status = "exported" /\ r.trial # 0 => Behind(cases, Active)) =>
                   Fits(SaveTask(Active, r))
  <2>1. /\ r \in Drafts /\ r.ref = tasks[Active].ref /\ (Apart(r) => Apart(tasks[Active]))
        /\ r.request = tasks[Active].request /\ r.trial = tasks[Active].trial
    BY <1>2, RecordKeeps DEF Current
  <2> QED
    BY <1>1, <2>1, PartsFit
<1>3. ASSUME NEW s \in Planned \cup {"running", "failed"}
      PROVE  LET r == [Current EXCEPT !.status = s]
             IN  /\ r \in TaskRecords /\ r.ref = Current.ref /\ (Apart(r) => Apart(Current))
                 /\ r.request = Current.request /\ r.trial = Current.trial /\ r.status = s
  BY <1>1, RecordKeeps, ApartKeeps, RequestKeeps, TrialKeeps
<1>4. /\ Mended(Current) \in TaskRecords /\ Mended(Current).ref = Current.ref
      /\ Apart(Mended(Current)) => Apart(Current)
      /\ Mended(Current).request = Current.request
      /\ Mended(Current).trial = Current.trial /\ Mended(Current).status = Current.status
  <2>1. Mended(Current).request = Current.request
    BY <1>1, RequestKeeps
  <2>2. Mended(Current).trial = Current.trial /\ Mended(Current).status = Current.status
    BY <1>1, TrialKeeps
  <2> QED
    BY <1>1, <2>1, <2>2, RecordKeeps, ApartKeeps DEF Mended
<1>5. Steady /\ Current.status = "exported" /\ Current.trial # 0 => Behind(cases, Active)
  BY <1>1 DEF Steady, Undelivered, Tried, Made, Current
<1>6. Fits(SaveTask(Active, Mended(Current))) /\ Fits(Execute(Active, Mended(Current)))
  BY <1>2, <1>4, <1>5
<1>7. Fits(Execute(Active, Current))
  BY <1>1, <1>2
<1>8. ASSUME NEW s \in Planned \cup {"running", "failed"}
      PROVE  LET r == [Current EXCEPT !.status = s]
             IN  /\ r \in TaskRecords /\ Fits(Execute(Active, r))
                 /\ s # "exported" \/ (Steady /\ Current.trial # 0 => Behind(cases, Active)) =>
                       Fits(SaveTask(Active, r))
  <2> DEFINE r == [Current EXCEPT !.status = s]
  <2>1. /\ r \in TaskRecords /\ r.ref = Current.ref /\ (Apart(r) => Apart(Current))
        /\ r.request = Current.request /\ r.trial = Current.trial /\ r.status = s
    BY <1>3
  <2> HIDE DEF r
  <2>2. /\ Fits(Execute(Active, r))
        /\ (Steady /\ r.status = "exported" /\ r.trial # 0 => Behind(cases, Active)) =>
                   Fits(SaveTask(Active, r))
    BY <1>2, <2>1
  <2>3. /\ r \in TaskRecords /\ Fits(Execute(Active, r))
        /\ s # "exported" \/ (Steady /\ Current.trial # 0 => Behind(cases, Active)) =>
              Fits(SaveTask(Active, r))
    BY <2>1, <2>2
  <2> QED
    BY <2>3 DEF r
<1> QED
  BY <1>1, <1>6, <1>7, <1>8

\* A task is approved or refused.
LEMMA DecideAsks ==
    ASSUME DataInv, NEW approved \in BOOLEAN, Decide(approved)
    PROVE  Asks
<1> DEFINE yes == IF Current.status = "flawed" THEN "revise" ELSE "ready"
           no == IF Current.status = "flawed" THEN "kept" ELSE "declined"
           s == IF approved THEN yes ELSE no
           decided == [Current EXCEPT !.status = s]
           a == SaveTask(Active, decided)
           b == IF approved THEN Execute(Active, decided) ELSE <<>>
           rest == IF approved /\ Current.missing THEN <<>> ELSE b \o Save(Now) \o View
<1>1. Active # 0 /\ Call(host, a \o rest)
  BY DEF Decide, Has
<1>2. s \in Planned \cup {"running", "failed"} /\ s # "exported"
  BY DEF Planned
<1> HIDE DEF s
<1>3. Fits(a) /\ Fits(b) /\ Fits(Save(Now)) /\ Fits(View) /\ Fits(<<>>)
  BY <1>1, <1>2, CurrentIs, SavedIs
<1> HIDE DEF a, b
<1>4. Fits(rest)
  BY <1>3, Joins
<1> HIDE DEF rest
<1> QED
  BY <1>1, <1>3, <1>4, Joins, CallAsks

\* The case of the conversation is there.
LEMMA CaseIs ==
    ASSUME DataInv, ActiveCase # 0
    PROVE  /\ ActiveCase \in CaseIds /\ Case \in CaseRecords /\ ActiveCase \in 0..MaxCases
           /\ Case.source # 0 => Case.source \in TaskIds
<1>1. session.case \in 0..MaxCases
  BY DataFacts DEF Sessions
<1>2. ActiveCase = session.case /\ cases[session.case] # None /\ session.case # 0
  BY DEF ActiveCase
<1>3. session.case \in 1..MaxCases
  BY <1>1, <1>2, ConversationAssumption
<1>4. cases[session.case] \in CaseRecords
  BY <1>2, <1>3, DataFacts DEF CaseIds
<1>5. Case \in CaseRecords
  BY <1>2, <1>4 DEF Case
<1>6. Case.source \in 0..MaxTasks
  BY <1>5 DEF CaseRecords
<1> QED
  BY <1>1, <1>2, <1>3, <1>5, <1>6, ConversationAssumption DEF CaseIds, TaskIds

\* A trial whose case was not opened from it is not exported: its case runs until it is
\* brought up to date, and the stage of any other status allows no export.
LEMMA ExportBehind ==
    ASSUME DataInv, ExportNow, Steady, Current.trial # 0
    PROVE  Behind(cases, Active)
<1>1. /\ ~Due /\ Stage = "ready-to-export" /\ Active # 0 /\ CanLoad /\ Current.status = "passed"
  BY DEF ExportNow, Export, Has
<1>2. Active \in TaskIds /\ tasks[Active] # None /\ Loads(Active)
  BY <1>1, ActiveIs DEF CanLoad
<1>3. Active \in Tried(tasks)
  BY <1>2 DEF Tried, Made, Current
<1>4. session.active = Active
  <2>1. session.active \in Made(tasks)
    BY <1>3 DEF Steady, Ready, Placed
  <2> QED
    BY <2>1, ConversationAssumption DEF Made, Active, TaskIds
<1>5. SUFFICES ASSUME ~Behind(cases, Active) PROVE FALSE
  OBVIOUS
<1>6. /\ Stands(cases, session.case) /\ cases[session.case].source # 0
      /\ cases[session.case].status = "candidate-running" => cases[session.case].trial = Active
  BY <1>3, <1>4, <1>5 DEF Steady, Ready, Traced
<1>7. ActiveCase # 0 /\ Case = cases[session.case]
  BY <1>6 DEF Stands, ActiveCase, Case
<1>8. Case.status # "ready-to-export"
  <2>1. Case.status \in Statuses
    BY <1>7, CaseIs DEF CaseRecords
  <2> QED
    BY <2>1 DEF Statuses, Ended
<1>9. In({"candidate-running"})
  BY <1>1, <1>7, <1>8 DEF Stage, In
<1>10. Case.trial = Active
  BY <1>6, <1>7, <1>9 DEF In
<1> QED
  BY <1>1, <1>2, <1>9, <1>10 DEF Due, Current

\* Calls with the current task, and those without any.
LEMMA WorkAsks ==
    ASSUME DataInv, ContinueWork \/ ExportNow \/ Recover \/ ContinueUnbound \/ SelectExternalEdit \/ OpenView
    PROVE  Asks
<1>1. Fits(View) /\ Fits(Save(Now)) /\ Fits(Save(Now) \o View)
  BY SavedIs
<1>2. CASE ContinueWork
  <2>1. Fits(Execute(Active, Current))
    BY <1>2, CurrentIs DEF ContinueWork, Has
  <2> QED
    BY <1>1, <1>2, <2>1, Joins, CallAsks DEF ContinueWork
<1>3. CASE ExportNow
  <2> DEFINE a == SaveTask(Active, [Current EXCEPT !.status = "exported"])
  <2>1. Active # 0 /\ Call(host, View \o a \o Save(Now) \o View)
    BY <1>3 DEF ExportNow, Export, Has
  <2>2. Fits(a)
    <3>1. Steady /\ Current.trial # 0 => Behind(cases, Active)
      BY <1>3, ExportBehind
    <3>2. "exported" \in Planned \cup {"running", "failed"}
      BY DEF Planned
    <3> QED
      BY <2>1, <3>1, <3>2, CurrentIs
  <2> HIDE DEF a
  <2>3. Fits(View \o a \o Save(Now))
    BY <1>1, <2>2, Joins
  <2> QED
    BY <1>1, <2>1, <2>3, Joins, CallAsks
<1>4. CASE Recover
  BY <1>1, <1>4, CallAsks DEF Recover
<1>5. CASE ContinueUnbound
  <2>1. Alike([session EXCEPT !.unbound = TRUE])
    BY AlikeKeeps
  <2> QED
    BY <1>5, <2>1, SavedIs, CallAsks DEF ContinueUnbound
<1>6. CASE SelectExternalEdit
  <2>1. Alike([session EXCEPT !.reg = "external"])
    BY AlikeKeeps
  <2> QED
    BY <1>6, <2>1, SavedIs, CallAsks DEF SelectExternalEdit
<1>7. CASE OpenView
  BY <1>1, <1>7, CallAsks DEF OpenView
<1> QED
  BY <1>2, <1>3, <1>4, <1>5, <1>6, <1>7

\* The host makes or inspects the image.
LEMMA HostAsks ==
    ASSUME DataInv, NEW ends \in HostRuns, RunHost(ends)
    PROVE  Asks
<1> DEFINE done(i) == SaveTask(Active, [Current EXCEPT !.status = ends[i]])
           a == IF Len(ends) = 1 THEN done(1) ELSE done(1) \o done(2)
<1>1. Active # 0 /\ Call(host, a \o Save(Now) \o View)
  BY DEF RunHost, Has
<1>2. /\ ends[1] \in Planned \ {"exported"}
      /\ Len(ends) # 1 => ends[2] \in Planned \ {"exported"}
  BY DEF HostRuns, Planned
<1>3. Fits(done(1)) /\ (Len(ends) # 1 => Fits(done(2)))
  BY <1>1, <1>2, CurrentIs
<1>4. Fits(a)
  <2> HIDE DEF done
  <2> QED
    BY <1>3, Joins
<1> HIDE DEF a
<1> QED
  BY <1>1, <1>4, SavedIs, Joins, CallAsks

\* A task is tried again.
LEMMA RetryAsks ==
    ASSUME DataInv, NEW end \in {"pending", "failed"}, NEW missing \in BOOLEAN, Retry(end, missing)
    PROVE  Asks
<1> DEFINE a == Runs(Active, [Current EXCEPT !.missing = missing], end)
           b == Execute(Active, Current)
           rest == IF end = "failed" THEN <<>> ELSE Save(Now) \o View
<1>1. /\ Active # 0
      /\ Call(host, IF Current.status = "no-tool" THEN b \o Save(Now) \o View ELSE a \o rest)
  BY DEF Retry, Has
<1>2. Fits(a) /\ Fits(b)
  BY <1>1, PlansFit, CurrentIs
<1> HIDE DEF a, b
<1>3. Fits(rest) /\ Fits(Save(Now)) /\ Fits(View)
  BY SavedIs
<1> HIDE DEF rest
<1> QED
  BY <1>1, <1>2, <1>3, Joins, CallAsks

\* A source is imported.
LEMMA ImportAsks ==
    ASSUME DataInv, NEW s \in Sources, NEW forTheme \in BOOLEAN, ImportSource(s, forTheme)
    PROVE  Asks
<1> DEFINE mends == CanLoad /\ Active # 0 /\ Current.missing
           a == Staged(s)
           b == IF forTheme THEN <<[file |-> "link", src |-> s]>> ELSE <<>>
           m == SaveTask(Active, Mended(Current))
           e == IF Current.status = "ready" THEN Execute(Active, Mended(Current)) ELSE <<>>
           c == IF ~mends THEN <<>> ELSE m \o e
           d == Save(Registered(Now, s))
<1>1. Call(host, a \o b \o Load \o c \o d \o View)
  BY DEF ImportSource
<1>2. Fits(a) /\ Fits(b) /\ Fits(Load) /\ Fits(View) /\ Fits(<<>>)
  BY PartsFit
<1>3. Fits(d)
  <2>1. Alike(Registered(Now, s))
    BY AlikeKeeps
  <2> QED
    BY <2>1, PartsFit
<1>4. Fits(c)
  <2>1. CASE ~mends
    BY <1>2, <2>1
  <2>2. CASE mends
    <3>1. Fits(m) /\ Fits(e)
      BY <1>2, <2>2, CurrentIs
    <3> HIDE DEF m, e
    <3> QED
      BY <2>2, <3>1, Joins
  <2> QED
    BY <2>1, <2>2
<1> HIDE DEF a, b, c, d
<1>5. Fits(a \o b \o Load)
  BY <1>2, Joins
<1>6. Fits(a \o b \o Load \o c \o d)
  BY <1>3, <1>4, <1>5, Joins
<1> QED
  BY <1>1, <1>2, <1>6, Joins, CallAsks

\* Every call of the conversation.
LEMMA TalkAsks == DataInv /\ Talk => Asks
<1> SUFFICES ASSUME DataInv, Talk PROVE Asks
  OBVIOUS
<1>1. CASE OpenView \/ ContinueWork \/ ContinueUnbound \/ Recover \/ SelectExternalEdit
  BY <1>1, WorkAsks
<1>2. CASE \E t \in Themes, n \in 1..MaxVersions : SelectTheme(t, n) \/ DeriveTheme(t, n)
  BY <1>2, SelectAsks
<1>3. CASE \E t \in Themes : CreateTheme(t)
  <2>1. 1 \in 1..MaxVersions
    BY ThemesAssumption
  <2> QED
    BY <1>3, <2>1, SelectAsks
<1>4. CASE \E key \in Keys, end \in {"pending", "failed"}, missing \in BOOLEAN : Submit(key, end, missing)
  BY <1>4, SubmitAsks
<1>5. CASE \E approved \in BOOLEAN : Decide(approved)
  BY <1>5, DecideAsks
<1>6. CASE \E ends \in HostRuns : RunHost(ends)
  BY <1>6, HostAsks
<1>7. CASE \E end \in {"pending", "failed"} : Retry(end, FALSE)
  BY <1>7, RetryAsks
<1>8. CASE \E s \in Sources, forTheme \in BOOLEAN : ImportSource(s, forTheme)
  BY <1>8, ImportAsks
<1>9. CASE \E s \in Sources, t \in Themes, n \in 0..MaxVersions : ThemeFromSource(t, n, s)
  BY <1>9, SourceAsks
<1> QED
  BY <1>1, <1>2, <1>3, <1>4, <1>5, <1>6, <1>7, <1>8, <1>9 DEF Talk

(***************************************************************************)
(* The calls about improvement cases                                       *)
(***************************************************************************)

\* A case that is changed: neither its source nor whether it was applied.
KeepsWhat(x, r) == x \in CaseRecords /\ x.applied = r.applied /\ x.source = r.source

LEMMA CaseKeeps ==
    ASSUME NEW r \in CaseRecords
    PROVE  /\ \A s \in Statuses : LET x == [r EXCEPT !.status = s]
                                 IN  KeepsWhat(x, r) /\ x.status = s
           /\ \A s \in Statuses, k \in {"tool-trial", "tool-integration", "code-candidate"} :
                 LET x == [r EXCEPT !.kind = k, !.status = s]
                 IN  KeepsWhat(x, r) /\ x.status = s
           /\ \A e \in 0..MaxTasks :
                 LET x == [r EXCEPT !.status = "result-review-required", !.results = @ \cup {e}]
                 IN  KeepsWhat(x, r) /\ x.status = "result-review-required"
           /\ \A id \in 0..MaxTasks :
                 LET x == [r EXCEPT !.status = "candidate-running", !.trial = id]
                 IN  KeepsWhat(x, r) /\ x.trial = id /\ x.status = "candidate-running"
           /\ LET x == [r EXCEPT !.status = "resolved", !.applied = TRUE]
              IN  x \in CaseRecords /\ x.source = r.source /\ x.status = "resolved"
<1> USE DEF KeepsWhat
<1>1. \A s \in Statuses : LET x == [r EXCEPT !.status = s]
                         IN  KeepsWhat(x, r) /\ x.status = s
  BY DEF CaseRecords
<1>2. \A s \in Statuses, k \in {"tool-trial", "tool-integration", "code-candidate"} :
         LET x == [r EXCEPT !.kind = k, !.status = s]
         IN  KeepsWhat(x, r) /\ x.status = s
  BY DEF CaseRecords
<1>3. {"result-review-required", "candidate-running", "resolved"} \subseteq Statuses
  BY DEF Statuses, Ended
<1>4. \A e \in 0..MaxTasks :
         LET x == [r EXCEPT !.status = "result-review-required", !.results = @ \cup {e}]
         IN  KeepsWhat(x, r) /\ x.status = "result-review-required"
  BY <1>3 DEF CaseRecords
<1>5. \A id \in 0..MaxTasks :
         LET x == [r EXCEPT !.status = "candidate-running", !.trial = id]
         IN  KeepsWhat(x, r) /\ x.trial = id /\ x.status = "candidate-running"
  BY <1>3 DEF CaseRecords
<1>6. LET x == [r EXCEPT !.status = "resolved", !.applied = TRUE]
      IN  x \in CaseRecords /\ x.source = r.source /\ x.status = "resolved"
  BY <1>3 DEF CaseRecords
<1> QED
  BY <1>1, <1>2, <1>4, <1>5, <1>6

\* The case of the conversation is saved.
LEMMA CaseSaved ==
    ASSUME DataInv, ActiveCase # 0, NEW r, KeepsWhat(r, Case)
    PROVE  /\ Suits(SaveCase(ActiveCase, r), None, 0)
           /\ r.status # "candidate-running" => Fits(SaveCase(ActiveCase, r))
<1> DEFINE w == [file |-> "case", id |-> ActiveCase, to |-> r]
<1>1. /\ cases[ActiveCase] # None /\ r.applied = cases[ActiveCase].applied
      /\ r.source = cases[ActiveCase].source /\ r \in CaseRecords
  BY DEF ActiveCase, Case, KeepsWhat
<1>2. w.file = "case" /\ w.id = ActiveCase /\ w.to = r
  OBVIOUS
<1>4. r.status # "candidate-running" => KeepsCase(ActiveCase, r, cases)
  BY <1>1 DEF KeepsCase
<1> HIDE DEF w, ActiveCase
<1>3. Lawful(w, cases)
  BY <1>1, <1>2 DEF Lawful, Foreign
<1> QED
  BY <1>1, <1>3, <1>4, CaseIs, PartsFit DEF w

\* A case is saved and shown.
LEMMA BecomesAsks ==
    ASSUME DataInv, ActiveCase # 0, NEW r, KeepsWhat(r, Case), r.status # "candidate-running", Becomes(r)
    PROVE  Asks
<1>1. Fits(SaveCase(ActiveCase, r)) /\ Fits(View)
  BY CaseSaved, PartsFit
<1> QED
  BY <1>1, Joins, CallAsks DEF Becomes

\* A case goes to another status.
LEMMA GoesToAsks ==
    ASSUME DataInv, ActiveCase # 0, NEW s \in Statuses, s # "candidate-running", GoesTo(s)
    PROVE  Asks
<1> DEFINE r == [Case EXCEPT !.status = s]
<1>1. Becomes(r)
  BY DEF GoesTo
<1>2. KeepsWhat(r, Case) /\ r.status = s
  <2>1. Case \in CaseRecords
    BY CaseIs
  <2> QED
    BY <2>1, CaseKeeps, ZenonT(40) DEF KeepsWhat
<1> HIDE DEF r
<1> QED
  BY <1>1, <1>2, BecomesAsks

\* Decisions about a case.
LEMMA DecisionsAsk ==
    ASSUME DataInv,
           \/ Propose \/ LinkCandidate \/ RecordResult \/ MarkPublished \/ ConfirmRefresh
           \/ \E ready \in BOOLEAN : ApproveTrial(ready)
           \/ \E decision : RefuseTrial(decision) \/ RefuseAdoption(decision)
           \/ \E ok : RecordRegression(ok)
    PROVE  Asks
<1> USE DEF In
<1>1. CASE Propose
  BY <1>1, GoesToAsks DEF Propose, Statuses
<1>2. CASE LinkCandidate
  BY <1>2, GoesToAsks DEF LinkCandidate, Statuses
<1>3. CASE MarkPublished
  BY <1>3, GoesToAsks DEF MarkPublished, Statuses
<1>4. CASE ConfirmRefresh
  BY <1>4, GoesToAsks DEF ConfirmRefresh, Statuses
<1>5. ASSUME NEW decision, RefuseTrial(decision) PROVE Asks
  BY <1>5, GoesToAsks DEF RefuseTrial, Statuses, Ended
<1>6. ASSUME NEW decision, RefuseAdoption(decision) PROVE Asks
  BY <1>6, GoesToAsks DEF RefuseAdoption, Statuses, Ended
<1>7. ASSUME NEW ok, RecordRegression(ok) PROVE Asks
  BY <1>7, GoesToAsks DEF RecordRegression, Statuses, Ended
<1>8. CASE RecordResult
  <2>1. ActiveCase # 0 /\ Becomes(Shown(0))
    BY <1>8 DEF RecordResult
  <2>2. 0 \in 0..MaxTasks
    BY ConversationAssumption
  <2>3. KeepsWhat(Shown(0), Case) /\ Shown(0).status # "candidate-running"
    BY <2>1, <2>2, CaseIs, CaseKeeps DEF Shown
  <2> QED
    BY <2>1, <2>3, BecomesAsks
<1>9. ASSUME NEW ready \in BOOLEAN, ApproveTrial(ready) PROVE Asks
  <2> DEFINE k == KindOf(Case.proposes, ready)
             s == IF Case.proposes # None /\ ready THEN "candidate-ready" ELSE "candidate-building"
             r == [Case EXCEPT !.kind = k, !.status = s]
  <2>1. ActiveCase # 0 /\ Becomes(r)
    BY <1>9 DEF ApproveTrial
  <2>2. /\ k \in {"tool-trial", "tool-integration", "code-candidate"} /\ s \in Statuses
        /\ s # "candidate-running"
    BY DEF KindOf, Statuses
  <2> HIDE DEF k, s
  <2>3. KeepsWhat(r, Case) /\ r.status # "candidate-running"
    <3>1. Case \in CaseRecords
      BY <2>1, CaseIs
    <3> QED
      BY <2>2, <3>1 DEF KeepsWhat, CaseRecords
  <2> HIDE DEF r
  <2> QED
    BY <2>1, <2>3, BecomesAsks
<1> QED
  BY <1>1, <1>2, <1>3, <1>4, <1>5, <1>6, <1>7, <1>8, <1>9

\* A case is saved, and nothing else.
Filed(ct, cs, c, r) == ct[c] = r /\ \A d \in CaseIds : d # c => ct[d] = cs[d]

LEMMA FiledIs ==
    ASSUME NEW cs \in [CaseIds -> CaseRecords \cup {None}], NEW c \in CaseIds, NEW r
    PROVE  Filed([cs EXCEPT ![c] = r], cs, c, r)
BY DEF Filed

\* A case that keeps its source leaves behind it what was; so does a new one.
LEMMA BehindStays ==
    ASSUME NEW cs, NEW c, NEW r \in CaseRecords, NEW ct, Filed(ct, cs, c, r),
           cs[c] = None \/ r.source = cs[c].source,
           NEW ts, Undelivered(ts, cs)
    PROVE  (\A id : Behind(cs, id) => Behind(ct, id)) /\ Undelivered(ts, ct)
<1>1. ASSUME NEW id, Behind(cs, id) PROVE Behind(ct, id)
  <2>1. PICK d \in CaseIds : cs[d] # None /\ cs[d].source = id
    BY <1>1 DEF Behind
  <2>2. CASE d = c
    BY <2>1, <2>2, CasesAssumption DEF Behind, Filed
  <2>3. CASE d # c
    BY <2>1, <2>3 DEF Behind, Filed
  <2> QED
    BY <2>2, <2>3
<1> QED
  BY <1>1 DEF Undelivered

\* A session that goes to a new case is ready once that is there.
LEMMA OpenedReady ==
    ASSUME NEW s \in Sessions, NEW ts, NEW cs, Ready(s, ts, cs), Undelivered(ts, cs),
           s.active # 0 => s.active \in Made(ts),
           NEW c \in CaseIds, cs[c] = None, NEW r \in CaseRecords, r.source = s.active,
           NEW ct, Filed(ct, cs, c, r)
    PROVE  Ready([s EXCEPT !.case = c], ts, ct) /\ Undelivered(ts, ct)
<1> DEFINE x == [s EXCEPT !.case = c]
<1>1. x.active = s.active /\ x.done = s.done /\ x.case = c
  BY DEF Sessions
<1> HIDE DEF x
<1>2. ct[c] = r /\ r # None
  BY CasesAssumption DEF Filed
<1>3. Behind(ct, s.active)
  BY <1>2 DEF Behind
<1>4. Traced(x, ts, ct)
  BY <1>1, <1>3 DEF Traced
<1>5. Placed(x, ts, ct)
  <2>1. SUFFICES ASSUME s.active \notin Made(ts) PROVE Tried(ts) = {} /\ r.source = 0
    BY <1>1, <1>2 DEF Placed
  <2> QED
    BY <2>1 DEF Ready, Placed
<1>6. Noted(x, ts)
  BY <1>1 DEF Ready, Noted
<1> QED
  BY <1>4, <1>5, <1>6, BehindStays DEF Ready, x

\* A session that goes to a trial of its case is ready once both say so.
LEMMA TriedReady ==
    ASSUME NEW s \in Sessions, NEW ts \in [TaskIds -> TaskRecords \cup {None}], NEW cs,
           Ready(s, ts, cs), Undelivered(ts, cs),
           NEW id \in TaskIds, ts[id] = None, NEW y \in TaskRecords, y.trial # 0, y.status # "exported",
           NEW tx, Puts(tx, ts, id, y),
           NEW c \in CaseIds, c = s.case, c # 0, cs[c] # None, NEW r \in CaseRecords, r.trial = id,
           r.source = cs[c].source, r.source # 0, NEW ct, Filed(ct, cs, c, r)
    PROVE  Ready([s EXCEPT !.active = id], tx, ct) /\ Undelivered(tx, cs) /\ Undelivered(tx, ct)
<1> DEFINE x == [s EXCEPT !.active = id]
<1>1. x.active = id /\ x.done = s.done /\ x.case = s.case
  BY DEF Sessions
<1> HIDE DEF x
<1>2. id \notin Made(ts) /\ id \notin Tried(ts)
  BY DEF Made, Tried
<1>3. /\ Undelivered(tx, cs) /\ Made(tx) = Made(ts) \cup {id} /\ Tried(tx) = Tried(ts) \cup {id}
  BY <1>2, TaskPut
<1>4. Undelivered(tx, ct)
  BY <1>3, BehindStays
<1>5. ct[c] = r /\ r # None
  BY CasesAssumption DEF Filed
<1>6. Traced(x, tx, ct)
  BY <1>1, <1>5 DEF Traced, Stands
<1>7. Placed(x, tx, ct)
  BY <1>1, <1>3 DEF Placed
<1>8. Noted(x, tx)
  BY <1>1, <1>2, <1>3 DEF Ready, Noted
<1> QED
  BY <1>3, <1>4, <1>6, <1>7, <1>8 DEF Ready, x

\* A case is opened.
LEMMA OpenAsks ==
    ASSUME DataInv, NEW tool \in Candidates \cup {None}, NEW at \in AdoptionScopes,
           NEW proposed \in BOOLEAN, OpenCase(tool, at, proposed)
    PROVE  Asks
<1> DEFINE r == NewCase(tool, at, proposed)
           s == [Now EXCEPT !.case = FreshCase]
<1>1. FreshCase \in CaseIds /\ Call(host, SaveCase(FreshCase, r) \o Save(s) \o View)
  BY DEF OpenCase
<1>2. r \in CaseRecords
  <2>1. Active \in 0..MaxTasks /\ 0 \in 0..MaxTasks
    BY ActiveIs, ConversationAssumption
  <2>2. (IF proposed THEN "trial-approval-required" ELSE "proposal-required") \in Statuses
    BY DEF Statuses
  <2> HIDE DEF Active
  <2> QED
    BY <2>1, <2>2 DEF NewCase, CaseRecords
<1>3. s \in Sessions /\ s.done = session.done
  <2>1. FreshCase \in 0..MaxCases
    BY <1>1, ConversationAssumption DEF CaseIds
  <2> QED
    BY <2>1, NowIs, SessionKeeps, DoneKeeps
<1>4. ~r.applied /\ r.source = Active
  BY DEF NewCase
<1> DEFINE ct == [cases EXCEPT ![FreshCase] = r]
<1> HIDE DEF r
<1>8. ct = [cases EXCEPT ![FreshCase] = r] /\ Filed(ct, cases, FreshCase, r)
  BY <1>1, DataFacts, FiledIs
<1> HIDE DEF ct
<1>9. ASSUME Steady PROVE Ready(s, tasks, ct) /\ Undelivered(tasks, ct)
  <2>1. Now \in Sessions /\ Now.active = Active /\ (Active # 0 => Active \in Made(tasks))
    BY DataFacts, NowIs, ActiveIs DEF Now, Sessions, Made
  <2>2. Ready(Now, tasks, cases) /\ Undelivered(tasks, cases)
    BY <1>9, AlikeKeeps, AlikeReady DEF Steady
  <2>3. cases[FreshCase] = None
    BY <1>1, <1>9, FreshCaseIs DEF Steady
  <2> HIDE DEF Now, Active, FreshCase
  <2> QED
    BY <1>1, <1>2, <1>4, <1>8, <2>1, <2>2, <2>3, OpenedReady
<1> HIDE DEF s
<1>5. ASSUME Settled PROVE Lawful([file |-> "case", id |-> FreshCase, to |-> r], cases)
  <2> DEFINE w == [file |-> "case", id |-> FreshCase, to |-> r]
  <2>1. w.file = "case" /\ w.id = FreshCase /\ w.to = r
    OBVIOUS
  <2> HIDE DEF w
  <2>2. cases[FreshCase] = None /\ FreshCase = 1 + Cardinality(Opened(cases))
    BY <1>1, <1>5, FreshCaseIs DEF Settled
  <2>3. Lawful(w, cases)
    BY <1>4, <2>1, <2>2 DEF Lawful, Foreign
  <2> QED
    BY <2>3 DEF w
<1> DEFINE a == SaveCase(FreshCase, r)
           b == Save(s)
           u == b \o View
           ws == (a \o b) \o View
<1>6. Suits(a, None, 0) /\ Suits(b, None, 0) /\ Suits(View, None, 0)
  BY <1>1, <1>2, <1>3, <1>5, PartsFit, SuitsAll
<1>7. Suits(ws, None, 0)
  <2> HIDE DEF a, b
  <2> QED
    BY <1>6, SuitsJoin
<1>10. ASSUME Steady PROVE Lead(ws, tasks, cases)
  <2>1. a \in Seq(HostWrites) /\ b \in Seq(HostWrites) /\ View \in Seq(HostWrites)
    BY <1>6 DEF Suits, Fit
  <2>2. Lead(b, tasks, ct)
    BY <1>9, <1>10, LeadSave
  <2> HIDE DEF b
  <2>3. Lead(u, tasks, ct) /\ u \in Seq(HostWrites)
    BY <2>1, <2>2, LeadLight, SuitsAll
  <2> HIDE DEF u
  <2>4. Lead(a \o u, tasks, cases)
    BY <1>1, <1>2, <1>8, <1>10, <2>3, LeadCase DEF Steady
  <2> HIDE DEF a
  <2>5. (a \o b) \o View = a \o (b \o View)
    BY <2>1, ConcatAssociative
  <2> QED
    BY <2>4, <2>5 DEF u
<1>11. Call(host, ws) /\ None \notin Keys
  BY <1>1, ConversationAssumption
<1> HIDE DEF ws
<1> QED
  BY <1>7, <1>10, <1>11, RequestAsks

\* A trial is planned as a task of its own.
LEMMA TrialAsks ==
    ASSUME DataInv, NEW end \in {"pending", "failed"}, NEW missing \in BOOLEAN,
           StartTrial(end, missing)
    PROVE  Asks
<1> DEFINE id == FreshTask
           planned == [NewTask EXCEPT !.missing = missing]
           trial == [planned EXCEPT !.status = "pending", !.override = Case.proposes, !.trial = ActiveCase]
           r == [Case EXCEPT !.status = "candidate-running", !.trial = id]
           s == [session EXCEPT !.active = id]
           a == Runs(id, planned, end)
           b == Plan(id, trial)
           c == SaveCase(ActiveCase, r)
           d == Save(s)
           rest == IF end = "failed" THEN <<>> ELSE b \o c \o d \o View
<1>1. ActiveCase # 0 /\ CanPlan /\ Call(host, a \o rest) /\ Case.source # 0
  BY DEF StartTrial, In
<1>2. /\ Case.proposes \in Tools \cup {None} /\ ActiveCase \in 0..MaxCases /\ None \in Keys \cup {None}
      /\ Case \in CaseRecords /\ ActiveCase \in CaseIds /\ Case = cases[ActiveCase]
      /\ ActiveCase = session.case /\ cases[ActiveCase] # None
  <2>1. Case \in CaseRecords /\ ActiveCase \in 0..MaxCases /\ ActiveCase \in CaseIds
    BY <1>1, CaseIs
  <2>2. Case.proposes \in Candidates \cup {None}
    BY <2>1 DEF CaseRecords
  <2>3. ActiveCase = session.case /\ cases[ActiveCase] # None
    BY <1>1 DEF ActiveCase
  <2>4. Case = cases[ActiveCase]
    BY DEF Case
  <2> QED
    BY <2>1, <2>2, <2>3, <2>4, ConversationAssumption
<1>3. Fits(a) /\ Suits(b, None, 0)
  BY <1>1, <1>2, PlansFit, ZenonT(40)
<1>4. id \in 0..MaxTasks /\ id \in TaskIds /\ tasks[id] = None
  BY <1>1, FreshIs, DataFacts
<1>11. KeepsWhat(r, Case) /\ r.trial = id
  <2>1. "candidate-running" \in Statuses
    BY DEF Statuses
  <2> HIDE DEF id, Case
  <2> QED
    BY <1>2, <1>4, <2>1 DEF KeepsWhat, CaseRecords
<1>12. /\ planned \in TaskRecords /\ planned.trial = 0
       /\ trial \in TaskRecords /\ trial.trial # 0 /\ trial.status # "exported"
  <2>1. NewTask \in TaskRecords /\ NewTask.trial = 0
    BY NewTaskIs DEF NewTask
  <2> HIDE DEF NewTask
  <2>2. planned \in TaskRecords /\ planned.trial = 0
    BY <2>1, RecordKeeps, TrialKeeps
  <2>3. Case.proposes \in Tools \cup {None} /\ ActiveCase \in 0..MaxCases /\ ActiveCase # 0
    BY <1>1, <1>2
  <2> HIDE DEF planned, Case, ActiveCase
  <2>4. trial \in TaskRecords
    BY <2>2, <2>3, ZenonT(40) DEF TaskRecords, Planned
  <2>5. trial.trial = ActiveCase /\ trial.status = "pending"
    BY <2>2 DEF TaskRecords
  <2> QED
    BY <2>2, <2>3, <2>4, <2>5
<1>5. Suits(c, None, 0)
  <2> HIDE DEF r
  <2> QED
    BY <1>1, <1>11, CaseSaved
<1>6. s \in Sessions /\ s.done = session.done /\ Suits(d, None, 0)
  <2>1. s \in Sessions /\ s.done = session.done
    BY <1>4, DataFacts, SessionKeeps, DoneKeeps
  <2> QED
    BY <2>1, PartsFit
<1>7. Fits(View) /\ Fits(<<>>)
  BY PartsFit
<1> HIDE DEF planned, trial, r
<1> DEFINE tx == [tasks EXCEPT ![id] = trial]
           ct == [cases EXCEPT ![ActiveCase] = r]
<1>13. /\ tx = [tasks EXCEPT ![id] = trial] /\ ct = [cases EXCEPT ![ActiveCase] = r]
       /\ Puts(tx, tasks, id, trial) /\ Filed(ct, cases, ActiveCase, r)
  <2>1. /\ tasks \in [TaskIds -> TaskRecords \cup {None}]
        /\ cases \in [CaseIds -> CaseRecords \cup {None}]
    BY DataFacts
  <2> HIDE DEF id, ActiveCase
  <2> QED
    BY <1>2, <1>4, <1>12, <2>1, PutIs, FiledIs
<1> HIDE DEF tx, ct
<1>14. ASSUME Steady PROVE Ready(s, tx, ct) /\ Undelivered(tx, cases) /\ Undelivered(tx, ct)
  <2>1. session \in Sessions /\ tasks \in [TaskIds -> TaskRecords \cup {None}]
    BY DataFacts
  <2>2. /\ r \in CaseRecords /\ r.source = cases[ActiveCase].source /\ r.source # 0
        /\ Ready(session, tasks, cases) /\ Undelivered(tasks, cases)
    BY <1>1, <1>2, <1>11, <1>14 DEF KeepsWhat, Steady
  <2>3. s = [session EXCEPT !.active = id]
    OBVIOUS
  <2> HIDE DEF id, s, ActiveCase
  <2>4. Ready([session EXCEPT !.active = id], tx, ct) /\ Undelivered(tx, cases) /\ Undelivered(tx, ct)
    BY <1>1, <1>2, <1>4, <1>11, <1>12, <1>13, <2>1, <2>2, TriedReady
  <2> QED
    BY <2>3, <2>4
<1>15. a = Runs(id, planned, end) /\ b = Plan(id, trial) /\ c = SaveCase(ActiveCase, r) /\ d = Save(s)
  OBVIOUS
<1> HIDE DEF a, b, c, d, id, s, ActiveCase
<1>8. CASE end = "failed"
  <2>1. Call(host, a \o <<>>)
    BY <1>1, <1>8
  <2> QED
    BY <1>3, <1>7, <2>1, Joins, CallAsks
<1>9. CASE end # "failed"
  <2> DEFINE e == d \o View
             u == c \o e
  <2>1. /\ a \in Seq(HostWrites) /\ b \in Seq(HostWrites) /\ c \in Seq(HostWrites)
        /\ d \in Seq(HostWrites) /\ View \in Seq(HostWrites)
    BY <1>3, <1>5, <1>6, <1>7 DEF Fits, Suits, Fit
  <2>2. Suits(a, None, 0) /\ Suits(View, None, 0)
    BY <1>3, <1>7 DEF Fits
  <2>3. e \in Seq(HostWrites) /\ Suits(e, None, 0)
    BY <1>6, <2>1, <2>2, SuitsJoin
  <2>4. ((b \o c) \o d) \o View = b \o u
    <3> DEFINE x == b \o c
    <3>1. x \in Seq(HostWrites)
      BY <2>1
    <3> HIDE DEF x
    <3>4. x \in Seq(HostWrites) /\ d \in Seq(HostWrites) /\ View \in Seq(HostWrites)
      BY <2>1, <3>1
    <3>2. (x \o d) \o View = x \o e
      BY <3>4, ConcatAssociative
    <3> HIDE DEF e
    <3>5. b \in Seq(HostWrites) /\ c \in Seq(HostWrites) /\ e \in Seq(HostWrites)
      BY <2>1, <2>3
    <3>3. (b \o c) \o e = b \o (c \o e)
      BY <3>5, ConcatAssociative
    <3> QED
      BY <3>2, <3>3 DEF x
  <2>5. Call(host, a \o (b \o u))
    BY <1>1, <1>9, <2>4
  <2> HIDE DEF e
  <2>6. u \in Seq(HostWrites) /\ Suits(u, None, 0)
    BY <1>5, <2>1, <2>3, SuitsJoin
  <2>7. ASSUME Steady PROVE Lead(a \o (b \o u), tasks, cases)
    <3>1. Lead(d, tx, ct)
      BY <1>14, <1>15, <2>7, LeadSave
    <3>2. Lead(e, tx, ct)
      BY <2>1, <3>1, LeadLight, SuitsAll DEF e
    <3>3. Lead(u, tx, cases)
      <4>1. r \in CaseRecords
        BY <1>11 DEF KeepsWhat
      <4>2. Lead(SaveCase(ActiveCase, r) \o e, tx, cases)
        BY <1>2, <1>13, <1>14, <2>3, <2>7, <3>2, <4>1, LeadCase
      <4> QED
        BY <1>15, <4>2
    <3> HIDE DEF u
    <3>4. id \notin Tried(tasks) /\ tasks \in [TaskIds -> TaskRecords \cup {None}]
      BY <1>4, DataFacts DEF Tried, Made
    <3>5. end = "pending"
      BY <1>9
    <3>6. Lead(Runs(id, planned, "pending") \o (Plan(id, trial) \o u), tasks, cases)
      BY <1>4, <1>12, <1>13, <2>6, <2>7, <3>3, <3>4, LeadRuns DEF Steady
    <3> QED
      BY <1>15, <3>5, <3>6
  <2> HIDE DEF u
  <2> DEFINE v == b \o u
  <2>8. Suits(v, None, 0)
    BY <1>3, <2>6, SuitsJoin
  <2> HIDE DEF v
  <2>9. Suits(a \o v, None, 0)
    BY <2>2, <2>8, SuitsJoin
  <2>10. None \notin Keys
    BY ConversationAssumption
  <2> DEFINE ws == a \o v
  <2>11. Suits(ws, None, 0) /\ Call(host, ws) /\ (Steady => Lead(ws, tasks, cases))
    BY <2>5, <2>7, <2>9 DEF v
  <2> HIDE DEF ws
  <2> QED
    BY <2>10, <2>11, RequestAsks
<1> QED
  BY <1>8, <1>9

\* A candidate is adopted.
LEMMA AdoptAsks == ASSUME DataInv, Adopt PROVE Asks
<1> DEFINE r == [Case EXCEPT !.status = "resolved", !.applied = TRUE]
<1>1. ActiveCase # 0
  BY DEF Adopt, In
<1>2. CASE Case.kind # "tool-trial"
  BY <1>1, <1>2, GoesToAsks DEF Adopt, Statuses
<1>3. CASE Case.kind = "tool-trial"
  <2>1. /\ Case.scope = "task" => Case.source # 0 /\ tasks[Case.source] # None
        /\ Call(host, Apply \o SaveCase(ActiveCase, r) \o View)
    BY <1>3 DEF Adopt, Loads
  <2>2. Case \in CaseRecords /\ ActiveCase \in CaseIds /\ (Case.source # 0 => Case.source \in TaskIds)
    BY <1>1, CaseIs
  <2>3. Case.proposes \in Tools \cup {None} /\ Case.scope \in AdoptionScopes
    <3>1. Case.proposes \in Candidates \cup {None} /\ Case.scope \in AdoptionScopes
      BY <2>2 DEF CaseRecords
    <3> QED
      BY <3>1, ConversationAssumption
  <2>4. \E w : /\ Apply = <<w>> /\ Fit(<<w>>, versions, tasks, Binding)
              /\ w.file # "case" /\ Tags(w, session, tasks, None, 0) /\ Plain(w, tasks, cases)
    <3>1. CASE Case.scope = "task"
      <4>1. tasks[Case.source] \in TaskRecords
        BY <2>1, <2>2, <3>1, DataFacts
      <4> DEFINE t == [tasks[Case.source] EXCEPT !.override = Case.proposes]
                 w == [file |-> "task", id |-> Case.source, to |-> t]
      <4>2. t \in TaskRecords /\ t.ref = tasks[Case.source].ref /\ t.request = tasks[Case.source].request
        BY <2>3, <4>1, RecordKeeps, RequestKeeps
      <4>7. t.trial = tasks[Case.source].trial
        BY <4>1, TrialKeeps
      <4>3. /\ Apply = <<w>> /\ SaveTask(Case.source, t) = <<w>> /\ w.file # "case"
            /\ w.file = "task" /\ w.id = Case.source /\ w.to = t
        BY <3>1 DEF Apply, SaveTask
      <4> HIDE DEF t, w
      <4>4. t \in Drafts
        BY <4>2, RecordKeeps
      <4>5. Fit(SaveTask(Case.source, t), versions, tasks, Binding)
        BY <2>1, <2>2, <3>1, <4>2, <4>4, TaskFits
      <4>6. Tags(w, session, tasks, None, 0)
        BY <2>1, <3>1, <4>2, <4>3 DEF Tags
      <4>8. Behind(cases, Case.source)
        BY <1>1, <2>2 DEF Behind, Case, ActiveCase
      <4>9. Plain(w, tasks, cases)
        BY <2>1, <3>1, <4>3, <4>7, <4>8 DEF Plain, KeepsTask
      <4> QED
        BY <4>3, <4>5, <4>6, <4>9
    <3>2. CASE Case.scope # "task"
      <4> DEFINE w == [file |-> "config", at |-> Case.scope, tool |-> Case.proposes]
      <4>1. Case.scope \in Configs
        BY <2>3, <3>2 DEF AdoptionScopes, Configs
      <4>2. Apply = <<w>> /\ w.file = "config"
        BY <3>2 DEF Apply
      <4>3. Fit(<<w>>, versions, tasks, Binding)
        BY <2>3, <4>1, ConfigFits
      <4> HIDE DEF w
      <4>4. Tags(w, session, tasks, None, 0) /\ Plain(w, tasks, cases)
        BY <4>2 DEF Tags, Plain
      <4> QED
        BY <4>2, <4>3, <4>4
    <3> QED
      BY <3>1, <3>2
  <2>5. PICK w : /\ Apply = <<w>> /\ Fit(<<w>>, versions, tasks, Binding)
                 /\ w.file # "case" /\ Tags(w, session, tasks, None, 0) /\ Plain(w, tasks, cases)
    BY <2>4
  <2> DEFINE x == [file |-> "case", id |-> ActiveCase, to |-> r]
             z == [file |-> "view"]
             ws == <<w, x, z>>
  <2>6. ws = Apply \o SaveCase(ActiveCase, r) \o View
    BY <2>5 DEF SaveCase, View
  <2>7. r \in CaseRecords /\ r.applied
    BY <2>2, CaseKeeps DEF CaseRecords
  <2>13. r.source = Case.source /\ r.status = "resolved"
    BY <2>2, CaseKeeps
  <2> HIDE DEF r
  <2>8. Fit(ws, versions, tasks, Binding)
    <3>1. /\ Fit(SaveCase(ActiveCase, r), versions, tasks, Binding)
          /\ Fit(View, versions, tasks, Binding)
      BY <2>2, <2>7, CaseFits, LateFits
    <3>2. Fit(Apply, versions, tasks, Binding)
      BY <2>5
    <3> HIDE DEF ws
    <3> QED
      BY <2>6, <3>1, <3>2, FitJoin
  <2>9. cases[ActiveCase] # None
    BY <1>1 DEF ActiveCase
  <2> DEFINE ap == [c \in CaseIds |-> c = ActiveCase \/ (cases[c] # None /\ cases[c].applied)]
  <2>10. Knows(cases, ap) /\ ap[ActiveCase] = TRUE
    BY <2>2 DEF Knows
  <2>11. Owed(ws, cases, ap)
    <3>1. Len(ws) = 3 /\ ws[1] = w /\ ws[2] = x /\ ws[3] = z
      OBVIOUS
    <3>2. x.file = "case" /\ x.id = ActiveCase /\ x.to = r /\ z.file = "view"
      OBVIOUS
    <3>3. r.applied = TRUE
      BY <2>7 DEF CaseRecords
    <3> HIDE DEF ws, x, z, ap, ActiveCase
    <3>4. ASSUME NEW i \in 1..3
          PROVE  /\ Foreign(ws[i]) => Durable(cases) \/ (i < 3 /\ IsApplied(ws[i + 1]))
                 /\ ws[i].file = "case" =>
                       /\ ws[i].to.applied = ap[ws[i].id]
                       /\ cases[ws[i].id] # None \/ ws[i].id = 1 + Cardinality(Opened(cases))
      <4>1. CASE i = 1
        BY <2>5, <2>7, <3>1, <3>2, <4>1 DEF IsApplied
      <4>2. CASE i = 2
        BY <2>9, <2>10, <3>1, <3>2, <3>3, <4>2 DEF Foreign
      <4>3. CASE i = 3
        BY <3>1, <3>2, <4>3 DEF Foreign
      <4> QED
        BY <4>1, <4>2, <4>3
    <3> QED
      BY <3>1, <3>4 DEF Owed
  <2>12. Requests(ws, None, 0)
    <3>1. Len(ws) = 3 /\ ws[1] = w /\ ws[2] = x /\ ws[3] = z
      OBVIOUS
    <3>2. x.file = "case" /\ z.file = "view"
      OBVIOUS
    <3> HIDE DEF ws, x, z, ap, ActiveCase
    <3>3. \A i \in 1..3 : Tags(ws[i], session, tasks, None, 0)
      <4>1. Tags(x, session, tasks, None, 0) /\ Tags(z, session, tasks, None, 0)
        BY <3>2 DEF Tags
      <4> QED
        BY <2>5, <3>1, <4>1
    <3> QED
      BY <3>1, <3>3, ConversationAssumption DEF Requests, AllTag
  <2>14. AllPlain(ws, tasks, cases)
    <3>1. Len(ws) = 3 /\ ws[1] = w /\ ws[2] = x /\ ws[3] = z
      OBVIOUS
    <3>2. x.file = "case" /\ x.id = ActiveCase /\ x.to = r /\ z.file = "view"
      OBVIOUS
    <3>3. KeepsCase(ActiveCase, r, cases)
      BY <2>9, <2>13 DEF KeepsCase, Case
    <3> HIDE DEF ws, x, z, ap, ActiveCase
    <3>4. \A i \in 1..3 : Plain(ws[i], tasks, cases)
      <4>1. Plain(x, tasks, cases) /\ Plain(z, tasks, cases)
        BY <3>2, <3>3 DEF Plain
      <4> QED
        BY <2>5, <3>1, <4>1
    <3> QED
      BY <3>1, <3>4 DEF AllPlain
  <2> HIDE DEF ws, ap
  <2> QED
    BY <2>1, <2>6, <2>8, <2>10, <2>11, <2>12, <2>14 DEF Call, Asks, Owes
<1> QED
  BY <1>2, <1>3

\* A session that goes back to the task of its case is ready.
LEMMA ResumedReady ==
    ASSUME DataInv, Steady, Resume, NEW s, s.done = session.done, s.case = 0,
           s.active = IF Case.source # 0 THEN Case.source ELSE session.active
    PROVE  Ready(s, tasks, cases)
<1>1. /\ ActiveCase # 0 /\ ActiveCase = session.case /\ Case = cases[session.case]
      /\ Stands(cases, session.case) /\ (Case.source # 0 => tasks[Case.source] # None)
  BY DEF Resume, In, ActiveCase, Case, Stands, Loads
<1>2. Noted(s, tasks) /\ ~Stands(cases, s.case)
  BY DEF Steady, Ready, Noted, Stands
<1>3. CASE Case.source # 0
  <2>1. Case.source \in Made(tasks) /\ session.case \in CaseIds
    BY <1>1, <1>3, CaseIs DEF Made
  <2>2. Behind(cases, Case.source)
    BY <1>1, <2>1 DEF Behind, Stands
  <2> QED
    BY <1>2, <1>3, <2>1, <2>2 DEF Ready, Traced, Placed
<1>4. CASE Case.source = 0
  <2>1. s.active = session.active /\ cases[session.case].source = 0
    BY <1>1, <1>4
  <2> QED
    BY <1>2, <2>1 DEF Steady, Ready, Traced, Placed
<1> QED
  BY <1>3, <1>4

\* The conversation goes back to the task of the case.
LEMMA ResumeAsks == ASSUME DataInv, Resume PROVE Asks
<1> DEFINE x == IF Case.source # 0 THEN Case.source ELSE session.active
           s == [session EXCEPT !.case = 0, !.active = x]
<1>1. ActiveCase # 0
  BY DEF Resume, In
<1>2. Call(host, SaveCase(ActiveCase, Case) \o Save(s) \o View)
  BY DEF Resume
<1>3. x \in 0..MaxTasks /\ 0 \in 0..MaxCases /\ session \in Sessions
  <2>1. Case \in CaseRecords /\ session \in Sessions
    BY <1>1, CaseIs, DataFacts
  <2>2. Case.source \in 0..MaxTasks /\ session.active \in 0..MaxTasks
    BY <2>1 DEF CaseRecords, Sessions
  <2> QED
    BY <2>1, <2>2, ConversationAssumption
<1> HIDE DEF x
<1>4. s \in Sessions /\ s.done = session.done /\ s.active = x /\ s.case = 0
  <2>1. s.done = session.done /\ s.active = x /\ s.case = 0
    BY <1>3 DEF Sessions
  <2> QED
    BY <1>3, <2>1, SessionKeeps
<1> HIDE DEF s
<1>6. ASSUME Steady PROVE Ready(s, tasks, cases)
  BY <1>1, <1>4, <1>6, ResumedReady DEF x
<1>7. KeepsWhat(Case, Case) /\ Case.status # "candidate-running"
  BY <1>1, CaseIs DEF KeepsWhat, Resume, In, Ended
<1>5. Fits(SaveCase(ActiveCase, Case)) /\ Fits(Save(s)) /\ Fits(View)
  BY <1>1, <1>4, <1>6, <1>7, CaseSaved, PartsFit
<1> QED
  BY <1>2, <1>5, Joins, CallAsks

\* Every call about a case.
LEMMA ImproveAsks == DataInv /\ (ExportNow \/ Improve) => Asks
<1> SUFFICES ASSUME DataInv, ExportNow \/ Improve PROVE Asks
  OBVIOUS
<1>1. CASE ExportNow
  BY <1>1, WorkAsks
<1>2. CASE \E tool \in Candidates \cup {None}, at \in AdoptionScopes, proposed \in BOOLEAN :
              OpenCase(tool, at, proposed)
  BY <1>2, OpenAsks
<1>3. CASE \/ Propose \/ LinkCandidate \/ RecordResult \/ MarkPublished \/ ConfirmRefresh
           \/ \E ready \in BOOLEAN : ApproveTrial(ready)
           \/ \E decision \in {"rejected", "changes-requested"} :
                 RefuseTrial(decision) \/ RefuseAdoption(decision)
           \/ \E ok \in BOOLEAN : RecordRegression(ok)
  BY <1>3, DecisionsAsk
<1>4. CASE \E end \in {"pending", "failed"} : StartTrial(end, FALSE)
  BY <1>4, TrialAsks
<1>5. CASE Adopt \/ Resume
  BY <1>5, AdoptAsks, ResumeAsks
<1> QED
  BY <1>1, <1>2, <1>3, <1>4, <1>5 DEF Improve

(***************************************************************************)
(* The calls of the command line                                           *)
(***************************************************************************)

CliAsks == \E ws : todo' = [todo EXCEPT ![cli] = ws] /\ CliFit(ws, versions)

\* A call of the command line asks for writes that fit.
LEMMA CliCallAsks == ASSUME NEW ws, CliFit(ws, versions), Call(cli, ws) PROVE CliAsks
BY DEF Call, CliAsks

\* A tool is connected.
LEMMA ConnectFits ==
    ASSUME NEW tool \in Tools \ Candidates, NEW status \in {"connected", "waiting", "rejected"}, NEW vs
    PROVE  CliFit(Connect(tool, status), vs)
<1> DEFINE c == [file |-> "config", at |-> "project", tool |-> tool]
           d == [file |-> "connection", to |-> status]
<1>1. c \in CliWrites /\ d \in CliWrites /\ c.file # "binding" /\ d.file # "binding"
  BY DEF CliWrites, Configs
<1>2. Connect(tool, status) = (IF status = "connected" THEN <<c>> ELSE <<>>) \o <<d>>
  BY DEF Connect
<1> HIDE DEF c, d
<1>3. CliFit(<<c>>, vs) /\ CliFit(<<d>>, vs) /\ CliFit(<<>>, vs)
  BY <1>1 DEF CliFit, Binds
<1> QED
  BY <1>2, <1>3, CliJoin

\* A connection is decided on.
LEMMA CliToolsAsk == CliTools => CliAsks
<1> SUFFICES ASSUME CliTools PROVE CliAsks
  OBVIOUS
<1>1. PICK tool \in Tools \ Candidates, status \in {"connected", "waiting", "rejected"} :
              Call(cli, Connect(tool, status))
  BY DEF CliTools, DecideConnection, RetryHealth
<1> QED
  BY <1>1, ConnectFits, CliCallAsks

\* Two pairs after one another.
LEMMA TwoAndTwo ==
    ASSUME NEW v, NEW x, NEW l, NEW b
    PROVE  <<v, x>> \o <<l, b>> = <<v, x, l, b>>
<1> DEFINE S == {v, x, l, b}
           s == <<v, x>> \o <<l, b>>
           u == <<v, x, l, b>>
<1>1. s \in Seq(S) /\ u \in Seq(S) /\ Len(s) = 4 /\ Len(u) = 4
  OBVIOUS
<1>2. s[1] = v /\ s[2] = x /\ s[3] = l /\ s[4] = b
  OBVIOUS
<1>3. u[1] = v /\ u[2] = x /\ u[3] = l /\ u[4] = b
  OBVIOUS
<1> HIDE DEF s, u, S
<1>4. ASSUME NEW i \in 1..4 PROVE s[i] = u[i]
  <2>1. i = 1 \/ i = 2 \/ i = 3 \/ i = 4
    OBVIOUS
  <2> QED
    BY <1>2, <1>3, <2>1
<1>5. s = u
  BY <1>1, <1>4, SeqEqual
<1> QED
  BY <1>5 DEF s, u

\* A theme of the project is migrated: its version comes before the binding.
LEMMA MigrateAsks == ASSUME NEW t \in Themes, Migrate(t) PROVE CliAsks
<1> DEFINE v == [file |-> "version", theme |-> t, n |-> 1, srcs |-> {}]
           x == [file |-> "index", theme |-> t, n |-> 1]
           l == [file |-> "legacy"]
           b == [file |-> "binding", kind |-> "project", theme |-> t, n |-> 1]
           ws == <<v, x, l, b>>
<1>1. Create(t, {}, {}) \o <<l, b>> = ws
  <2>1. Bindings({}, t, 1) = <<>>
    BY DEF Bindings
  <2>2. Create(t, {}, {}) = <<v, x>> \o <<>>
    BY <2>1 DEF Create, Version, Index
  <2> HIDE DEF v, x, l, b
  <2>3. <<v, x>> \o <<>> = <<v, x>> /\ <<v, x>> \o <<l, b>> = <<v, x, l, b>>
    BY TwoAndTwo
  <2> QED
    BY <2>2, <2>3
<1>2. Call(cli, ws)
  BY <1>1 DEF Migrate, Bind
<1>3. v \in CliWrites /\ x \in CliWrites /\ l \in CliWrites /\ b \in CliWrites
  BY ThemesAssumption DEF CliWrites, ThemeWrites, Kinds
<1>4. /\ v.file = "version" /\ v.theme = b.theme /\ v.n = b.n
      /\ x.file # "binding" /\ l.file # "binding"
  OBVIOUS
<1> HIDE DEF v, x, l, b
<1>5. CliFit(ws, versions)
  BY <1>3, <1>4 DEF CliFit, Binds
<1> QED
  BY <1>2, <1>5, CliCallAsks

\* A call of the command line about themes.
LEMMA CliThemesAsk == DataInv /\ CliThemes => CliAsks
<1> SUFFICES ASSUME DataInv, CliThemes PROVE CliAsks
  OBVIOUS
<1>1. ASSUME NEW t \in Themes, NEW n \in 1..MaxVersions, NEW kinds, DeriveFromCli(t, n, kinds)
      PROVE  CliAsks
  <2>1. CliFit(Derive(t, n, {}, kinds), versions)
    BY <1>1, DerivesFrom DEF DeriveFromCli
  <2> QED
    BY <1>1, <2>1, CliCallAsks DEF DeriveFromCli
<1>2. ASSUME NEW t \in Themes, NEW n \in 1..MaxVersions, NEW k, BindFromCli(k, t, n)
      PROVE  CliAsks
  <2>1. CliFit(Bindings({k}, t, n), versions)
    BY <1>2, BindingsFit DEF BindFromCli, Known
  <2> QED
    BY <1>2, <2>1, CliCallAsks DEF BindFromCli
<1> QED
  BY <1>1, <1>2, MigrateAsks DEF CliThemes

(***************************************************************************)
(* What every step but a restore elsewhere preserves                       *)
(***************************************************************************)

\* Versions stay, contents are only added, a task keeps its reference.
Onward(vs, vt, k, l, ts, tt) ==
    /\ k \in Nat /\ l \in Nat /\ k <= l
    /\ \A t \in Themes, n \in 1..MaxVersions : vs[t][n] # None => vt[t][n] # None
    /\ \A id \in TaskIds : ts[id] # None => tt[id] # None /\ tt[id].ref = ts[id].ref

\* No task is new but the one that is planned next, with ref.
Grown(ts, tt, ref) ==
    \/ Made(tt) = Made(ts)
    \/ Made(tt) = Made(ts) \cup {Fresh(ts)} /\ tt[Fresh(ts)].ref = ref

\* Tasks of a copy stay those there are.
LEMMA KeptOnward ==
    ASSUME NEW vs, NEW vt, NEW k, NEW l, NEW ts, NEW tt, Onward(vs, vt, k, l, ts, tt),
           NEW runs, Kept(runs, ts)
    PROVE  Kept(runs, tt)
BY DEF Onward, Kept

\* More contents, more files.
LEMMA FilesOnward ==
    ASSUME NEW k \in Nat, NEW l \in Nat, k <= l
    PROVE  Files(k) \subseteq Files(l) /\ Found(k) \subseteq Found(l)
<1>1. 1..k \subseteq 1..l
  OBVIOUS
<1>2. Found(k) \subseteq Found(l)
  BY <1>1 DEF Found
<1>3. [1..MaxVersions -> (1..k) \cup {None}] \subseteq [1..MaxVersions -> (1..l) \cup {None}]
  BY <1>1
<1>4. Files(k) \subseteq Files(l)
  BY <1>3 DEF Files
<1> QED
  BY <1>2, <1>4

\* A copy stays one.
LEMMA SnapshotOnward ==
    ASSUME NEW vs, NEW vt, NEW k, NEW l, NEW ts, NEW tt, Onward(vs, vt, k, l, ts, tt),
           NEW s, Snapshot(s, k, ts)
    PROVE  Snapshot(s, l, tt)
<1>1. Files(k) \subseteq Files(l) /\ Found(k) \subseteq Found(l)
  BY FilesOnward DEF Onward
<1>2. Kept(s.runs, tt)
  BY KeptOnward DEF Snapshot
<1> QED
  BY <1>1, <1>2 DEF Snapshot

\* What a restore writes stays good.
LEMMA RestoreOnward ==
    ASSUME NEW vs, NEW vt, NEW k, NEW l, NEW ts, NEW tt, Onward(vs, vt, k, l, ts, tt),
           NEW ws, RestoreFit(ws, k, ts)
    PROVE  RestoreFit(ws, l, tt)
<1>1. Files(k) \subseteq Files(l) /\ Found(k) \subseteq Found(l)
  BY FilesOnward DEF Onward
<1>2. ASSUME NEW w, Restorable(w, k, ts) PROVE Restorable(w, l, tt)
  <2>1. w.group = "runs" => Kept(w.to, tt)
    BY <1>2, KeptOnward DEF Restorable
  <2> QED
    BY <1>1, <1>2, <2>1 DEF Restorable
<1> QED
  BY <1>2 DEF RestoreFit

\* What is bound to stays there.
LEMMA BindsOnward ==
    ASSUME NEW vs, NEW vt, NEW k, NEW l, NEW ts, NEW tt, Onward(vs, vt, k, l, ts, tt),
           NEW ws, Binds(ws, vs),
           \A i \in 1..Len(ws) : ws[i].file = "binding" => ws[i] \in ThemeWrites
    PROVE  Binds(ws, vt)
<1>1. SUFFICES ASSUME NEW i \in 1..Len(ws), ws[i].file = "binding", vs[ws[i].theme][ws[i].n] # None
               PROVE  vt[ws[i].theme][ws[i].n] # None
  BY DEF Binds
<1>2. ws[i].theme \in Themes /\ ws[i].n \in 1..MaxVersions
  BY <1>1, ThemeWriteIs
<1> QED
  BY <1>1, <1>2 DEF Onward

\* What the command line has left stays good.
LEMMA CliOnward ==
    ASSUME NEW vs, NEW vt, NEW k, NEW l, NEW ts, NEW tt, Onward(vs, vt, k, l, ts, tt),
           NEW ws, CliFit(ws, vs)
    PROVE  CliFit(ws, vt)
<1>1. ASSUME NEW i \in 1..Len(ws), ws[i].file = "binding" PROVE ws[i] \in ThemeWrites
  <2>1. ws[i] \in CliWrites
    BY <1>1 DEF CliFit
  <2> QED
    BY <1>1, <2>1, CliWriteIs
<1> QED
  BY <1>1, BindsOnward DEF CliFit

\* A task that is about to be saved stays good.
LEMMA FollowsOnward ==
    ASSUME NEW vs, NEW vt, NEW k, NEW l, NEW ts, NEW tt, Onward(vs, vt, k, l, ts, tt),
           NEW ref, Grown(ts, tt, ref), NEW w \in HostWrites, Follows(w, ts, ref)
    PROVE  Follows(w, tt, ref)
<1>1. SUFFICES ASSUME w.file \in {"plan", "task"} PROVE Follows(w, tt, ref)
  BY DEF Follows
<1>2. w.id \in TaskIds
  BY <1>1, HostWriteIs
<1>3. CASE ts[w.id] # None
  BY <1>1, <1>2, <1>3 DEF Follows, Onward
<1>4. CASE ts[w.id] = None
  <2>1. w.file = "plan" /\ AsPlanned(w.to) /\ w.id = Fresh(ts) /\ w.to.ref = ref
    BY <1>1, <1>4 DEF Follows
  <2>2. CASE Made(tt) = Made(ts)
    <3>1. Fresh(tt) = Fresh(ts) /\ tt[w.id] = None
      BY <1>2, <1>4, <2>2 DEF Fresh, Made
    <3> QED
      BY <2>1, <3>1 DEF Follows
  <2>3. CASE Made(tt) = Made(ts) \cup {Fresh(ts)} /\ tt[Fresh(ts)].ref = ref
    <3>1. tt[w.id] # None /\ tt[w.id].ref = ref
      BY <2>1, <2>3 DEF Made
    <3> QED
      BY <2>1, <3>1 DEF Follows
  <2> QED
    BY <2>2, <2>3 DEF Grown
<1> QED
  BY <1>3, <1>4

\* What the conversation has left stays good.
LEMMA FitOnward ==
    ASSUME NEW vs, NEW vt, NEW k, NEW l, NEW ts, NEW tt, Onward(vs, vt, k, l, ts, tt),
           NEW ref, Grown(ts, tt, ref), NEW ws, Fit(ws, vs, ts, ref)
    PROVE  Fit(ws, vt, tt, ref)
<1>1. ASSUME NEW i \in 1..Len(ws) PROVE ws[i] \in HostWrites /\ Follows(ws[i], tt, ref)
  <2>1. ws[i] \in HostWrites /\ Follows(ws[i], ts, ref)
    BY DEF Fit
  <2> QED
    BY <2>1, FollowsOnward
<1>2. \A i \in 1..Len(ws) : ws[i].file = "binding" => ws[i] \in ThemeWrites
  BY <1>1, HostWriteIs
<1>3. Binds(ws, vt)
  BY <1>2, BindsOnward DEF Fit
<1> QED
  BY <1>1, <1>3 DEF Fit

\* What is left when the first write is done.
LEMMA TailBinds ==
    ASSUME NEW S, NEW ws \in Seq(S), ws # <<>>, \A w \in S : w.file = "binding" => w \in ThemeWrites,
           NEW vs, NEW vt, NEW k, NEW l, NEW ts, NEW tt, Onward(vs, vt, k, l, ts, tt),
           Binds(ws, vs), Head(ws).file = "version" => vt[Head(ws).theme][Head(ws).n] # None
    PROVE  Tail(ws) \in Seq(S) /\ Binds(Tail(ws), vt)
<1>1. ASSUME NEW i \in 1..Len(ws), ws[i].file = "binding"
      PROVE  ws[i].theme \in Themes /\ ws[i].n \in 1..MaxVersions
  <2>1. ws[i] \in ThemeWrites
    BY <1>1
  <2> QED
    BY <2>1, ThemeWriteIs
<1>2. \A t \in Themes, n \in 1..MaxVersions : vs[t][n] # None => vt[t][n] # None
  BY DEF Onward
<1>3. Binds(Tail(ws), vt)
  BY <1>1, <1>2, BindsTail
<1> QED
  BY <1>3, WriteLeft

\* The command line after its first write.
LEMMA CliTail ==
    ASSUME NEW vs, NEW vt, NEW k, NEW l, NEW ts, NEW tt, Onward(vs, vt, k, l, ts, tt),
           NEW ws, ws # <<>>, CliFit(ws, vs),
           Head(ws).file = "version" => vt[Head(ws).theme][Head(ws).n] # None
    PROVE  CliFit(Tail(ws), vt)
<1>1. ws \in Seq(CliWrites) /\ \A w \in CliWrites : w.file = "binding" => w \in ThemeWrites
  BY CliWriteIs DEF CliFit
<1> QED
  BY <1>1, TailBinds DEF CliFit

\* The conversation after its first write.
LEMMA HostTail ==
    ASSUME NEW vs, NEW vt, NEW k, NEW l, NEW ts, NEW tt, Onward(vs, vt, k, l, ts, tt),
           NEW ref, Grown(ts, tt, ref), NEW ws, ws # <<>>, Fit(ws, vs, ts, ref),
           Head(ws).file = "version" => vt[Head(ws).theme][Head(ws).n] # None
    PROVE  Fit(Tail(ws), vt, tt, ref)
<1>1. ws \in Seq(HostWrites) /\ \A w \in HostWrites : w.file = "binding" => w \in ThemeWrites
  BY HostWriteIs DEF Fit
<1>2. Tail(ws) \in Seq(HostWrites) /\ Binds(Tail(ws), vt)
  BY <1>1, TailBinds DEF Fit
<1>3. ASSUME NEW i \in 1..Len(Tail(ws)) PROVE Follows(Tail(ws)[i], tt, ref)
  <2>1. i + 1 \in 1..Len(ws) /\ Tail(ws)[i] = ws[i + 1]
    BY <1>1, WriteLeft
  <2>2. ws[i + 1] \in HostWrites /\ Follows(ws[i + 1], ts, ref)
    BY <2>1 DEF Fit
  <2> QED
    BY <2>1, <2>2, FollowsOnward
<1> QED
  BY <1>2, <1>3 DEF Fit

(***************************************************************************)
(* The parts of the invariant                                              *)
(***************************************************************************)

ThemePart == /\ ThemesOK /\ Len(looks) <= MaxLooks
             /\ bound \in [Kinds -> Found(Len(looks)) \cup {None}]
TaskPart == /\ tasks \in [TaskIds -> TaskRecords \cup {None}]
            /\ Numbered(tasks) /\ ThemeAsPlanned
RestPart == /\ session \in Sessions
            /\ sources \in [Sources -> {"none", "file", "registered"}]
            /\ config \in [Configs -> Tools \cup {None}]
            /\ connection \in {"none", "pending", "waiting", "connected", "rejected"}
            /\ CasesOK /\ crashes \in 0..MaxCrashes /\ restores \in 0..MaxRestores

\* The parts of the data.
LEMMA PartsAre == DataInv <=> ThemePart /\ TaskPart /\ RestPart
BY DEF DataInv, TypeOK, TalkOK, ThemePart, TaskPart, RestPart

\* The same after a step.
LEMMA PartsMake == ThemePart' /\ TaskPart' /\ RestPart' => DataInv'
BY DEF DataInv, TypeOK, TalkOK, ThemePart, TaskPart, RestPart

\* Nothing is written of the themes.
LEMMA ThemeStays == ThemePart /\ UNCHANGED <<versions, index, bound, looks, legacy, scope>> => ThemePart'
BY DEF ThemePart, ThemesOK

\* Nothing is written of the tasks.
LEMMA TaskStays == TaskPart /\ UNCHANGED tasks => TaskPart'
BY DEF TaskPart, ThemeAsPlanned

\* Nothing else is written.
LEMMA RestStays ==
    RestPart /\ UNCHANGED <<session, sources, config, connection, cases, crashes, restores>> => RestPart'
BY DEF RestPart, CasesOK

\* A step that is made beside a backup.
Forward == Onward(versions, versions', Len(looks), Len(looks'), tasks, tasks')

\* Nothing is written that a copy could hold.
LEMMA FilesStay ==
    ASSUME DataInv, UNCHANGED <<versions, looks, tasks>>
    PROVE  Forward /\ \A ref : Grown(tasks, tasks', ref)
<1>1. Len(looks) \in Nat
  BY DataFacts
<1> QED
  BY <1>1 DEF Forward, Onward, Grown

\* Copies are not disturbed by what happens beside them.
LEMMA CopiesBeside ==
    ASSUME CopiesInv, Forward, Watch, UNCHANGED archive
    PROVE  CopiesInv'
<1>1. archive' # None => Snapshot(archive'.files, Len(looks'), tasks')
  BY SnapshotOnward DEF CopiesInv, Forward
<1>2. CASE backup' = [phase |-> "spoiled"]
  BY <1>1, <1>2 DEF CopiesInv, Making
<1>3. CASE backup' = backup
  <2>1. Making("archive") => Snapshot(backup.moment, Len(looks'), tasks')
    BY SnapshotOnward DEF CopiesInv, Forward
  <2>2. Making("hash") => \E n \in 0..MaxTasks : backup.listed.runs = 1..n /\ 1..n \subseteq Made(tasks')
    <3>1. Made(tasks) \subseteq Made(tasks')
      BY DEF Forward, Onward, Made
    <3> QED
      BY <3>1 DEF CopiesInv
  <2> QED
    BY <1>1, <1>3, <2>1, <2>2 DEF CopiesInv, Making
<1> QED
  BY <1>2, <1>3 DEF Watch

HostLeft == \E ref, ws : todo' = [todo EXCEPT ![host] = ws] /\ Fit(ws, versions', tasks', ref)
CliLeft == /\ UNCHANGED tasks
           /\ \E ws : todo' = [todo EXCEPT ![cli] = ws] /\ CliFit(ws, versions')
Left(p) == (p = host => HostLeft) /\ (p = cli => CliLeft)

\* A step of a process beside a backup.
LEMMA BesideStep ==
    ASSUME WorkInv, DataInv', Forward, Watch, UNCHANGED archive, NEW p \in {host, cli}, Left(p)
    PROVE  WorkInv'
<1>1. CopiesInv'
  BY CopiesBeside DEF WorkInv
<1>2. TodoInv
  BY DEF WorkInv
<1>3. Processes = {host, cli, operator} /\ host # cli /\ cli # operator /\ host # operator
  BY DEF Processes, host, cli, operator
<1> HIDE DEF host, cli, operator
<1>4. RestoreFit(todo[operator], Len(looks'), tasks')
  BY <1>2, RestoreOnward DEF TodoInv, Forward
<1>5. CASE p = host
  <2>1. PICK ref, ws : todo' = [todo EXCEPT ![host] = ws] /\ Fit(ws, versions', tasks', ref)
    BY <1>5 DEF Left, HostLeft
  <2>2. /\ todo' = [q \in Processes |-> todo'[q]] /\ todo'[host] = ws
        /\ todo'[cli] = todo[cli] /\ todo'[operator] = todo[operator]
    BY <1>2, <1>3, <2>1 DEF TodoInv
  <2>3. CliFit(todo[cli], versions')
    BY <1>2, CliOnward DEF TodoInv, Forward
  <2> QED
    BY <1>1, <1>4, <2>1, <2>2, <2>3 DEF WorkInv, TodoInv
<1>6. CASE p = cli
  <2>1. PICK ws : todo' = [todo EXCEPT ![cli] = ws] /\ CliFit(ws, versions')
    BY <1>6 DEF Left, CliLeft
  <2>2. /\ todo' = [q \in Processes |-> todo'[q]] /\ todo'[cli] = ws
        /\ todo'[host] = todo[host] /\ todo'[operator] = todo[operator]
    BY <1>2, <1>3, <2>1 DEF TodoInv
  <2>3. PICK ref : Fit(todo[host], versions, tasks, ref)
    BY <1>2 DEF TodoInv
  <2>4. Grown(tasks, tasks', ref)
    BY <1>6 DEF Left, CliLeft, Grown
  <2>5. Fit(todo[host], versions', tasks', ref)
    BY <2>3, <2>4, FitOnward DEF Forward
  <2> QED
    BY <1>1, <1>4, <2>1, <2>2, <2>5 DEF WorkInv, TodoInv
<1> QED
  BY <1>5, <1>6

\* A write that is due.
LEMMA NextIs ==
    ASSUME WorkInv, NEW p \in {host, cli}, ~Idle(p)
    PROVE  /\ p = host => Next1(p) \in HostWrites
           /\ p = cli => Next1(p) \in CliWrites
           /\ Next1(p).file \in {"version", "index", "binding"} => Next1(p) \in ThemeWrites
           /\ Next1(p).file = "binding" => versions[Next1(p).theme][Next1(p).n] # None
           /\ Next1(p).file = "config" =>
                 Next1(p).at \in Configs /\ Next1(p).tool \in Tools \cup {None}
<1>1. todo[p] # <<>>
  BY DEF Idle
<1>2. CASE p = host
  <2>1. todo[p] \in Seq(HostWrites) /\ Binds(todo[p], versions)
    BY <1>2 DEF WorkInv, TodoInv, Fit
  <2>2. Next1(p) \in HostWrites
    BY <1>1, <2>1, WriteLeft DEF Next1
  <2>3. Next1(p).file = "binding" => versions[Next1(p).theme][Next1(p).n] # None
    BY <1>1, <2>1, BindingDue DEF Next1
  <2> QED
    BY <1>2, <2>2, <2>3, HostWriteIs DEF host, cli
<1>3. CASE p = cli
  <2>1. todo[p] \in Seq(CliWrites) /\ Binds(todo[p], versions)
    BY <1>3 DEF WorkInv, TodoInv, CliFit
  <2>2. Next1(p) \in CliWrites
    BY <1>1, <2>1, WriteLeft DEF Next1
  <2>3. Next1(p).file = "binding" => versions[Next1(p).theme][Next1(p).n] # None
    BY <1>1, <2>1, BindingDue DEF Next1
  <2> QED
    BY <1>3, <2>2, <2>3, CliWriteIs DEF host, cli
<1> QED
  BY <1>2, <1>3

\* The write is done, the rest is left.
LEMMA GoesLeft ==
    ASSUME WorkInv, NEW p \in {host, cli}, ~Idle(p), Goes(p), Forward,
           \A ref : Fit(todo[host], versions, tasks, ref) => Grown(tasks, tasks', ref),
           p = cli => UNCHANGED tasks,
           Next1(p).file = "version" => versions'[Next1(p).theme][Next1(p).n] # None
    PROVE  Left(p)
<1>1. todo[p] # <<>> /\ TodoInv /\ todo' = [todo EXCEPT ![p] = Tail(todo[p])]
  BY DEF Idle, WorkInv, Goes
<1>2. CASE p = host
  <2>1. PICK ref : Fit(todo[host], versions, tasks, ref)
    BY <1>1 DEF TodoInv
  <2>2. Fit(Tail(todo[host]), versions', tasks', ref)
    BY <1>1, <1>2, <2>1, HostTail DEF Forward, Next1
  <2> QED
    BY <1>1, <1>2, <2>2 DEF Left, HostLeft, host, cli
<1>3. CASE p = cli
  <2>1. CliFit(todo[cli], versions)
    BY <1>1 DEF TodoInv
  <2>2. CliFit(Tail(todo[cli]), versions')
    BY <1>1, <1>3, <2>1, CliTail DEF Forward, Next1
  <2> QED
    BY <1>1, <1>3, <2>2 DEF Left, CliLeft, host, cli
<1> QED
  BY <1>2, <1>3

\* The call ends here.
LEMMA RaisesLeft ==
    ASSUME NEW p \in {host, cli}, Raises(p), UNCHANGED tasks
    PROVE  Left(p)
<1>1. Fit(<<>>, versions', tasks', None) /\ CliFit(<<>>, versions')
  BY NoWriteFits
<1>2. todo' = [todo EXCEPT ![p] = <<>>]
  BY DEF Raises
<1> QED
  BY <1>1, <1>2 DEF Left, HostLeft, CliLeft

\* The call finds out what else to write.
LEMMA ContinuesLeft ==
    ASSUME WorkInv, ~Idle(host), Next1(host).file # "version", UNCHANGED <<versions, tasks, looks>>,
           NEW ws, \A ref : Fit(ws, versions, tasks, ref), Continues(host, ws)
    PROVE  Left(host)
<1>1. PICK ref : Fit(todo[host], versions, tasks, ref)
  BY DEF WorkInv, TodoInv
<1>2. Forward /\ Grown(tasks, tasks', ref)
  BY FilesStay DEF WorkInv
<1>3. todo' = [todo EXCEPT ![host] = ws \o Tail(todo[host])]
  BY DEF Continues
<1>4. todo[host] # <<>> /\ Head(todo[host]).file # "version"
  BY DEF Idle, Next1
<1>5. Fit(Tail(todo[host]), versions', tasks', ref)
  BY <1>1, <1>2, <1>4, HostTail DEF Forward
<1>6. Fit(ws, versions', tasks', ref)
  OBVIOUS
<1>7. Fit(ws \o Tail(todo[host]), versions', tasks', ref)
  BY <1>5, <1>6, FitJoin
<1> QED
  BY <1>3, <1>7 DEF Left, HostLeft, host, cli

(***************************************************************************)
(* The writes, one by one                                                  *)
(***************************************************************************)

Wrote(p) == DataInv' /\ Forward /\ Left(p)
Beyond == <<scope, crashes, restores>>

\* A write of themes alone.
LEMMA ThemeOnly ==
    ASSUME WorkInv, NEW p \in {host, cli}, UNCHANGED <<talkVars, cases, Beyond>>,
           ThemePart', Forward, ~Idle(p), Goes(p),
           Next1(p).file = "version" => versions'[Next1(p).theme][Next1(p).n] # None
    PROVE  Wrote(p)
<1>1. UNCHANGED <<session, tasks, sources, config, connection, cases, crashes, restores>>
  BY DEF talkVars, Beyond
<1>2. DataInv'
  BY <1>1, PartsAre, PartsMake, TaskStays, RestStays DEF WorkInv
<1>3. \A ref : Grown(tasks, tasks', ref)
  BY <1>1 DEF Grown
<1> QED
  BY <1>1, <1>2, <1>3, GoesLeft DEF Wrote

\* A version is a new content.
LEMMA VersionWritten ==
    ASSUME WorkInv, NEW p \in {host, cli}, WriteVersion(p), UNCHANGED <<talkVars, cases, Beyond>>
    PROVE  Wrote(p)
<1> DEFINE w == Next1(p)
           k == Len(looks)
<1>1. /\ ~Idle(p) /\ w.file = "version" /\ k < MaxLooks /\ Goes(p)
      /\ looks' = Append(looks, w.srcs)
      /\ versions' = [versions EXCEPT ![w.theme][w.n] = k + 1]
      /\ UNCHANGED <<index, bound, legacy>> /\ UNCHANGED scope /\ UNCHANGED tasks
  BY DEF WriteVersion, Writes, CanMake, Beyond, talkVars
<1>2. w.theme \in Themes /\ w.n \in 1..MaxVersions /\ w.srcs \in SUBSET Sources
  <2>1. w \in ThemeWrites
    BY <1>1, NextIs
  <2> QED
    BY <1>1, <2>1, ThemeWriteIs
<1>3. /\ versions \in [Themes -> [1..MaxVersions -> (1..k) \cup {None}]]
      /\ index \in [Themes -> 0..MaxVersions] /\ bound \in [Kinds -> Refs \cup {None}]
      /\ bound \in [Kinds -> Found(k) \cup {None}]
      /\ looks \in Seq(SUBSET Sources) /\ legacy \in BOOLEAN /\ scope \in Scopes /\ k \in Nat
  BY DEF WorkInv, DataInv, TypeOK, ThemesOK
<1> HIDE DEF w
<1>4. looks' \in Seq(SUBSET Sources) /\ Len(looks') = k + 1
  BY <1>1, <1>2, <1>3
<1>5. 1..k \subseteq 1..(k + 1) /\ k + 1 \in 1..(k + 1) /\ k + 1 # None /\ k + 1 <= MaxLooks
  BY <1>1, <1>3, ThemesAssumption
<1> HIDE DEF k
<1>6. versions' \in [Themes -> [1..MaxVersions -> (1..(k + 1)) \cup {None}]]
  BY <1>1, <1>2, <1>3, <1>5
<1>7. bound' \in [Kinds -> Found(k + 1) \cup {None}]
  <2>1. Found(k) \subseteq Found(k + 1)
    BY <1>5 DEF Found
  <2> QED
    BY <1>1, <1>3, <2>1
<1>8. ThemePart'
  BY <1>1, <1>3, <1>4, <1>5, <1>6, <1>7 DEF ThemePart, ThemesOK
<1>9. versions'[w.theme][w.n] # None
  BY <1>1, <1>2, <1>3, <1>5
<1>10. Forward
  <2>1. ASSUME NEW t \in Themes, NEW n \in 1..MaxVersions, versions[t][n] # None
        PROVE  versions'[t][n] # None
    BY <1>1, <1>2, <1>3, <1>5, <2>1
  <2>2. k \in Nat /\ k + 1 \in Nat /\ k <= k + 1
    BY <1>3
  <2>3. k = Len(looks)
    BY DEF k
  <2> QED
    BY <1>1, <1>4, <2>1, <2>2, <2>3 DEF Forward, Onward
<1> QED
  BY <1>1, <1>8, <1>9, <1>10, ThemeOnly DEF w

\* An index names its latest version.
LEMMA IndexWritten ==
    ASSUME WorkInv, NEW p \in {host, cli}, WriteIndex(p), UNCHANGED <<talkVars, cases, Beyond>>
    PROVE  Wrote(p)
<1> DEFINE w == Next1(p)
<1>1. /\ ~Idle(p) /\ w.file = "index" /\ Goes(p)
      /\ index' = [index EXCEPT ![w.theme] = w.n]
      /\ UNCHANGED <<versions, bound, looks, legacy>> /\ UNCHANGED scope /\ UNCHANGED tasks
  BY DEF WriteIndex, Writes, Beyond, talkVars
<1>2. w.theme \in Themes /\ w.n \in 0..MaxVersions
  <2>1. w \in ThemeWrites
    BY <1>1, NextIs
  <2>2. w.theme \in Themes /\ w.n \in 1..MaxVersions
    BY <2>1, ThemeWriteIs
  <2> QED
    BY <2>2, ThemesAssumption
<1>3. ThemePart
  BY PartsAre DEF WorkInv
<1>4. ThemePart'
  BY <1>1, <1>2, <1>3 DEF ThemePart, ThemesOK
<1>5. Forward
  BY <1>1, FilesStay DEF WorkInv
<1> QED
  BY <1>1, <1>4, <1>5, ThemeOnly

\* A binding reads the version that it binds to.
LEMMA BindingWritten ==
    ASSUME WorkInv, NEW p \in {host, cli}, WriteBinding(p), UNCHANGED <<talkVars, cases, Beyond>>
    PROVE  Wrote(p)
<1> DEFINE w == Next1(p)
<1>1. /\ ~Idle(p) /\ w.file = "binding" /\ Goes(p)
      /\ bound' = [bound EXCEPT ![w.kind] = Ref(w.theme, w.n)]
      /\ UNCHANGED <<versions, index, looks, legacy>> /\ UNCHANGED scope /\ UNCHANGED tasks
  BY DEF WriteBinding, Writes, Beyond, talkVars
<1>2. /\ w.theme \in Themes /\ w.n \in 1..MaxVersions /\ w.kind \in Kinds
      /\ versions[w.theme][w.n] # None
  <2>1. w \in ThemeWrites /\ versions[w.theme][w.n] # None
    BY <1>1, NextIs
  <2> QED
    BY <1>1, <2>1, ThemeWriteIs
<1>3. ThemePart
  BY PartsAre DEF WorkInv
<1> HIDE DEF w
<1>4. versions[w.theme][w.n] \in 1..Len(looks)
  <2>1. versions \in [Themes -> [1..MaxVersions -> (1..Len(looks)) \cup {None}]]
    BY <1>3 DEF ThemePart, ThemesOK
  <2>2. versions[w.theme] \in [1..MaxVersions -> (1..Len(looks)) \cup {None}]
    BY <1>2, <2>1
  <2> QED
    BY <1>2, <2>2
<1>5. Ref(w.theme, w.n) \in Found(Len(looks)) /\ Ref(w.theme, w.n) \in Refs
  BY <1>2, <1>4 DEF Ref, Found, Refs
<1>6. ThemePart'
  BY <1>1, <1>2, <1>3, <1>5 DEF ThemePart, ThemesOK
<1>7. Forward
  BY <1>1, FilesStay DEF WorkInv
<1> QED
  BY <1>1, <1>6, <1>7, ThemeOnly DEF w

\* Every write of themes.
LEMMA ThemeWritten ==
    ASSUME WorkInv, NEW p \in {host, cli}, WriteTheme(p), UNCHANGED <<talkVars, cases, Beyond>>
    PROVE  Wrote(p)
<1>1. CASE Unlink(p)
  <2>1. /\ ~Idle(p) /\ Goes(p) /\ legacy' = FALSE /\ Next1(p).file = "legacy"
        /\ UNCHANGED <<versions, index, bound, looks>> /\ UNCHANGED scope /\ UNCHANGED tasks
    BY <1>1 DEF Unlink, Writes, Beyond, talkVars
  <2>2. ThemePart'
    BY <2>1, PartsAre DEF WorkInv, ThemePart, ThemesOK
  <2>3. Forward
    BY <2>1, FilesStay DEF WorkInv
  <2> QED
    BY <2>1, <2>2, <2>3, ThemeOnly
<1> QED
  BY <1>1, VersionWritten, IndexWritten, BindingWritten DEF WriteTheme

\* A write that leaves themes and tasks alone.
LEMMA OtherOnly ==
    ASSUME WorkInv, NEW p \in {host, cli}, UNCHANGED <<themeVars, scope>>, UNCHANGED tasks, RestPart',
           \/ ~Idle(p) /\ Goes(p) /\ Next1(p).file # "version"
           \/ Raises(p)
           \/ p = host /\ Left(p)
    PROVE  Wrote(p)
<1>1. UNCHANGED <<versions, index, bound, looks, legacy, scope>>
  BY DEF themeVars
<1>2. DataInv'
  BY <1>1, PartsAre, PartsMake, ThemeStays, TaskStays DEF WorkInv
<1>3. Forward /\ \A ref : Grown(tasks, tasks', ref)
  BY <1>1, FilesStay DEF WorkInv
<1> QED
  BY <1>2, <1>3, GoesLeft, RaisesLeft DEF Wrote

\* The session is saved.
LEMMA SessionWritten ==
    ASSUME WorkInv, NEW p \in {host, cli}, WriteSession(p), UNCHANGED <<themeVars, cases, Beyond>>
    PROVE  Wrote(p)
<1>1. /\ ~Idle(p) /\ Next1(p).file = "session" /\ Goes(p) /\ session' = Next1(p).to
      /\ UNCHANGED <<tasks, sources, config, connection>> /\ UNCHANGED <<scope, crashes, restores>>
  BY DEF WriteSession, Writes, Beyond
<1>2. Next1(p).to \in Sessions
  BY <1>1, NextIs, HostWriteIs, CliWriteIs
<1>3. RestPart'
  BY <1>1, <1>2, PartsAre DEF WorkInv, RestPart, CasesOK
<1> QED
  BY <1>1, <1>3, OtherOnly

\* A source is staged.
LEMMA SourceWritten ==
    ASSUME WorkInv, NEW p \in {host, cli}, WriteSource(p), UNCHANGED <<themeVars, cases, Beyond>>
    PROVE  Wrote(p)
<1> DEFINE w == Next1(p)
<1>1. /\ ~Idle(p) /\ w.file = "source" /\ Goes(p)
      /\ sources' = [sources EXCEPT ![w.id] = IF @ = "registered" THEN @ ELSE w.to]
      /\ UNCHANGED <<session, tasks, config, connection>> /\ UNCHANGED <<scope, crashes, restores>>
  BY DEF WriteSource, Writes, Beyond
<1>2. w.to \in {"file", "registered"}
  BY <1>1, NextIs, HostWriteIs, CliWriteIs
<1> HIDE DEF w
<1>3. RestPart
  BY PartsAre DEF WorkInv
<1>4. sources' \in [Sources -> {"none", "file", "registered"}]
  BY <1>1, <1>2, <1>3 DEF RestPart
<1>5. RestPart'
  BY <1>1, <1>3, <1>4 DEF RestPart, CasesOK
<1> QED
  BY <1>1, <1>5, OtherOnly DEF w

\* A tool is configured, a connection decided.
LEMMA ConfigWritten ==
    ASSUME WorkInv, NEW p \in {host, cli}, WriteConfig(p) \/ WriteConnection(p),
           UNCHANGED <<themeVars, cases, Beyond>>
    PROVE  Wrote(p)
<1>1. UNCHANGED <<scope, crashes, restores>> /\ RestPart
  BY PartsAre DEF Beyond, WorkInv
<1>2. CASE WriteConfig(p)
  <2> DEFINE w == Next1(p)
  <2>1. /\ ~Idle(p) /\ w.file = "config" /\ Goes(p)
        /\ config' = [config EXCEPT ![w.at] = w.tool]
        /\ UNCHANGED <<session, tasks, sources, connection>>
    BY <1>2 DEF WriteConfig, Writes
  <2>2. w.at \in Configs /\ w.tool \in Tools \cup {None}
    BY <2>1, NextIs, HostWriteIs, CliWriteIs
  <2> HIDE DEF w
  <2>3. config' \in [Configs -> Tools \cup {None}]
    BY <1>1, <2>1, <2>2 DEF RestPart
  <2>4. RestPart'
    BY <1>1, <2>1, <2>3 DEF RestPart, CasesOK
  <2> QED
    BY <1>1, <2>1, <2>4, OtherOnly DEF w
<1>3. CASE WriteConnection(p)
  <2>1. /\ ~Idle(p) /\ Next1(p).file = "connection" /\ Goes(p) /\ connection' = Next1(p).to
        /\ UNCHANGED <<session, tasks, sources, config>>
    BY <1>3 DEF WriteConnection, Writes
  <2>2. Next1(p).to \in {"connected", "waiting", "rejected"}
    BY <2>1, NextIs, HostWriteIs, CliWriteIs
  <2>3. RestPart'
    BY <1>1, <2>1, <2>2 DEF RestPart, CasesOK
  <2> QED
    BY <1>1, <2>1, <2>3, OtherOnly
<1> QED
  BY <1>2, <1>3

\* A case is saved.
LEMMA CaseWritten ==
    ASSUME WorkInv, NEW p \in {host, cli}, WriteCase(p), UNCHANGED <<themeVars, talkVars, Beyond>>
    PROVE  Wrote(p)
<1> DEFINE w == Next1(p)
<1>1. /\ ~Idle(p) /\ w.file = "case" /\ Goes(p) /\ cases' = [cases EXCEPT ![w.id] = w.to]
      /\ UNCHANGED <<session, tasks, sources, config, connection, scope, crashes, restores>>
  BY DEF WriteCase, Writes, Beyond, talkVars
<1>2. w.id \in CaseIds /\ w.to \in CaseRecords
  BY <1>1, NextIs, HostWriteIs, CliWriteIs
<1> HIDE DEF w
<1>3. RestPart
  BY PartsAre DEF WorkInv
<1>4. cases' \in [CaseIds -> CaseRecords \cup {None}]
  BY <1>1, <1>2, <1>3 DEF RestPart, CasesOK
<1>5. RestPart'
  BY <1>1, <1>3, <1>4 DEF RestPart, CasesOK
<1> QED
  BY <1>1, <1>5, OtherOnly DEF w

\* A task that is written is one that is there, or the next.
LEMMA TaskDue ==
    ASSUME WorkInv, NEW p \in {host, cli}, ~Idle(p), Next1(p).file \in {"plan", "task"}
    PROVE  /\ p = host /\ Next1(p) \in HostWrites /\ Next1(p).id \in TaskIds
           /\ \A ref : Fit(todo[host], versions, tasks, ref) => Follows(Next1(p), tasks, ref)
<1>1. p = host /\ Next1(p) \in HostWrites
  <2>1. p = cli => Next1(p).file \notin {"plan", "task"}
    BY NextIs, CliWriteIs
  <2> QED
    BY <2>1, NextIs
<1>2. ASSUME NEW ref, Fit(todo[host], versions, tasks, ref)
      PROVE  Follows(Next1(host), tasks, ref)
  <2>1. todo[host] # <<>> /\ todo[host] \in Seq(HostWrites)
    BY <1>1, <1>2 DEF Idle, Fit
  <2>2. Head(todo[host]) = todo[host][1] /\ 1 \in 1..Len(todo[host])
    BY <2>1, WriteLeft
  <2> QED
    BY <1>2, <2>2 DEF Fit, Next1
<1> QED
  BY <1>1, <1>2, HostWriteIs

\* A record is no nothing.
LEMMA RecordIsOne == \A r \in TaskRecords : r # None
BY ConversationAssumption

\* One task is written, with the reference it has or the one it was planned with.
LEMMA TaskKept ==
    ASSUME WorkInv, NEW id \in TaskIds, NEW r \in TaskRecords, AsPlanned(r),
           tasks' = [tasks EXCEPT ![id] = r], UNCHANGED <<versions, looks>>,
           NEW ref, IF tasks[id] # None THEN r.ref = tasks[id].ref ELSE id = Fresh(tasks) /\ r.ref = ref
    PROVE  TaskPart' /\ Forward /\ Grown(tasks, tasks', ref)
<1>1. DataInv
  BY DEF WorkInv
<1>2. /\ tasks \in [TaskIds -> TaskRecords \cup {None}] /\ TaskIds = 1..MaxTasks /\ MaxTasks \in Nat
      /\ \A i \in TaskIds : tasks[i] # None => AsPlanned(tasks[i])
  BY <1>1, DataFacts
<1>3. /\ tasks' \in [TaskIds -> TaskRecords \cup {None}] /\ tasks'[id] = r /\ r # None
      /\ \A i \in TaskIds : i # id => tasks'[i] = tasks[i]
  BY <1>2, RecordIsOne
<1>4. \A i \in TaskIds : tasks'[i] # None => AsPlanned(tasks'[i])
  BY <1>2, <1>3
<1>5. Made(tasks') = Made(tasks) \cup {id}
  BY <1>3 DEF Made
<1>6. Forward
  <2>1. Len(looks) \in Nat
    BY <1>1, DataFacts
  <2>2. ASSUME NEW i \in TaskIds, tasks[i] # None
        PROVE  tasks'[i] # None /\ tasks'[i].ref = tasks[i].ref
    BY <1>3, <2>2
  <2> QED
    BY <2>1, <2>2 DEF Forward, Onward
<1>7. PICK n \in 0..MaxTasks : Made(tasks) = 1..n
  BY <1>1 DEF DataInv, Numbered
<1>8. CASE tasks[id] # None
  <2>1. Made(tasks') = Made(tasks)
    BY <1>5, <1>8 DEF Made
  <2>2. Numbered(tasks')
    BY <1>7, <2>1 DEF Numbered
  <2> QED
    BY <1>3, <1>4, <1>6, <2>1, <2>2 DEF TaskPart, ThemeAsPlanned, AsPlanned, Grown
<1>9. CASE tasks[id] = None
  <2>1. id = Fresh(tasks) /\ r.ref = ref
    BY <1>9
  <2>2. Fresh(tasks) = 1 + n
    <3>1. Cardinality(1..n) = n
      BY <1>7, FS_Interval
    <3> QED
      BY <1>7, <3>1 DEF Fresh
  <2>3. id = n + 1 /\ n + 1 \in 0..MaxTasks /\ (1..n) \cup {n + 1} = 1..(n + 1)
    BY <1>2, <1>7, <2>1, <2>2
  <2>4. Made(tasks') = 1..(n + 1)
    BY <1>5, <1>7, <2>3
  <2>5. Numbered(tasks')
    BY <2>3, <2>4 DEF Numbered
  <2>6. Grown(tasks, tasks', ref)
    BY <1>3, <1>5, <2>1 DEF Grown
  <2> QED
    BY <1>3, <1>4, <1>6, <2>5, <2>6 DEF TaskPart, ThemeAsPlanned, AsPlanned
<1> QED
  BY <1>8, <1>9

\* A write of tasks alone.
LEMMA TaskOnly ==
    ASSUME WorkInv, ~Idle(host), Goes(host), Next1(host).file \in {"plan", "task"},
           NEW r \in TaskRecords, AsPlanned(r),
           tasks' = [tasks EXCEPT ![Next1(host).id] = r],
           UNCHANGED <<themeVars, scope>>, RestPart',
           r.ref = Next1(host).to.ref
    PROVE  Wrote(host)
<1> DEFINE id == Next1(host).id
<1>1. UNCHANGED <<versions, index, bound, looks, legacy, scope>>
  BY DEF themeVars
<1>2. ThemePart'
  BY <1>1, PartsAre, ThemeStays DEF WorkInv
<1>3. id \in TaskIds
  BY TaskDue
<1>4. ASSUME NEW ref, Fit(todo[host], versions, tasks, ref)
      PROVE  TaskPart' /\ Forward /\ Grown(tasks, tasks', ref)
  <2>1. Follows(Next1(host), tasks, ref)
    BY <1>4, TaskDue
  <2>2. IF tasks[id] # None THEN r.ref = tasks[id].ref ELSE id = Fresh(tasks) /\ r.ref = ref
    BY <2>1 DEF Follows
  <2> HIDE DEF id
  <2>3. tasks' = [tasks EXCEPT ![id] = r]
    BY DEF id
  <2> QED
    BY <1>1, <1>3, <2>2, <2>3, TaskKept
<1>5. \E ref : Fit(todo[host], versions, tasks, ref)
  BY DEF WorkInv, TodoInv
<1>6. TaskPart' /\ Forward
  BY <1>4, <1>5
<1>7. DataInv'
  BY <1>2, <1>6, PartsMake
<1>8. Next1(host).file # "version" /\ (host # cli)
  BY DEF host, cli
<1>9. Left(host)
  BY <1>4, <1>6, <1>8, GoesLeft
<1> QED
  BY <1>6, <1>7, <1>9 DEF Wrote

\* The pipeline saves a task as it has it.
LEMMA PlanWritten ==
    ASSUME WorkInv, NEW p \in {host, cli}, WritePlan(p), UNCHANGED <<themeVars, cases, Beyond>>
    PROVE  Wrote(p)
<1>1. /\ ~Idle(p) /\ Next1(p).file = "plan" /\ Goes(p)
      /\ tasks' = [tasks EXCEPT ![Next1(p).id] = Next1(p).to]
      /\ UNCHANGED <<session, sources, config, connection>> /\ UNCHANGED <<scope, crashes, restores>>
  BY DEF WritePlan, Writes, Beyond
<1>2. p = host /\ Next1(p) \in HostWrites
  BY <1>1, TaskDue
<1>3. Next1(p).to \in TaskRecords
  BY <1>1, <1>2, HostWriteIs
<1>4. AsPlanned(Next1(p).to)
  <2>1. PICK ref : Fit(todo[host], versions, tasks, ref)
    BY DEF WorkInv, TodoInv
  <2>2. Follows(Next1(p), tasks, ref)
    BY <1>1, <2>1, TaskDue
  <2> QED
    BY <1>1, <2>2 DEF Follows
<1>5. RestPart'
  BY <1>1, PartsAre, RestStays DEF WorkInv
<1> QED
  BY <1>1, <1>2, <1>3, <1>4, <1>5, TaskOnly

\* What is executed is given a tool, or waits for one.
LEMMA ExecutedIs ==
    ASSUME DataInv, NEW d \in Drafts, NEW seen \in 1..MaxLooks \cup {None}
    PROVE  LET r == IF d.status = "execute" THEN Executed(d) ELSE d
           IN  /\ [r EXCEPT !.seen = seen] \in TaskRecords
               /\ [r EXCEPT !.seen = seen].ref = d.ref /\ r.ref = d.ref
               /\ [r EXCEPT !.seen = seen].seen = seen
<1>1. ToolFor(d) \in Tools \cup {None}
  <2>1. d.override \in Tools \cup {None}
    BY DEF Drafts
  <2>2. config \in [Configs -> Tools \cup {None}] /\ "project" \in Configs /\ "workspace" \in Configs
    BY DataFacts DEF Configs
  <2> QED
    BY <2>1, <2>2 DEF ToolFor
<1> DEFINE tool == ToolFor(d)
<1> HIDE DEF tool
<1>2. CASE d.status # "execute"
  BY <1>2 DEF Drafts, TaskRecords, Planned
<1>3. CASE d.status = "execute" /\ tool = None
  <2>1. Executed(d) = [d EXCEPT !.status = "no-tool"]
    BY <1>3 DEF Executed, tool
  <2> QED
    BY <1>3, <2>1 DEF Drafts, TaskRecords, Planned
<1>4. CASE d.status = "execute" /\ tool # None
  <2>1. Executed(d) = [d EXCEPT !.status = "waiting", !.tool = tool]
    BY <1>4 DEF Executed, tool
  <2>2. tool \in Tools \cup {None}
    BY <1>1 DEF tool
  <2> QED
    BY <1>4, <2>1, <2>2 DEF Drafts, TaskRecords, Planned
<1> QED
  BY <1>2, <1>3, <1>4

\* A service saves a task that loads: its theme is the one it was planned with.
LEMMA TaskSaved ==
    ASSUME WorkInv, NEW p \in {host, cli}, WriteTask(p), Loads(Next1(p).id)
    PROVE  \E s \in TaskRecords :
              /\ tasks' = [tasks EXCEPT ![Next1(p).id] = s]
              /\ s.ref = Next1(p).to.ref /\ AsPlanned(s) /\ s.trial = Next1(p).to.trial
              /\ s.status = "exported" => Next1(p).to.status = "exported"
<1> DEFINE w == Next1(p)
           r == IF w.to.status = "execute" THEN Executed(w.to) ELSE w.to
           seen == IF r.ref = None THEN None ELSE versions[r.ref.theme][r.ref.n]
           s == [r EXCEPT !.seen = seen]
<1>1. ~Idle(p) /\ w.file = "task"
  BY DEF WriteTask, Writes
<1>2. w.to \in Drafts /\ DataInv
  BY <1>1, TaskDue, HostWriteIs DEF WorkInv
<1>3. tasks' = [tasks EXCEPT ![w.id] = s]
  BY DEF WriteTask
<1>4. w.to.ref = tasks[w.id].ref /\ tasks[w.id] # None
  <2>1. PICK ref : Fit(todo[host], versions, tasks, ref)
    BY DEF WorkInv, TodoInv
  <2>2. Follows(w, tasks, ref)
    BY <1>1, <2>1, TaskDue
  <2> QED
    BY <1>1, <2>2 DEF Follows, Loads
<1>5. r.ref = w.to.ref
  <2>1. None \in 1..MaxLooks \cup {None}
    OBVIOUS
  <2> QED
    BY <1>2, <2>1, ExecutedIs
<1>6. w.to.ref # None => /\ versions[w.to.ref.theme][w.to.ref.n] = w.to.ref.look
                         /\ w.to.ref.theme \in Themes /\ w.to.ref.n \in 1..MaxVersions
                         /\ versions[w.to.ref.theme][w.to.ref.n] # None
  <2>1. w.to.ref \in Refs \cup {None}
    BY <1>2 DEF Drafts
  <2> QED
    BY <1>4, <2>1 DEF Loads, Good, Known, Refs
<1>7. seen \in 1..MaxLooks \cup {None} /\ (r.ref # None => seen = r.ref.look)
  <2>1. /\ versions \in [Themes -> [1..MaxVersions -> (1..Len(looks)) \cup {None}]]
        /\ Len(looks) \in Nat /\ Len(looks) <= MaxLooks
    BY <1>2, DataFacts
  <2>2. 1..Len(looks) \subseteq 1..MaxLooks
    BY <2>1, ThemesAssumption
  <2> HIDE DEF r
  <2>3. CASE r.ref = None
    BY <2>3
  <2>4. CASE r.ref # None
    <3>1. seen = versions[w.to.ref.theme][w.to.ref.n] /\ seen = r.ref.look
      BY <1>5, <1>6, <2>4
    <3> DEFINE t == w.to.ref.theme
               n == w.to.ref.n
    <3>2. t \in Themes /\ n \in 1..MaxVersions /\ versions[t][n] # None
      BY <1>5, <1>6, <2>4
    <3> HIDE DEF t, n
    <3>3. versions[t][n] \in 1..MaxLooks
      BY <2>1, <2>2, <3>2
    <3> QED
      BY <3>1, <3>3 DEF t, n
  <2> QED
    BY <2>3, <2>4
<1>8. s \in TaskRecords /\ s.ref = w.to.ref /\ s.seen = seen
  <2> HIDE DEF seen
  <2> QED
    BY <1>2, <1>7, ExecutedIs
<1>9. AsPlanned(s)
  BY <1>5, <1>7, <1>8 DEF AsPlanned
<1>10. s.trial = w.to.trial /\ (s.status = "exported" => w.to.status = "exported")
  <2>1. /\ r.trial = w.to.trial /\ (r.status = "exported" => w.to.status = "exported")
        /\ "trial" \in DOMAIN r /\ "status" \in DOMAIN r
    BY <1>2 DEF Executed, Drafts
  <2> HIDE DEF r, seen
  <2> QED
    BY <2>1
<1> HIDE DEF s
<1> QED
  BY <1>3, <1>8, <1>9, <1>10

\* It, and the tool request that comes of it.
LEMMA TaskWritten ==
    ASSUME WorkInv, NEW p \in {host, cli}, WriteTask(p), UNCHANGED <<themeVars, cases, Beyond>>
    PROVE  Wrote(p)
<1> DEFINE w == Next1(p)
           r == IF w.to.status = "execute" THEN Executed(w.to) ELSE w.to
<1>1. /\ ~Idle(p) /\ w.file = "task"
      /\ UNCHANGED <<session, sources, config>> /\ UNCHANGED <<scope, cases, crashes, restores>>
  BY DEF WriteTask, Writes, Beyond
<1>2. p = host /\ w \in HostWrites /\ w.id \in TaskIds
  BY <1>1, TaskDue
<1>3. DataInv /\ RestPart
  BY PartsAre DEF WorkInv
<1>4. CASE ~Loads(w.id)
  <2>1. Raises(p) /\ UNCHANGED <<tasks, connection>>
    BY <1>4 DEF WriteTask
  <2>2. RestPart'
    BY <1>1, <1>3, <2>1, RestStays
  <2> HIDE DEF w
  <2> QED
    BY <1>1, <2>1, <2>2, OtherOnly
<1>5. CASE Loads(w.id)
  <2>1. Goes(p) /\ connection' = Requested(r)
    BY <1>5 DEF WriteTask
  <2>2. PICK s \in TaskRecords : /\ tasks' = [tasks EXCEPT ![w.id] = s]
                                 /\ s.ref = w.to.ref /\ AsPlanned(s)
    BY <1>5, TaskSaved
  <2>3. RestPart'
    <3>1. connection' \in {"none", "pending", "waiting", "connected", "rejected"}
      BY <1>3, <2>1 DEF Requested, RestPart
    <3> QED
      BY <1>1, <1>3, <3>1 DEF RestPart, CasesOK
  <2> QED
    BY <1>1, <1>2, <2>1, <2>2, <2>3, TaskOnly
<1> QED
  BY <1>4, <1>5

(***************************************************************************)
(* What a call finds out on its way                                        *)
(***************************************************************************)

\* More writes come up.
LEMMA FoundOut ==
    ASSUME WorkInv, UNCHANGED <<themeVars, scope>>, UNCHANGED tasks, RestPart', ~Idle(host),
           Next1(host).file # "version", NEW ws,
           \A ref : Fit(ws, versions, tasks, ref), Continues(host, ws)
    PROVE  Wrote(host)
<1>1. UNCHANGED <<versions, tasks, looks>>
  BY DEF themeVars
<1>2. Left(host)
  BY <1>1, ContinuesLeft
<1> QED
  BY <1>2, OtherOnly

\* Only the host finds out.
LEMMA LateDue ==
    ASSUME WorkInv, NEW p \in {host, cli}, ~Idle(p),
           Next1(p).file \in {"view", "load", "repair", "derive", "link", "session", "case"}
    PROVE  p = host /\ Next1(p) \in HostWrites /\ Next1(p).file # "version"
<1>1. p = cli => Next1(p).file \notin {"view", "load", "repair", "derive", "link", "session", "case"}
  BY NextIs, CliWriteIs
<1> QED
  BY <1>1, NextIs

\* A theme is derived once its source is staged.
LEMMA DeriveFound ==
    ASSUME WorkInv, NEW p \in {host, cli}, DeriveHere(p), UNCHANGED <<themeVars, cases, Beyond>>
    PROVE  Wrote(p)
<1> DEFINE w == Next1(p)
           kinds == {"conversation"}
<1>1. /\ ~Idle(p) /\ w.file = "derive" /\ UNCHANGED <<session, tasks, sources, config, connection>>
      /\ UNCHANGED <<scope, crashes, restores>>
  BY DEF DeriveHere, Writes, talkVars, Beyond
<1>2. p = host /\ w \in HostWrites /\ w.file # "version"
  BY <1>1, LateDue
<1>3. w.theme \in Themes /\ w.n \in 0..MaxVersions /\ w.src \in Sources
  BY <1>1, <1>2, HostWriteIs
<1>4. RestPart' /\ DataInv
  BY <1>1, PartsAre, RestStays DEF WorkInv
<1>5. {w.src} \in SUBSET Sources
  BY <1>3
<1> HIDE DEF w
<1>6. CASE w.n = 0
  <2>1. Continues(p, Create(w.theme, {w.src}, kinds))
    BY <1>6 DEF DeriveHere, w
  <2>2. \A ref : Fit(Create(w.theme, {w.src}, kinds), versions, tasks, ref)
    BY <1>3, <1>5, CreateFits
  <2> QED
    BY <1>1, <1>2, <1>4, <2>1, <2>2, FoundOut DEF w
<1>7. CASE w.n # 0
  <2>1. CanDerive(w.theme, w.n) /\ Continues(p, Derive(w.theme, w.n, {w.src}, kinds))
    BY <1>7 DEF DeriveHere, w
  <2>2. \A ref : Fit(Derive(w.theme, w.n, {w.src}, kinds), versions, tasks, ref)
    BY <1>3, <1>4, <1>5, <2>1, DerivesFrom
  <2> QED
    BY <1>1, <1>2, <1>4, <2>1, <2>2, FoundOut DEF w
<1> QED
  BY <1>6, <1>7

\* The theme that is bound is derived once the source is staged.
LEMMA LinkFound ==
    ASSUME WorkInv, NEW p \in {host, cli}, LinkSource(p), UNCHANGED <<themeVars, cases, Beyond>>
    PROVE  Wrote(p)
<1> DEFINE w == Next1(p)
           ref == bound["conversation"]
           kinds == {"conversation"}
<1>1. /\ ~Idle(p) /\ w.file = "link" /\ UNCHANGED <<session, tasks, sources, config, connection>>
      /\ UNCHANGED <<scope, crashes, restores>>
  BY DEF LinkSource, Writes, talkVars, Beyond
<1>2. p = host /\ w \in HostWrites /\ w.file # "version"
  BY <1>1, LateDue
<1>3. w.src \in Sources
  BY <1>1, <1>2, HostWriteIs
<1>4. RestPart' /\ DataInv
  BY <1>1, PartsAre, RestStays DEF WorkInv
<1>5. CASE ~Selected \/ ~Viewable
  <2>1. Goes(p) \/ Raises(p)
    BY <1>5 DEF LinkSource
  <2> QED
    BY <1>1, <1>2, <1>4, <2>1, OtherOnly
<1>6. CASE Selected /\ Viewable
  <2>1. CanDerive(ref.theme, ref.n) /\ Continues(p, Derive(ref.theme, ref.n, {w.src}, kinds))
    BY <1>6 DEF LinkSource
  <2>2. ref.theme \in Themes
    <3>1. ref \in Found(Len(looks)) \cup {None} /\ ref # None
      BY <1>4, <1>6, DataFacts DEF Selected, Kinds
    <3> QED
      BY <3>1 DEF Found
  <2>3. {w.src} \in SUBSET Sources
    BY <1>3
  <2> HIDE DEF w, ref
  <2>4. \A any : Fit(Derive(ref.theme, ref.n, {w.src}, kinds), versions, tasks, any)
    BY <1>4, <2>1, <2>2, <2>3, DerivesFrom
  <2> QED
    BY <1>1, <1>2, <1>4, <2>1, <2>4, FoundOut DEF w
<1> QED
  BY <1>5, <1>6

\* A plan that lacks its image is mended.
LEMMA RepairFound ==
    ASSUME WorkInv, NEW p \in {host, cli}, Repair(p), UNCHANGED <<themeVars, cases, Beyond>>
    PROVE  Wrote(p)
<1> DEFINE lacks == Active # 0 /\ Current.missing
           a == [Now EXCEPT !.reg = "required"]
           b == [Now EXCEPT !.reg = "registered"]
           c == SaveTask(Active, Mended(Current))
<1>1. /\ ~Idle(p) /\ Next1(p).file = "repair"
      /\ UNCHANGED <<session, tasks, sources, config, connection>>
      /\ UNCHANGED <<scope, crashes, restores>>
  BY DEF Repair, Writes, talkVars, Beyond
<1>2. p = host /\ Next1(p).file # "version"
  BY <1>1, LateDue
<1>3. RestPart' /\ DataInv
  BY <1>1, PartsAre, RestStays DEF WorkInv
<1>4. a \in Sessions /\ b \in Sessions
  BY <1>3, NowIs, SessionKeeps
<1> HIDE DEF a, b
<1>5. \A ref : Fit(Save(a), versions, tasks, ref) /\ Fit(Save(b), versions, tasks, ref)
  BY <1>4, SaveFits
<1>6. CASE Goes(p) \/ Raises(p)
  BY <1>1, <1>2, <1>3, <1>6, OtherOnly
<1>7. CASE Continues(p, Save(a))
  BY <1>1, <1>2, <1>3, <1>5, <1>7, FoundOut
<1>8. CASE lacks /\ Continues(p, c \o Save(b))
  <2>1. /\ Active \in TaskIds /\ tasks[Active] # None
        /\ Mended(Current) \in Drafts /\ Mended(Current).ref = tasks[Active].ref
    <3>1. Active \in TaskIds /\ tasks[Active] # None /\ Current \in TaskRecords
      BY <1>3, <1>8, ActiveIs
    <3>2. Mended(Current) \in TaskRecords /\ Mended(Current).ref = Current.ref
      BY <3>1, RecordKeeps DEF Mended
    <3>3. Mended(Current) \in Drafts
      BY <3>2, RecordKeeps
    <3> QED
      BY <3>1, <3>2, <3>3 DEF Current
  <2>2. ASSUME NEW ref PROVE Fit(c \o Save(b), versions, tasks, ref)
    <3>1. Fit(c, versions, tasks, ref)
      BY <2>1, TaskFits
    <3> QED
      BY <1>5, <3>1, FitJoin
  <2> HIDE DEF c
  <2> QED
    BY <1>1, <1>2, <1>3, <1>8, <2>2, FoundOut
<1>9. \/ Goes(p) \/ Raises(p) \/ Continues(p, Save(a)) \/ (lacks /\ Continues(p, c \o Save(b)))
  BY DEF Repair, a, b
<1> QED
  BY <1>6, <1>7, <1>8, <1>9

\* Every write of the conversation.
LEMMA TalkWritten ==
    ASSUME WorkInv, NEW p \in {host, cli}, WriteTalk(p), UNCHANGED <<themeVars, cases, Beyond>>
    PROVE  Wrote(p)
<1>1. CASE LoadActive(p)
  <2>1. /\ ~Idle(p) /\ Next1(p).file = "load" /\ (Goes(p) \/ Raises(p))
        /\ UNCHANGED <<session, tasks, sources, config, connection>>
        /\ UNCHANGED <<scope, crashes, restores>>
    BY <1>1 DEF LoadActive, Writes, talkVars, Beyond
  <2>2. RestPart'
    BY <2>1, PartsAre, RestStays DEF WorkInv
  <2> QED
    BY <2>1, <2>2, OtherOnly
<1> QED
  BY <1>1, PlanWritten, TaskWritten, SessionWritten, SourceWritten, ConfigWritten,
     DeriveFound, LinkFound, RepairFound DEF WriteTalk

\* A case that is brought up to date with its trial.
LEMMA SyncWritten ==
    ASSUME WorkInv, NEW p \in {host, cli}, Sync(p), UNCHANGED Beyond
    PROVE  Wrote(p)
<1> DEFINE c == ActiveCase
           r == IF tasks[Case.trial].status = "failed"
                THEN [Case EXCEPT !.status = "candidate-building"] ELSE Shown(Case.trial)
<1>1. /\ UNCHANGED <<themeVars, session, tasks, sources, config, connection, todo>>
      /\ UNCHANGED <<scope, crashes, restores>> /\ cases' = [cases EXCEPT ![c] = r]
      /\ ~Idle(p) /\ Next1(p).file = "view" /\ ActiveCase # 0
  BY DEF Sync, Writes, talkVars, Beyond, Due, In, Case
<1>2. p = host
  BY <1>1, LateDue
<1>3. DataInv /\ RestPart
  BY PartsAre DEF WorkInv
<1>4. r \in CaseRecords /\ c \in CaseIds
  <2>1. Case \in CaseRecords /\ c \in CaseIds
    BY <1>1, <1>3, CaseIs
  <2>2. Case.trial \in 0..MaxTasks
    BY <2>1 DEF CaseRecords
  <2> QED
    BY <2>1, <2>2, CaseKeeps DEF Shown, Statuses, KeepsWhat
<1> HIDE DEF r, c
<1>5. cases' \in [CaseIds -> CaseRecords \cup {None}]
  BY <1>1, <1>3, <1>4 DEF RestPart, CasesOK
<1>6. RestPart'
  BY <1>1, <1>3, <1>5 DEF RestPart, CasesOK
<1>7. Left(host)
  <2>1. PICK ref : Fit(todo[host], versions, tasks, ref)
    BY DEF WorkInv, TodoInv
  <2>2. todo' = [todo EXCEPT ![host] = todo[host]] /\ UNCHANGED versions
    BY <1>1 DEF WorkInv, TodoInv, themeVars
  <2> QED
    BY <1>1, <2>1, <2>2 DEF Left, HostLeft, host, cli
<1> QED
  BY <1>1, <1>2, <1>6, <1>7, OtherOnly

\* A view saves the session it shows.
LEMMA ViewWritten ==
    ASSUME WorkInv, NEW p \in {host, cli}, ShowView(p), UNCHANGED Beyond
    PROVE  Wrote(p)
<1>1. /\ UNCHANGED <<themeVars, tasks, sources, config, connection, cases>>
      /\ UNCHANGED <<scope, crashes, restores>> /\ ~Idle(p) /\ Next1(p).file = "view"
      /\ \/ Goes(p) /\ session' = [Now EXCEPT !.case = ActiveCase]
         \/ Raises(p) /\ UNCHANGED session
  BY DEF ShowView, Writes, Beyond
<1>2. DataInv /\ RestPart
  BY PartsAre DEF WorkInv
<1>3. ActiveCase \in 0..MaxCases
  <2>1. session.case \in 0..MaxCases
    BY <1>2, DataFacts DEF Sessions
  <2> QED
    BY <2>1, ConversationAssumption DEF ActiveCase
<1>4. [Now EXCEPT !.case = ActiveCase] \in Sessions
  BY <1>2, <1>3, NowIs, SessionKeeps
<1> HIDE DEF Now, ActiveCase
<1>5. RestPart'
  BY <1>1, <1>2, <1>4 DEF RestPart, CasesOK
<1> QED
  BY <1>1, <1>5, OtherOnly

(***************************************************************************)
(* Calls, writes and crashes                                               *)
(***************************************************************************)

\* A call writes nothing yet.
LEMMA CallStep == WorkInv /\ (Calls \/ CliCalls) => WorkInv'
<1> SUFFICES ASSUME WorkInv, Calls \/ CliCalls PROVE WorkInv'
  OBVIOUS
<1>1. /\ UNCHANGED <<versions, index, bound, looks, legacy, scope, tasks>>
      /\ UNCHANGED <<session, sources, config, connection, cases, crashes, restores>>
      /\ Watch /\ UNCHANGED archive
  BY DEF Calls, CliCalls, Beside, workVars, themeVars, talkVars, CliThemes, CliTools
<1>2. DataInv /\ DataInv' /\ Forward
  BY <1>1, PartsAre, PartsMake, ThemeStays, TaskStays, RestStays, FilesStay DEF WorkInv
<1>3. CASE Calls
  <2>1. Asks
    BY <1>2, <1>3, TalkAsks, ImproveAsks DEF Calls
  <2>2. PICK ws : todo' = [todo EXCEPT ![host] = ws] /\ Fit(ws, versions, tasks, Binding)
    BY <2>1 DEF Asks, Fits
  <2>3. HostLeft
    BY <1>1, <2>2 DEF HostLeft
  <2>4. Left(host)
    BY <2>3 DEF Left, host, cli
  <2> QED
    BY <1>1, <1>2, <2>4, BesideStep
<1>4. CASE CliCalls
  <2>1. CliAsks
    BY <1>2, <1>4, CliThemesAsk, CliToolsAsk DEF CliCalls
  <2>2. CliLeft
    BY <1>1, <2>1 DEF CliAsks, CliLeft
  <2>3. Left(cli)
    BY <2>2 DEF Left, host, cli
  <2> QED
    BY <1>1, <1>2, <2>3, BesideStep
<1> QED
  BY <1>3, <1>4

\* Every write.
LEMMA WriteStep == ASSUME WorkInv, NEW p \in {host, cli}, WriteNext(p) PROVE WorkInv'
<1>1. Watch /\ UNCHANGED archive /\ UNCHANGED Beyond
  BY DEF WriteNext, Beside, Beyond
<1>2. Wrote(p)
  <2>1. CASE WriteTheme(p) /\ UNCHANGED <<talkVars, cases>>
    BY <1>1, <2>1, ThemeWritten
  <2>2. CASE WriteTalk(p) /\ UNCHANGED <<themeVars, cases>>
    BY <1>1, <2>2, TalkWritten
  <2>3. CASE WriteCase(p) /\ UNCHANGED <<themeVars, talkVars>>
    BY <1>1, <2>3, CaseWritten
  <2> QED
    BY <1>1, <2>1, <2>2, <2>3, SyncWritten, ViewWritten DEF WriteNext
<1> QED
  BY <1>1, <1>2, BesideStep DEF Wrote

\* A process dies between two writes.
LEMMA CrashStep == ASSUME WorkInv, NEW p \in Processes, Crash(p) PROVE WorkInv'
<1>1. /\ UNCHANGED <<versions, index, bound, looks, legacy, scope, tasks>>
      /\ UNCHANGED <<session, sources, config, connection, cases, restores>>
      /\ Watch /\ UNCHANGED archive /\ Raises(p)
      /\ crashes < MaxCrashes /\ crashes' = crashes + 1
  BY DEF Crash, workVars, themeVars, talkVars
<1>2. DataInv /\ RestPart
  BY PartsAre DEF WorkInv
<1>3. RestPart'
  <2>1. crashes' \in 0..MaxCrashes
    BY <1>1, <1>2, WorkspaceAssumption DEF RestPart
  <2> QED
    BY <1>1, <1>2, <2>1 DEF RestPart, CasesOK
<1>4. DataInv' /\ Forward
  BY <1>1, <1>2, <1>3, PartsAre, PartsMake, ThemeStays, TaskStays, FilesStay
<1>5. CASE p \in {host, cli}
  BY <1>1, <1>4, <1>5, RaisesLeft, BesideStep
<1>6. CASE p = operator
  <2>1. CopiesInv'
    BY <1>1, <1>4, CopiesBeside DEF WorkInv
  <2>2. todo' = [todo EXCEPT ![operator] = <<>>] /\ TodoInv
    BY <1>1, <1>6 DEF Raises, WorkInv
  <2>3. /\ todo' = [q \in Processes |-> todo'[q]] /\ todo'[operator] = <<>>
        /\ todo'[host] = todo[host] /\ todo'[cli] = todo[cli]
    BY <2>2 DEF TodoInv, Processes, host, cli, operator
  <2>4. RestoreFit(<<>>, Len(looks'), tasks')
    BY DEF RestoreFit
  <2>5. TodoInv'
    BY <1>1, <2>2, <2>3, <2>4 DEF TodoInv
  <2> QED
    BY <1>4, <2>1, <2>5 DEF WorkInv
<1> QED
  BY <1>5, <1>6 DEF Processes

(***************************************************************************)
(* Backups                                                                 *)
(***************************************************************************)

\* What a backup sees, category by category.
LEMMA SeenIs ==
    ASSUME NEW listed
    PROVE  LET s == Seen(Tree, listed) IN
           /\ s.themes.versions = [t \in Themes |-> [n \in 1..MaxVersions |->
                                     IF <<t, n>> \in listed.themes THEN versions[t][n] ELSE None]]
           /\ s.themes.index = [t \in Themes |-> IF <<t, 0>> \in listed.themes THEN index[t] ELSE 0]
           /\ s.conversation \in {bound["conversation"], None}
           /\ s.project \in {bound["project"], None}
           /\ s.session = session
           /\ s.runs = [id \in TaskIds |-> IF id \in listed.runs THEN tasks[id] ELSE None]
BY DEF Seen, Tree

\* What a backup sees are files as they were.
LEMMA SeenFits ==
    ASSUME DataInv, NEW listed, NEW n \in 0..MaxTasks, listed.runs = 1..n, 1..n \subseteq Made(tasks)
    PROVE  Snapshot(Seen(Tree, listed), Len(looks), tasks)
<1> DEFINE s == Seen(Tree, listed)
<1>1. /\ versions \in [Themes -> [1..MaxVersions -> (1..Len(looks)) \cup {None}]]
      /\ index \in [Themes -> 0..MaxVersions]
      /\ bound \in [Kinds -> Found(Len(looks)) \cup {None}] /\ session \in Sessions
      /\ tasks \in [TaskIds -> TaskRecords \cup {None}]
      /\ \A id \in TaskIds : tasks[id] # None => AsPlanned(tasks[id])
  BY DataFacts
<1>2. /\ s.themes.versions = [t \in Themes |-> [m \in 1..MaxVersions |->
                                 IF <<t, m>> \in listed.themes THEN versions[t][m] ELSE None]]
      /\ s.themes.index = [t \in Themes |-> IF <<t, 0>> \in listed.themes THEN index[t] ELSE 0]
      /\ s.conversation \in {bound["conversation"], None}
      /\ s.project \in {bound["project"], None} /\ s.session = session
      /\ s.runs = [id \in TaskIds |-> IF id \in listed.runs THEN tasks[id] ELSE None]
  BY SeenIs
<1> HIDE DEF s
<1>3. s.themes.versions \in Files(Len(looks))
  <2> DEFINE look(t, m) == IF <<t, m>> \in listed.themes THEN versions[t][m] ELSE None
  <2>1. ASSUME NEW t \in Themes, NEW m \in 1..MaxVersions
        PROVE  look(t, m) \in (1..Len(looks)) \cup {None}
    <3>1. versions[t] \in [1..MaxVersions -> (1..Len(looks)) \cup {None}]
      BY <1>1
    <3> QED
      BY <3>1
  <2>2. s.themes.versions = [t \in Themes |-> [m \in 1..MaxVersions |-> look(t, m)]]
    BY <1>2
  <2> HIDE DEF look
  <2> QED
    BY <2>1, <2>2 DEF Files
<1>4. s.themes.index \in [Themes -> 0..MaxVersions]
  BY <1>1, <1>2, ThemesAssumption
<1>5. /\ s.conversation \in Found(Len(looks)) \cup {None}
      /\ s.project \in Found(Len(looks)) \cup {None} /\ s.session \in Sessions
  BY <1>1, <1>2 DEF Kinds
<1>6. Kept(s.runs, tasks)
  BY <1>1, <1>2 DEF Kept
<1>7. Made(s.runs) = 1..n
  BY <1>2 DEF Made
<1> QED
  BY <1>3, <1>4, <1>5, <1>6, <1>7 DEF Snapshot, Numbered, s

\* A backup goes on while everything else is as it was.
LEMMA BackupOnly ==
    ASSUME WorkInv, UNCHANGED <<workVars, todo, scope, restores, crashes>>, CopiesInv'
    PROVE  WorkInv'
<1>1. /\ UNCHANGED <<versions, index, bound, looks, legacy, scope, tasks>>
      /\ UNCHANGED <<session, sources, config, connection, cases, crashes, restores, todo>>
  BY DEF workVars, themeVars, talkVars
<1>2. DataInv'
  BY <1>1, PartsAre, PartsMake, ThemeStays, TaskStays, RestStays DEF WorkInv
<1>3. TodoInv'
  BY <1>1 DEF WorkInv, TodoInv
<1> QED
  BY <1>2, <1>3 DEF WorkInv

\* Every step of a backup.
LEMMA BackupKeeps ==
    ASSUME WorkInv, BackupInv, ListFiles \/ HashGroup \/ ArchiveGroup \/ Publish \/ CutBackup
    PROVE  WorkInv'
<1>1. /\ UNCHANGED <<workVars, todo, scope, restores, crashes>> /\ UNCHANGED <<tasks, looks>>
  BY DEF ListFiles, HashGroup, ArchiveGroup, Publish, CutBackup, workVars, talkVars, themeVars
<1>2. CopiesInv /\ DataInv
  BY DEF WorkInv
<1>3. CASE ListFiles
  <2>1. /\ UNCHANGED archive
        /\ backup' = [phase |-> "hash", at |-> 1, listed |-> Listed, moment |-> None,
                      copy |-> [g \in GroupSet |-> None]]
    BY <1>3 DEF ListFiles
  <2>2. Listed.runs = Made(tasks)
    BY DEF Listed, Made
  <2> HIDE DEF Listed
  <2>3. backup'.phase = "hash" /\ backup'.listed.runs = Made(tasks)
    BY <2>1, <2>2
  <2>4. PICK n \in 0..MaxTasks : Made(tasks) = 1..n
    BY <1>2 DEF DataInv, Numbered
  <2>5. CopiesInv'
    BY <1>1, <1>2, <2>1, <2>3, <2>4 DEF CopiesInv, Making
  <2> QED
    BY <1>1, <2>5, BackupOnly
<1>4. CASE HashGroup
  <2> DEFINE now == Seen(Tree, backup.listed)
  <2>1. /\ backup'.listed = backup.listed /\ backup'.phase \in {"hash", "archive"}
        /\ backup'.phase = "archive" => backup'.moment = now
    BY <1>4, HashedIs
  <2>2. Making("hash") /\ UNCHANGED archive
    BY <1>4 DEF HashGroup
  <2>3. PICK n \in 0..MaxTasks : backup.listed.runs = 1..n /\ 1..n \subseteq Made(tasks)
    BY <1>2, <2>2 DEF CopiesInv
  <2>4. Snapshot(now, Len(looks), tasks)
    BY <1>2, <2>3, SeenFits
  <2> HIDE DEF now
  <2>5. CopiesInv'
    BY <1>1, <1>2, <2>1, <2>2, <2>3, <2>4 DEF CopiesInv, Making
  <2> QED
    BY <1>1, <2>5, BackupOnly
<1>5. CASE ArchiveGroup
  <2>1. Making("archive") /\ backup' = [backup EXCEPT !.at = @ + 1] /\ UNCHANGED archive
    BY <1>5 DEF ArchiveGroup
  <2>2. backup'.phase = "archive" /\ backup'.moment = backup.moment
    BY <2>1 DEF BackupInv, Archiving
  <2>3. CopiesInv'
    BY <1>1, <1>2, <2>1, <2>2 DEF CopiesInv, Making
  <2> QED
    BY <1>1, <2>3, BackupOnly
<1>6. CASE Publish
  <2>1. /\ backup' = None
        /\ \/ archive' = None
           \/ Making("archive") /\ archive' = [files |-> backup.copy, moment |-> backup.moment]
    BY <1>6 DEF Publish
  <2>2. CopiesInv'
    BY <1>1, <1>2, <2>1 DEF CopiesInv, Making, BackupInv, Archiving
  <2> QED
    BY <1>1, <2>2, BackupOnly
<1>7. CASE CutBackup
  <2>1. backup' = None /\ UNCHANGED archive
    BY <1>7 DEF CutBackup
  <2>2. CopiesInv'
    BY <1>1, <1>2, <2>1 DEF CopiesInv, Making
  <2> QED
    BY <1>1, <2>2, BackupOnly
<1> QED
  BY <1>3, <1>4, <1>5, <1>6, <1>7

(***************************************************************************)
(* Restores                                                                *)
(***************************************************************************)

\* The files that differ.
LEMMA DiffersIs ==
    ASSUME NEW S, NEW D, NEW f \in [D -> S], NEW g, None \in S
    PROVE  DifferingIn(f, g) \in [D -> S]
           /\ \A x \in D : DifferingIn(f, g)[x] # None => DifferingIn(f, g)[x] = f[x]
BY DEF DifferingIn, Differing

\* What a restore plans to write are files of the archive.
LEMMA PlannedIs ==
    ASSUME NEW k, NEW ts, archive # None, Snapshot(archive.files, k, ts), NEW g \in GroupSet
    PROVE  Restorable([file |-> "restore", group |-> g, to |-> PlannedFor(g)], k, ts)
<1> DEFINE f == archive.files
           w == [file |-> "restore", group |-> g, to |-> PlannedFor(g)]
<1>1. w.file = "restore" /\ w.group = g /\ w.to = PlannedFor(g)
  OBVIOUS
<1> HIDE DEF w
<1>2. CASE g = "themes"
  <2> DEFINE vs == [t \in Themes |-> DifferingIn(f.themes.versions[t], versions[t])]
             is == [t \in Themes |-> IF f.themes.index[t] = 0 THEN None
                                     ELSE Differing(f.themes.index[t], index[t])]
  <2>1. PlannedFor(g) = [versions |-> vs, index |-> is]
    BY <1>2 DEF PlannedFor, Tree
  <2>2. vs \in Files(k)
    <3>1. ASSUME NEW t \in Themes
          PROVE  DifferingIn(f.themes.versions[t], versions[t]) \in [1..MaxVersions -> (1..k) \cup {None}]
      <4>1. f.themes.versions[t] \in [1..MaxVersions -> (1..k) \cup {None}]
        BY DEF Snapshot, Files
      <4>2. None \in (1..k) \cup {None}
        OBVIOUS
      <4> QED
        BY <4>1, <4>2, DiffersIs
    <3> QED
      BY <3>1 DEF Files
  <2>3. is \in [Themes -> (0..MaxVersions) \cup {None}]
    <3>1. f.themes.index \in [Themes -> 0..MaxVersions]
      BY DEF Snapshot
    <3> QED
      BY <3>1 DEF Differing
  <2>4. PlannedFor(g).versions = vs /\ PlannedFor(g).index = is
    BY <2>1
  <2> HIDE DEF vs, is
  <2> QED
    BY <1>1, <1>2, <2>2, <2>3, <2>4 DEF Restorable, Kinds
<1>3. CASE g = "runs"
  <2>1. PlannedFor(g) = DifferingIn(f.runs, tasks)
    BY <1>3 DEF PlannedFor, Tree
  <2>2. Kept(f.runs, ts) /\ f.runs \in [TaskIds -> TaskRecords \cup {None}]
    BY DEF Snapshot, Kept
  <2> DEFINE d == DifferingIn(f.runs, tasks)
  <2>3. d \in [TaskIds -> TaskRecords \cup {None}] /\ \A id \in TaskIds : d[id] # None => d[id] = f.runs[id]
    <3>1. None \in TaskRecords \cup {None}
      OBVIOUS
    <3> QED
      BY <2>2, <3>1 DEF DifferingIn, Differing
  <2> HIDE DEF d
  <2>4. Kept(d, ts)
    BY <2>2, <2>3 DEF Kept
  <2> QED
    BY <1>1, <1>3, <2>1, <2>4 DEF Restorable, Kinds, d
<1>4. CASE g \in {"conversation", "project", "session"}
  <2>1. PlannedFor(g) = Differing(f[g], Tree[g])
    BY <1>4 DEF PlannedFor
  <2>2. PlannedFor(g) \in {f[g], None}
    BY <2>1 DEF Differing
  <2>3. CASE g = "session"
    <3>1. PlannedFor(g) \in Sessions \cup {None}
      BY <2>2, <2>3 DEF Snapshot
    <3> QED
      BY <1>1, <2>3, <3>1 DEF Restorable, Kinds
  <2>4. CASE g \in {"conversation", "project"}
    <3>1. PlannedFor(g) \in Found(k) \cup {None}
      BY <2>2, <2>4 DEF Snapshot
    <3> QED
      BY <1>1, <2>4, <3>1 DEF Restorable
  <2> QED
    BY <1>4, <2>3, <2>4
<1> QED
  BY <1>2, <1>3, <1>4, FiveGroups DEF w

\* A restore is planned.
LEMMA PlanRestores == WorkInv /\ Restore => WorkInv'
<1> SUFFICES ASSUME WorkInv, Restore PROVE WorkInv'
  OBVIOUS
<1> DEFINE w(i) == [file |-> "restore", group |-> Groups[i], to |-> PlannedFor(Groups[i])]
           ws == [i \in 1..5 |-> w(i)]
<1>1. /\ archive # None /\ restores < MaxRestores /\ restores' = restores + 1
      /\ UNCHANGED <<versions, index, bound, looks, legacy, scope, tasks>>
      /\ UNCHANGED <<session, sources, config, connection, cases, crashes, archive, backup>>
  BY DEF Restore, CanRestore, workVars, themeVars, talkVars
<1>2. todo' = [todo EXCEPT ![operator] = ws]
  BY FiveGroups DEF Restore, Call
<1>3. DataInv /\ RestPart /\ TodoInv /\ CopiesInv
  BY PartsAre DEF WorkInv
<1>4. DataInv'
  <2>1. restores' \in 0..MaxRestores
    BY <1>1, <1>3, WorkspaceAssumption DEF RestPart
  <2>2. RestPart'
    BY <1>1, <1>3, <2>1 DEF RestPart, CasesOK
  <2> QED
    BY <1>1, <1>3, <2>2, PartsAre, PartsMake, ThemeStays, TaskStays
<1>5. \A i \in 1..5 : Restorable(w(i), Len(looks), tasks)
  BY <1>1, <1>3, PlannedIs, FiveGroups DEF CopiesInv
<1>6. RestoreFit(ws, Len(looks), tasks)
  <2> DEFINE S == {w(i) : i \in 1..5}
  <2>1. \A i \in 1..5 : w(i) \in S
    OBVIOUS
  <2> HIDE DEF w, S
  <2>2. ws \in Seq(S) /\ Len(ws) = 5
    BY <2>1
  <2> QED
    BY <1>5, <2>2 DEF RestoreFit
<1> HIDE DEF ws
<1>7. /\ todo' = [q \in Processes |-> todo'[q]] /\ todo'[operator] = ws
      /\ todo'[host] = todo[host] /\ todo'[cli] = todo[cli]
  BY <1>2, <1>3 DEF TodoInv, Processes, host, cli, operator
<1>8. TodoInv'
  BY <1>1, <1>3, <1>6, <1>7 DEF TodoInv
<1>9. CopiesInv'
  BY <1>1, <1>3 DEF CopiesInv, Making
<1> QED
  BY <1>4, <1>8, <1>9 DEF WorkInv

\* A category is written over: whatever is there stays or is replaced by what it once was.
LEMMA GroupRestores == WorkInv /\ BackupInv /\ RestoreGroup => WorkInv'
<1> SUFFICES ASSUME WorkInv, BackupInv, RestoreGroup PROVE WorkInv'
  OBVIOUS
<1> DEFINE w == Next1(operator)
           k == Len(looks)
<1>1. /\ ~Idle(operator) /\ Goes(operator)
      /\ IF w.group = "themes"
         THEN /\ versions' = [t \in Themes |-> Over(w.to.versions[t], versions[t])]
              /\ index' = Over(w.to.index, index)
         ELSE UNCHANGED <<versions, index>>
      /\ bound' = IF w.group \in Kinds /\ w.to # None THEN [bound EXCEPT ![w.group] = w.to] ELSE bound
      /\ session' = IF w.group = "session" /\ w.to # None THEN w.to ELSE session
      /\ tasks' = IF w.group = "runs" THEN Over(w.to, tasks) ELSE tasks
      /\ UNCHANGED <<looks, legacy, sources, config, connection, cases>>
      /\ UNCHANGED <<scope, archive, backup, restores, crashes>>
  BY DEF RestoreGroup, Writes
<1>2. DataInv /\ ThemePart /\ TaskPart /\ RestPart /\ TodoInv
  BY PartsAre DEF WorkInv
<1>3. todo[operator] # <<>> /\ RestoreFit(todo[operator], k, tasks)
  BY <1>1, <1>2 DEF Idle, TodoInv
<1>4. PICK S : todo[operator] \in Seq(S)
  BY <1>3 DEF RestoreFit
<1>5. /\ Head(todo[operator]) = todo[operator][1] /\ 1 \in 1..Len(todo[operator])
      /\ Tail(todo[operator]) \in Seq(S)
      /\ Len(Tail(todo[operator])) = Len(todo[operator]) - 1 /\ Len(todo[operator]) \in Nat
      /\ \A i \in 1..(Len(todo[operator]) - 1) : Tail(todo[operator])[i] = todo[operator][i + 1]
  BY <1>3, <1>4, WriteLeft
<1>6. Restorable(w, k, tasks)
  BY <1>3, <1>5 DEF RestoreFit, Next1
<1>7. RestoreFit(Tail(todo[operator]), k, tasks)
  <2>1. ASSUME NEW i \in 1..Len(Tail(todo[operator]))
        PROVE  Restorable(Tail(todo[operator])[i], k, tasks)
    <3>1. i \in 1..(Len(todo[operator]) - 1) /\ i + 1 \in 1..Len(todo[operator])
      BY <1>5
    <3> QED
      BY <1>3, <1>5, <3>1 DEF RestoreFit
  <2> QED
    BY <1>5, <2>1 DEF RestoreFit
<1>0. /\ versions \in [Themes -> [1..MaxVersions -> (1..k) \cup {None}]]
      /\ index \in [Themes -> 0..MaxVersions] /\ bound \in [Kinds -> Found(k) \cup {None}]
      /\ looks \in Seq(SUBSET Sources) /\ k \in Nat /\ k <= MaxLooks
      /\ tasks \in [TaskIds -> TaskRecords \cup {None}]
      /\ \A id \in TaskIds : tasks[id] # None => AsPlanned(tasks[id])
  BY <1>2, DataFacts
<1> HIDE DEF w, k
<1>8. /\ versions' \in [Themes -> [1..MaxVersions -> (1..k) \cup {None}]]
      /\ index' \in [Themes -> 0..MaxVersions]
      /\ \A t \in Themes, n \in 1..MaxVersions : versions[t][n] # None => versions'[t][n] # None
  <2>1. CASE w.group # "themes"
    BY <1>1, <1>0, <2>1
  <2>2. CASE w.group = "themes"
    <3>1. w.to.versions \in Files(k) /\ w.to.index \in [Themes -> (0..MaxVersions) \cup {None}]
      BY <1>6, <2>2 DEF Restorable
    <3>2. index' \in [Themes -> 0..MaxVersions]
      <4>1. /\ DOMAIN w.to.index = Themes
            /\ \A t \in Themes : w.to.index[t] = None \/ w.to.index[t] \in 0..MaxVersions
        BY <3>1
      <4> QED
        BY <1>1, <1>0, <2>2, <4>1 DEF Over
    <3> DEFINE P == (1..k) \cup {None}
    <3>3. ASSUME NEW t \in Themes
          PROVE  /\ Over(w.to.versions[t], versions[t]) \in [1..MaxVersions -> P]
                 /\ \A n \in 1..MaxVersions :
                       versions[t][n] # None => Over(w.to.versions[t], versions[t])[n] # None
      <4>1. w.to.versions[t] \in [1..MaxVersions -> P] /\ versions[t] \in [1..MaxVersions -> P]
        BY <1>0, <3>1 DEF Files
      <4> HIDE DEF P
      <4>2. /\ DOMAIN w.to.versions[t] = 1..MaxVersions
            /\ \A n \in 1..MaxVersions :
                  w.to.versions[t][n] = None \/ w.to.versions[t][n] \in P
        BY <4>1
      <4>3. /\ Over(w.to.versions[t], versions[t]) \in [1..MaxVersions -> P]
            /\ \A n \in 1..MaxVersions : Over(w.to.versions[t], versions[t])[n] =
                  IF w.to.versions[t][n] = None THEN versions[t][n] ELSE w.to.versions[t][n]
        BY <4>1, <4>2 DEF Over
      <4> QED
        BY <4>3
    <3>4. versions' = [t \in Themes |-> Over(w.to.versions[t], versions[t])]
      BY <1>1, <2>2
    <3> QED
      BY <3>2, <3>3, <3>4
  <2> QED
    BY <2>1, <2>2
<1>9. bound' \in [Kinds -> Found(k) \cup {None}]
  <2>1. w.group \in Kinds /\ w.to # None => w.to \in Found(k)
    BY <1>6 DEF Restorable
  <2> QED
    BY <1>1, <1>0, <2>1
<1>10. session' \in Sessions
  <2>1. w.group = "session" /\ w.to # None => w.to \in Sessions
    BY <1>6 DEF Restorable
  <2> QED
    BY <1>1, <1>2, <2>1 DEF RestPart
<1>11. /\ tasks' \in [TaskIds -> TaskRecords \cup {None}]
       /\ \A id \in TaskIds : tasks'[id] # None => tasks[id] # None /\ AsPlanned(tasks'[id])
       /\ \A id \in TaskIds : tasks[id] # None => tasks'[id] # None /\ tasks'[id].ref = tasks[id].ref
  <2>1. CASE w.group # "runs"
    BY <1>1, <1>0, <2>1
  <2>2. CASE w.group = "runs"
    <3>1. Kept(w.to, tasks)
      BY <1>6, <2>2 DEF Restorable
    <3>2. w.to \in [TaskIds -> TaskRecords \cup {None}]
      BY <3>1 DEF Kept
    <3>3. /\ DOMAIN w.to = TaskIds
          /\ \A id \in TaskIds : w.to[id] = None \/ w.to[id] \in TaskRecords \cup {None}
      BY <3>2
    <3>4. tasks' = Over(w.to, tasks)
      BY <1>1, <2>2
    <3>5. /\ tasks' \in [TaskIds -> TaskRecords \cup {None}]
          /\ \A id \in TaskIds : tasks'[id] = IF w.to[id] = None THEN tasks[id] ELSE w.to[id]
      BY <1>0, <3>3, <3>4 DEF Over
    <3> QED
      BY <1>0, <3>1, <3>5 DEF Kept
  <2> QED
    BY <2>1, <2>2
<1>12. Forward /\ \A ref : Grown(tasks, tasks', ref)
  <2>1. Made(tasks') = Made(tasks)
    BY <1>11 DEF Made
  <2>2. k <= k
    BY <1>0
  <2> QED
    BY <1>1, <1>8, <1>11, <1>0, <2>1, <2>2 DEF Forward, Onward, Grown, k
<1>13. ThemePart'
  <2>1. Found(k) \subseteq Refs
    BY <1>0 DEF Found, Refs
  <2>2. bound' \in [Kinds -> Refs \cup {None}]
    BY <1>9, <2>1
  <2> QED
    BY <1>1, <1>2, <1>8, <1>9, <2>2 DEF ThemePart, ThemesOK, k
<1>14. TaskPart'
  <2>1. Made(tasks') = Made(tasks)
    BY <1>11 DEF Made
  <2> QED
    BY <1>2, <1>11, <2>1 DEF TaskPart, Numbered, ThemeAsPlanned, AsPlanned
<1>15. RestPart'
  BY <1>1, <1>2, <1>10 DEF RestPart, CasesOK
<1>16. DataInv'
  BY <1>13, <1>14, <1>15, PartsMake
<1>17. CopiesInv'
  <2>1. backup = None
    BY <1>1 DEF BackupInv, Held
  <2>2. Watch
    BY <1>1, <2>1 DEF Watch, Making
  <2> QED
    BY <1>1, <1>12, <2>2, CopiesBeside DEF WorkInv
<1>18. TodoInv'
  <2>1. /\ todo' = [q \in Processes |-> todo'[q]] /\ todo'[operator] = Tail(todo[operator])
        /\ todo'[host] = todo[host] /\ todo'[cli] = todo[cli]
    BY <1>1, <1>2 DEF Goes, TodoInv, Processes, host, cli, operator
  <2>2. PICK ref : Fit(todo[host], versions, tasks, ref)
    BY <1>2 DEF TodoInv
  <2>3. Fit(todo[host], versions', tasks', ref)
    BY <1>12, <2>2, FitOnward DEF Forward
  <2>4. CliFit(todo[cli], versions')
    BY <1>2, <1>12, CliOnward DEF TodoInv, Forward
  <2>5. RestoreFit(Tail(todo[operator]), Len(looks'), tasks')
    BY <1>7, <1>12, RestoreOnward DEF Forward, k
  <2> QED
    BY <2>1, <2>3, <2>4, <2>5 DEF TodoInv
<1> QED
  BY <1>16, <1>17, <1>18 DEF WorkInv

\* Another data root: it has what the archive has, and nothing is left of a call.
LEMMA ElsewhereRestores == WorkInv /\ RestoreElsewhere => WorkInv'
<1> SUFFICES ASSUME WorkInv, RestoreElsewhere PROVE WorkInv'
  OBVIOUS
<1> DEFINE f == archive.files
           k == Len(looks)
<1>1. /\ archive # None /\ backup = None /\ restores < MaxRestores /\ restores' = restores + 1
      /\ \A p \in Processes : Idle(p)
      /\ versions' = f.themes.versions /\ index' = f.themes.index
      /\ bound' = [g \in Kinds |-> f[g]] /\ session' = f.session /\ tasks' = f.runs
      /\ sources' = [s \in Sources |-> "none"] /\ cases' = [c \in CaseIds |-> None]
      /\ UNCHANGED <<looks, legacy, config, connection, todo, scope, archive, backup, crashes>>
  BY DEF RestoreElsewhere, CanRestore
<1>2. Snapshot(f, k, tasks) /\ DataInv /\ ThemePart /\ RestPart /\ TodoInv
  BY <1>1, PartsAre DEF WorkInv, CopiesInv
<1>3. /\ Kept(f.runs, f.runs) /\ Numbered(f.runs) /\ f.runs \in [TaskIds -> TaskRecords \cup {None}]
      /\ \A id \in TaskIds : f.runs[id] # None => AsPlanned(f.runs[id])
  BY <1>2 DEF Snapshot, Kept
<1>4. Snapshot(f, k, tasks')
  BY <1>1, <1>2, <1>3 DEF Snapshot
<1>5. TaskPart'
  BY <1>1, <1>3 DEF TaskPart, ThemeAsPlanned, AsPlanned
<1>6. ThemePart'
  <2>1. bound' \in [Kinds -> Found(k) \cup {None}]
    BY <1>1, <1>2 DEF Snapshot, Kinds
  <2>2. Found(k) \subseteq Refs
    BY <1>2, DataFacts DEF Found, Refs
  <2>3. bound' \in [Kinds -> Refs \cup {None}]
    BY <2>1, <2>2
  <2>4. versions' \in Files(k) /\ index' \in [Themes -> 0..MaxVersions]
    BY <1>1, <1>2 DEF Snapshot
  <2> HIDE DEF f
  <2> QED
    BY <1>1, <1>2, <2>1, <2>3, <2>4 DEF ThemePart, ThemesOK, Files
<1>7. RestPart'
  <2>1. restores' \in 0..MaxRestores
    BY <1>1, <1>2, WorkspaceAssumption DEF RestPart
  <2>2. session' \in Sessions
    BY <1>1, <1>2 DEF Snapshot
  <2>3. /\ sources' \in [Sources -> {"none", "file", "registered"}]
        /\ cases' \in [CaseIds -> CaseRecords \cup {None}]
    BY <1>1
  <2> HIDE DEF f
  <2> QED
    BY <1>1, <1>2, <2>1, <2>2, <2>3 DEF RestPart, CasesOK
<1>8. DataInv'
  BY <1>5, <1>6, <1>7, PartsMake
<1>9. CopiesInv'
  BY <1>1, <1>4 DEF CopiesInv, Making
<1>10. TodoInv'
  <2>1. todo[host] = <<>> /\ todo[cli] = <<>> /\ todo[operator] = <<>>
    BY <1>1 DEF Idle, Processes
  <2>2. RestoreFit(<<>>, Len(looks'), tasks')
    BY DEF RestoreFit
  <2>3. \A ref : Fit(<<>>, versions', tasks', ref) /\ CliFit(<<>>, versions')
    BY NoWriteFits
  <2> QED
    BY <1>1, <1>2, <2>1, <2>2, <2>3 DEF TodoInv
<1> QED
  BY <1>8, <1>9, <1>10 DEF WorkInv

(***************************************************************************)
(* The theorems                                                            *)
(***************************************************************************)

\* The themes at first.
LEMMA ThemesInit == Init => ThemePart
<1> SUFFICES ASSUME Init PROVE ThemePart
  OBVIOUS
<1>1. scope \in Scopes /\ InitThemes /\ MaxVersions \in Nat \ {0} /\ MaxLooks \in Nat \ {0}
  BY ThemesAssumption DEF Init
<1>2. PICK t \in Themes :
       \/ /\ versions = [u \in Themes |-> [n \in 1..MaxVersions |-> IF u = t /\ n = 1 THEN 1 ELSE None]]
          /\ index = [u \in Themes |-> IF u = t THEN 1 ELSE 0]
          /\ looks = <<{}>>
          /\ legacy = FALSE
          /\ bound \in {[k \in Kinds |-> None],
                        [k \in Kinds |-> IF k = "conversation" THEN Ref(t, 1) ELSE None]}
       \/ /\ legacy = On("cli")
          /\ versions = [u \in Themes |-> [n \in 1..MaxVersions |-> None]]
          /\ index = [u \in Themes |-> 0] /\ looks = <<>>
          /\ bound = [k \in Kinds |-> None]
  BY <1>1 DEF InitThemes
<1>3. CASE versions = [u \in Themes |-> [n \in 1..MaxVersions |-> None]] /\ looks = <<>>
           /\ index = [u \in Themes |-> 0] /\ bound = [k \in Kinds |-> None] /\ legacy = On("cli")
  <2>1. Len(looks) = 0 /\ looks \in Seq(SUBSET Sources)
    BY <1>3
  <2> QED
    BY <1>1, <1>3, <2>1 DEF ThemePart, ThemesOK, On
<1>4. CASE /\ versions = [u \in Themes |-> [n \in 1..MaxVersions |-> IF u = t /\ n = 1 THEN 1 ELSE None]]
           /\ index = [u \in Themes |-> IF u = t THEN 1 ELSE 0] /\ looks = <<{}>> /\ legacy = FALSE
           /\ bound \in {[k \in Kinds |-> None],
                         [k \in Kinds |-> IF k = "conversation" THEN Ref(t, 1) ELSE None]}
  <2>1. Len(looks) = 1 /\ looks \in Seq(SUBSET Sources) /\ 1 <= MaxLooks
    BY <1>1, <1>4
  <2>2. versions[t][1] = 1 /\ 1 \in 1..MaxVersions /\ 1 \in 1..1 /\ 1 \in Nat \ {0}
    BY <1>1, <1>4
  <2>3. Ref(t, 1) \in Found(1) /\ Ref(t, 1) \in Refs
    BY <2>2 DEF Ref, Found, Refs
  <2>4. bound \in [Kinds -> Found(1) \cup {None}] /\ bound \in [Kinds -> Refs \cup {None}]
    BY <1>4, <2>3
  <2>5. versions \in [Themes -> [1..MaxVersions -> (1..1) \cup {None}]]
    BY <1>4, <2>2
  <2>6. index \in [Themes -> 0..MaxVersions]
    BY <1>1, <1>4
  <2> QED
    BY <1>1, <1>4, <2>1, <2>4, <2>5, <2>6 DEF ThemePart, ThemesOK
<1> QED
  BY <1>2, <1>3, <1>4

\* Everything at first.
LEMMA WorkInit == Init => WorkInv
<1> SUFFICES ASSUME Init PROVE WorkInv
  OBVIOUS
<1>1. /\ session = NewSession /\ tasks = [id \in TaskIds |-> None]
      /\ sources = [s \in Sources |-> "none"] /\ connection = "none"
      /\ config = [at \in Configs |-> IF at = "project" /\ ~On("tools")
                                       THEN CHOOSE tool \in Tools \ Candidates : TRUE ELSE None]
      /\ cases = [c \in CaseIds |-> None] /\ todo = [p \in Processes |-> <<>>]
      /\ archive = None /\ backup = None /\ restores = 0 /\ crashes = 0
  BY DEF Init, InitTalk
<1>2. TaskPart
  <2>1. Made(tasks) = {}
    BY <1>1 DEF Made
  <2>2. Made(tasks) = 1..0 /\ 0 \in 0..MaxTasks
    BY <2>1, ConversationAssumption
  <2>3. Numbered(tasks)
    BY <2>2 DEF Numbered
  <2> QED
    BY <1>1, <2>3 DEF TaskPart, ThemeAsPlanned
<1>3. RestPart
  <2>1. (CHOOSE tool \in Tools \ Candidates : TRUE) \in Tools
    BY ConversationAssumption
  <2>2. config \in [Configs -> Tools \cup {None}]
    BY <1>1, <2>1
  <2>3. session \in Sessions
    BY <1>1, ConversationAssumption DEF NewSession, Sessions
  <2> QED
    BY <1>1, <2>2, <2>3, WorkspaceAssumption DEF RestPart, CasesOK
<1>4. DataInv
  BY <1>2, <1>3, PartsAre, ThemesInit
<1>5. TodoInv
  <2>1. todo[host] = <<>> /\ todo[cli] = <<>> /\ todo[operator] = <<>>
    BY <1>1 DEF Processes
  <2>2. RestoreFit(<<>>, Len(looks), tasks)
    BY DEF RestoreFit
  <2> QED
    BY <1>1, <2>1, <2>2, NoWriteFits DEF TodoInv
<1>6. CopiesInv
  BY <1>1 DEF CopiesInv, Making
<1> QED
  BY <1>4, <1>5, <1>6 DEF WorkInv

\* Every step keeps it.
LEMMA WorkStep == WorkInv /\ BackupInv /\ [Next]_vars => WorkInv'
<1> SUFFICES ASSUME WorkInv, BackupInv, [Next]_vars PROVE WorkInv'
  OBVIOUS
<1>1. CASE Calls \/ CliCalls
  BY <1>1, CallStep
<1>2. ASSUME NEW p \in {host, cli}, WriteNext(p) PROVE WorkInv'
  BY <1>2, WriteStep
<1>3. ASSUME NEW p \in Processes, Crash(p) PROVE WorkInv'
  BY <1>3, CrashStep
<1>4. CASE ListFiles \/ HashGroup \/ ArchiveGroup \/ Publish \/ CutBackup
  BY <1>4, BackupKeeps
<1>5. CASE Restore \/ RestoreGroup \/ RestoreElsewhere
  BY <1>5, PlanRestores, GroupRestores, ElsewhereRestores
<1>6. CASE UNCHANGED vars
  <2>1. /\ UNCHANGED <<workVars, todo, scope, restores, crashes>>
        /\ UNCHANGED <<tasks, looks, archive, backup>>
    BY <1>6 DEF vars, workVars, themeVars, talkVars
  <2>2. CopiesInv'
    BY <2>1 DEF WorkInv, CopiesInv, Making
  <2> QED
    BY <2>1, <2>2, BackupOnly
<1> QED
  BY <1>1, <1>2, <1>3, <1>4, <1>5, <1>6 DEF Next

\* Everything keeps its type, whatever is asked, cut short or restored
\* (store.py, conversation_workflow.py, theme_store.py, private_backup.py).
THEOREM TypeCorrect == Spec => []TypeOK
<1>1. Init => WorkInv /\ BackupInv
  BY WorkInit, BackupInit
<1>2. WorkInv /\ BackupInv /\ [Next]_vars => (WorkInv /\ BackupInv)'
  BY WorkStep, BackupStep
<1>3. WorkInv => TypeOK
  BY DEF WorkInv, DataInv
<1> QED BY <1>1, <1>2, <1>3, PTL DEF Spec

\* A task is worked on with the theme it was planned with and no other, for
\* every number of themes, versions, tasks, crashes and restores: what a
\* derivation or a restore put in its place is refused before the task is
\* saved (store.py _rehydrate_theme, pipeline.py, private_backup.py restore).
THEOREM ThemesAsPlanned == Spec => []ThemeAsPlanned
<1>1. Init => WorkInv /\ BackupInv
  BY WorkInit, BackupInit
<1>2. WorkInv /\ BackupInv /\ [Next]_vars => (WorkInv /\ BackupInv)'
  BY WorkStep, BackupStep
<1>3. WorkInv => ThemeAsPlanned
  BY DEF WorkInv, DataInv
<1> QED BY <1>1, <1>2, <1>3, PTL DEF Spec

(***************************************************************************)
(* Nothing is used outside its trials before it is adopted                 *)
(***************************************************************************)

\* A tool of a case is in the files once the case says that it was adopted, or the
\* next write says it, and what is left of the call keeps to that.
Calm(cf, ts, cs, ws) ==
    /\ InOrder(cs)
    /\ InFiles(cf, ts) => Durable(cs) \/ (ws # <<>> /\ IsApplied(Head(ws)))
    /\ Owes(ws, cs)

Unbroken == crashes = 0 /\ restores = 0
CalmInv == Unbroken => Idle(operator) /\ Calm(config, tasks, cases, todo[host])

\* Writes of no case that bring in no tool.
Mild(s, cf, ts) ==
    \A i \in 1..Len(s) : s[i].file # "case" /\ (Foreign(s[i]) => InFiles(cf, ts))

\* A case that is saved.
Saved(cs, w) == [cs EXCEPT ![w.id] = w.to]

\* The cases that there are, when one is saved.
LEMMA SavedCases ==
    ASSUME NEW cs \in [CaseIds -> CaseRecords \cup {None}], InOrder(cs), NEW w,
           w.id \in CaseIds, w.to \in CaseRecords,
           cs[w.id] # None \/ w.id = 1 + Cardinality(Opened(cs))
    PROVE  /\ InOrder(Saved(cs, w)) /\ Saved(cs, w)[w.id] = w.to /\ w.to # None
           /\ \A c \in CaseIds : c # w.id => Saved(cs, w)[c] = cs[c]
           /\ cs[w.id] # None => Opened(Saved(cs, w)) = Opened(cs)
<1> DEFINE ct == Saved(cs, w)
<1>1. /\ ct[w.id] = w.to /\ w.to # None
      /\ \A c \in CaseIds : c # w.id => ct[c] = cs[c]
  BY CasesAssumption DEF Saved
<1> HIDE DEF ct
<1>2. Opened(ct) = Opened(cs) \cup {w.id}
  BY <1>1 DEF Opened
<1>3. PICK n \in 0..MaxCases : Opened(cs) = 1..n
  BY DEF InOrder
<1>4. n \in Nat /\ MaxCases \in Nat /\ CaseIds = 1..MaxCases
  BY <1>3, ConversationAssumption DEF CaseIds
<1>5. CASE cs[w.id] # None
  <2>1. Opened(ct) = Opened(cs)
    BY <1>2, <1>5 DEF Opened
  <2> QED
    BY <1>1, <1>3, <2>1 DEF InOrder, ct
<1>6. CASE cs[w.id] = None
  <2>1. Cardinality(1..n) = n
    BY <1>4, FS_Interval
  <2>2. w.id = n + 1
    BY <1>3, <1>4, <1>6, <2>1
  <2>3. Opened(ct) = 1..(n + 1) /\ n + 1 \in 0..MaxCases
    BY <1>2, <1>3, <1>4, <2>2
  <2> QED
    BY <1>1, <1>6, <2>3 DEF InOrder, ct
<1> QED
  BY <1>5, <1>6

\* The first write is done, the rest is left.
LEMMA TailIsCalm ==
    ASSUME NEW cf, NEW ts, NEW cs \in [CaseIds -> CaseRecords \cup {None}],
           NEW ws \in Seq(HostWrites), ws # <<>>, Calm(cf, ts, cs, ws), NEW cg, NEW tt,
           InFiles(cg, tt) => InFiles(cf, ts) \/ Foreign(Head(ws))
    PROVE  /\ Head(ws).file # "case" => Calm(cg, tt, cs, Tail(ws))
           /\ Head(ws).file = "case" => Calm(cg, tt, Saved(cs, Head(ws)), Tail(ws))
<1> DEFINE w == Head(ws)
           u == Tail(ws)
<1>1. /\ w \in HostWrites /\ u \in Seq(HostWrites) /\ Len(u) = Len(ws) - 1 /\ w = ws[1]
      /\ Len(ws) \in Nat \ {0} /\ \A i \in 1..(Len(ws) - 1) : u[i] = ws[i + 1]
  BY WriteLeft
<1>2. Len(u) \in Nat /\ \A i \in 1..Len(u) : i + 1 \in 1..Len(ws) /\ u[i] = ws[i + 1]
  BY <1>1
<1> HIDE DEF w, u
<1>3. 1 < Len(ws) => u # <<>> /\ Head(u) = ws[2]
  <2>1. SUFFICES ASSUME 1 < Len(ws) PROVE u # <<>> /\ Head(u) = ws[2]
    OBVIOUS
  <2>2. Len(u) # 0 /\ 1 \in 1..Len(u) /\ u[1] = ws[1 + 1]
    BY <1>1, <1>2, <2>1
  <2>3. u # <<>>
    BY <2>2
  <2>4. Head(u) = u[1]
    BY <1>1, <2>3, WriteLeft
  <2> QED
    BY <2>2, <2>3, <2>4
<1>4. PICK ap : Knows(cs, ap) /\ Owed(ws, cs, ap)
  BY DEF Calm, Owes
<1>5. 1 \in 1..Len(ws)
  BY <1>1
<1>6. ASSUME w.file # "case" PROVE Calm(cg, tt, cs, u)
  <2>1. ~IsApplied(w)
    BY <1>6 DEF IsApplied
  <2>2. InFiles(cg, tt) => Durable(cs) \/ (u # <<>> /\ IsApplied(Head(u)))
    <3>1. CASE InFiles(cf, ts)
      BY <2>1, <3>1 DEF Calm, w
    <3>2. CASE Foreign(w)
      <4>1. Durable(cs) \/ (1 < Len(ws) /\ IsApplied(ws[1 + 1]))
        BY <1>1, <1>4, <1>5, <3>2 DEF Owed
      <4> QED
        BY <1>3, <4>1
    <3> QED
      BY <3>1, <3>2 DEF w
  <2>3. Owed(u, cs, ap)
    <3> SUFFICES ASSUME NEW i \in 1..Len(u)
                 PROVE  /\ Foreign(u[i]) => Durable(cs) \/ (i < Len(u) /\ IsApplied(u[i + 1]))
                        /\ u[i].file = "case" =>
                              /\ u[i].to.applied = ap[u[i].id]
                              /\ cs[u[i].id] # None \/ u[i].id = 1 + Cardinality(Opened(cs))
      BY DEF Owed
    <3>1. i + 1 \in 1..Len(ws) /\ u[i] = ws[i + 1]
      BY <1>2
    <3>2. i + 1 < Len(ws) => i < Len(u) /\ u[i + 1] = ws[(i + 1) + 1]
      BY <1>1, <1>2
    <3> QED
      BY <1>4, <3>1, <3>2 DEF Owed
  <2> QED
    BY <1>4, <2>2, <2>3 DEF Calm, Owes
<1>7. ASSUME w.file = "case" PROVE Calm(cg, tt, Saved(cs, w), u)
  <2> DEFINE ct == Saved(cs, w)
  <2>1. w.id \in CaseIds /\ w.to \in CaseRecords /\ ~Foreign(w)
    BY <1>1, <1>7, HostWriteIs DEF Foreign
  <2>2. w.to.applied = ap[w.id] /\ (cs[w.id] # None \/ w.id = 1 + Cardinality(Opened(cs)))
    BY <1>1, <1>4, <1>5, <1>7 DEF Owed
  <2>3. /\ InOrder(ct) /\ ct[w.id] = w.to /\ w.to # None
        /\ \A c \in CaseIds : c # w.id => ct[c] = cs[c]
        /\ cs[w.id] # None => Opened(ct) = Opened(cs)
    BY <2>1, <2>2, SavedCases DEF Calm
  <2> HIDE DEF ct
  <2>4. Durable(cs) \/ IsApplied(w) => Durable(ct)
    <3>1. IsApplied(w) => Durable(ct)
      BY <2>1, <2>3 DEF Durable, IsApplied
    <3>2. ASSUME NEW c \in CaseIds, cs[c] # None, cs[c].applied PROVE Durable(ct)
      <4>1. ap[c]
        BY <1>4, <3>2 DEF Knows
      <4>2. CASE c = w.id
        <5>1. w.to.applied
          BY <2>2, <4>1, <4>2
        <5> QED
          BY <2>1, <2>3, <5>1 DEF Durable
      <4>3. CASE c # w.id
        BY <2>3, <3>2, <4>3 DEF Durable
      <4> QED
        BY <4>2, <4>3
    <3> QED
      BY <3>1, <3>2 DEF Durable
  <2>5. InFiles(cg, tt) => Durable(ct)
    BY <2>1, <2>4 DEF Calm, w
  <2>6. Knows(ct, ap)
    <3> SUFFICES ASSUME NEW c \in CaseIds, ct[c] # None, ct[c].applied PROVE ap[c]
      BY DEF Knows
    <3>1. CASE c = w.id
      BY <2>2, <2>3, <3>1
    <3>2. CASE c # w.id
      BY <1>4, <2>3, <3>2 DEF Knows
    <3> QED
      BY <3>1, <3>2
  <2>7. \A c : cs[c] # None /\ c \in CaseIds => ct[c] # None
    BY <2>3
  <2>8. Owed(u, ct, ap)
    <3> SUFFICES ASSUME NEW i \in 1..Len(u)
                 PROVE  /\ Foreign(u[i]) => Durable(ct) \/ (i < Len(u) /\ IsApplied(u[i + 1]))
                        /\ u[i].file = "case" =>
                              /\ u[i].to.applied = ap[u[i].id]
                              /\ ct[u[i].id] # None \/ u[i].id = 1 + Cardinality(Opened(ct))
      BY DEF Owed
    <3>1. i + 1 \in 1..Len(ws) /\ u[i] = ws[i + 1]
      BY <1>2
    <3>2. i + 1 < Len(ws) => i < Len(u) /\ u[i + 1] = ws[(i + 1) + 1]
      BY <1>1, <1>2
    <3>3. Foreign(u[i]) => Durable(ct) \/ (i < Len(u) /\ IsApplied(u[i + 1]))
      BY <1>4, <2>4, <3>1, <3>2 DEF Owed
    <3>4. ASSUME u[i].file = "case"
          PROVE  /\ u[i].to.applied = ap[u[i].id]
                 /\ ct[u[i].id] # None \/ u[i].id = 1 + Cardinality(Opened(ct))
      <4>1. /\ u[i].to.applied = ap[u[i].id]
            /\ cs[u[i].id] # None \/ u[i].id = 1 + Cardinality(Opened(cs))
        BY <1>4, <3>1, <3>4 DEF Owed
      <4>2. u[i].id \in CaseIds
        <5>1. u[i] \in HostWrites
          BY <3>1
        <5> QED
          BY <3>4, <5>1, HostWriteIs
      <4>3. CASE cs[w.id] # None
        BY <2>3, <2>7, <4>1, <4>2, <4>3
      <4>4. CASE cs[w.id] = None
        BY <2>2, <2>3, <2>7, <4>1, <4>2, <4>4
      <4> QED
        BY <4>1, <4>3, <4>4
    <3> QED
      BY <3>3, <3>4
  <2> QED
    BY <2>3, <2>5, <2>6, <2>8 DEF Calm, Owes, ct
<1> QED
  BY <1>6, <1>7 DEF w, u

\* A call that ends early leaves nothing to be made up for.
LEMMA NothingIsCalm ==
    ASSUME NEW cf, NEW ts, NEW cs, NEW ws, Calm(cf, ts, cs, ws), ws # <<>>, Head(ws).file # "case"
    PROVE  Calm(cf, ts, cs, <<>>)
<1>1. InFiles(cf, ts) => Durable(cs)
  BY DEF Calm, IsApplied
<1>2. PICK ap : Knows(cs, ap)
  BY DEF Calm, Owes
<1>3. Owed(<<>>, cs, ap)
  BY DEF Owed
<1> QED
  BY <1>1, <1>2, <1>3 DEF Calm, Owes

\* More writes come up before the rest.
LEMMA MoreIsCalm ==
    ASSUME NEW cf, NEW ts, NEW cs \in [CaseIds -> CaseRecords \cup {None}],
           NEW ws \in Seq(HostWrites), ws # <<>>, Calm(cf, ts, cs, ws), Head(ws).file # "case",
           NEW s \in Seq(HostWrites), Mild(s, cf, ts)
    PROVE  Calm(cf, ts, cs, s \o Tail(ws))
<1> DEFINE u == Tail(ws)
           v == s \o u
<1>1. Calm(cf, ts, cs, u) /\ u \in Seq(HostWrites)
  BY TailIsCalm, WriteLeft
<1>2. InFiles(cf, ts) => Durable(cs)
  BY DEF Calm, IsApplied
<1>3. PICK ap : Knows(cs, ap) /\ Owed(u, cs, ap)
  BY <1>1 DEF Calm, Owes
<1>4. /\ Len(v) = Len(s) + Len(u) /\ Len(s) \in Nat /\ Len(u) \in Nat
      /\ \A i \in 1..Len(v) : IF i <= Len(s) THEN i \in 1..Len(s) /\ v[i] = s[i]
                              ELSE i - Len(s) \in 1..Len(u) /\ v[i] = u[i - Len(s)]
  BY <1>1
<1> HIDE DEF u, v
<1>5. ASSUME NEW i \in 1..Len(v)
      PROVE  /\ Foreign(v[i]) => Durable(cs) \/ (i < Len(v) /\ IsApplied(v[i + 1]))
             /\ v[i].file = "case" =>
                   /\ v[i].to.applied = ap[v[i].id]
                   /\ cs[v[i].id] # None \/ v[i].id = 1 + Cardinality(Opened(cs))
  <2>1. CASE i <= Len(s)
    <3>1. i \in 1..Len(s) /\ v[i] = s[i]
      BY <1>4, <2>1
    <3>2. v[i].file # "case" /\ (Foreign(v[i]) => Durable(cs))
      BY <1>2, <3>1 DEF Mild
    <3> QED
      BY <3>2
  <2>2. CASE ~(i <= Len(s))
    <3> DEFINE k == i - Len(s)
    <3>1. k \in 1..Len(u) /\ v[i] = u[k] /\ (k < Len(u) => i < Len(v) /\ i + 1 - Len(s) = k + 1)
      BY <1>4, <2>2
    <3>2. k < Len(u) => v[i + 1] = u[k + 1]
      <4>1. SUFFICES ASSUME k < Len(u) PROVE v[i + 1] = u[k + 1]
        OBVIOUS
      <4>2. i + 1 \in 1..Len(v) /\ ~(i + 1 <= Len(s)) /\ (i + 1) - Len(s) = k + 1
        BY <1>4, <2>2, <4>1
      <4> QED
        BY <1>4, <4>2
    <3> HIDE DEF k
    <3> QED
      BY <1>3, <3>1, <3>2 DEF Owed
  <2> QED
    BY <2>1, <2>2
<1>6. Owed(v, cs, ap)
  BY <1>5 DEF Owed
<1> QED
  BY <1>2, <1>3, <1>6 DEF Calm, Owes, u, v

\* A case is brought up to date: whether it was adopted it says as before.
LEMMA SyncIsCalm ==
    ASSUME NEW cf, NEW ts, NEW cs, NEW ct, NEW ws, Calm(cf, ts, cs, ws),
           \A c \in CaseIds : /\ cs[c] = None <=> ct[c] = None
                              /\ cs[c] # None => ct[c].applied = cs[c].applied,
           \A i \in 1..Len(ws) : ws[i].file = "case" => ws[i].id \in CaseIds
    PROVE  Calm(cf, ts, ct, ws)
<1>1. Opened(ct) = Opened(cs)
  BY DEF Opened
<1>2. Durable(cs) => Durable(ct)
  BY DEF Durable
<1>3. PICK ap : Knows(cs, ap) /\ Owed(ws, cs, ap)
  BY DEF Calm, Owes
<1>4. Knows(ct, ap)
  BY <1>3 DEF Knows
<1>5. Owed(ws, ct, ap)
  BY <1>1, <1>2, <1>3 DEF Owed
<1> QED
  BY <1>1, <1>2, <1>4, <1>5 DEF Calm, Owes, InOrder

\* What is calm, the host being at a write.
LEMMA CalmFacts ==
    ASSUME WorkInv, CalmInv, Unbroken
    PROVE  /\ Calm(config, tasks, cases, todo[host]) /\ Idle(operator)
           /\ cases \in [CaseIds -> CaseRecords \cup {None}] /\ todo[host] \in Seq(HostWrites)
           /\ \A p \in {host, cli} : \A ws : todo' = [todo EXCEPT ![p] = ws] =>
                 todo'[p] = ws /\ \A q \in Processes \ {p} : todo'[q] = todo[q]
<1>1. todo[host] \in Seq(HostWrites) /\ todo = [p \in Processes |-> todo[p]]
  BY DEF WorkInv, TodoInv, Fit
<1> QED
  BY <1>1, DataFacts DEF CalmInv, WorkInv, Processes

\* The host goes on after a write.
LEMMA GoesCalm ==
    ASSUME WorkInv, CalmInv, Unbroken, ~Idle(host), Goes(host),
           InFiles(config', tasks') => InFiles(config, tasks) \/ Foreign(Next1(host)),
           IF Next1(host).file = "case" THEN cases' = Saved(cases, Next1(host)) ELSE cases' = cases
    PROVE  Calm(config', tasks', cases', todo'[host])
<1>1. todo[host] # <<>> /\ todo'[host] = Tail(todo[host]) /\ Next1(host) = Head(todo[host])
  BY CalmFacts DEF Idle, Goes, Next1
<1>2. Calm(config, tasks, cases, todo[host]) /\ todo[host] \in Seq(HostWrites)
      /\ cases \in [CaseIds -> CaseRecords \cup {None}]
  BY CalmFacts
<1>3. InFiles(config', tasks') => InFiles(config, tasks) \/ Foreign(Head(todo[host]))
  BY <1>1
<1>4. /\ Head(todo[host]).file # "case" => Calm(config', tasks', cases, Tail(todo[host]))
      /\ Head(todo[host]).file = "case" =>
            Calm(config', tasks', Saved(cases, Head(todo[host])), Tail(todo[host]))
  BY <1>1, <1>2, <1>3, TailIsCalm
<1> QED
  BY <1>1, <1>4

\* The host raises.
LEMMA RaisesCalm ==
    ASSUME WorkInv, CalmInv, Unbroken, ~Idle(host), Raises(host), Next1(host).file # "case",
           UNCHANGED <<config, tasks, cases>>
    PROVE  Calm(config', tasks', cases', todo'[host])
<1>1. todo[host] # <<>> /\ todo'[host] = <<>> /\ Next1(host) = Head(todo[host])
  BY CalmFacts DEF Idle, Raises, Next1
<1>2. Calm(config, tasks, cases, <<>>)
  BY <1>1, CalmFacts, NothingIsCalm
<1> QED
  BY <1>1, <1>2

\* The host finds out what else to write.
LEMMA ContinuesCalm ==
    ASSUME WorkInv, CalmInv, Unbroken, ~Idle(host), NEW s \in Seq(HostWrites),
           Continues(host, s), Mild(s, config, tasks), Next1(host).file # "case",
           UNCHANGED <<config, tasks, cases>>
    PROVE  Calm(config', tasks', cases', todo'[host])
<1>1. todo[host] # <<>> /\ todo'[host] = s \o Tail(todo[host]) /\ Next1(host) = Head(todo[host])
  BY CalmFacts DEF Idle, Continues, Next1
<1>2. Calm(config, tasks, cases, s \o Tail(todo[host]))
  BY <1>1, CalmFacts, MoreIsCalm
<1> QED
  BY <1>1, <1>2

\* A task that is saved.
LEMMA TaskForeign ==
    ASSUME DataInv, NEW id \in TaskIds, NEW r, tasks' = [tasks EXCEPT ![id] = r], UNCHANGED config
    PROVE  InFiles(config', tasks') => InFiles(config, tasks) \/ Apart(r)
<1>1. tasks \in [TaskIds -> TaskRecords \cup {None}]
  BY DataFacts
<1>2. ASSUME NEW other \in TaskIds, tasks'[other] # None, Apart(tasks'[other])
      PROVE  InFiles(config, tasks) \/ Apart(r)
  <2>1. CASE other = id
    <3>1. tasks'[other] = r
      BY <1>1, <2>1
    <3> QED
      BY <1>2, <3>1
  <2>2. CASE other # id
    <3>1. tasks'[other] = tasks[other]
      BY <1>1, <2>2
    <3> QED
      BY <1>2, <3>1 DEF InFiles
  <2> QED
    BY <2>1, <2>2
<1> QED
  BY <1>2 DEF InFiles

\* What is light is mild.
LEMMA LightIsMild == \A s, cf, ts : Light(s) => Mild(s, cf, ts)
BY DEF Light, Mild, Foreign

\* What a step of the host leaves.
LeavesCalm == Calm(config', tasks', cases', todo'[host])

\* A write that saves no tool and no case.
LEMMA LightWrite ==
    ASSUME WorkInv, CalmInv, Unbroken, ~Idle(host), Next1(host).file # "case",
           Goes(host) \/ Raises(host), UNCHANGED <<config, tasks, cases>>
    PROVE  LeavesCalm
BY GoesCalm, RaisesCalm DEF LeavesCalm

\* The pipeline saves a task.
LEMMA PlanCalm ==
    ASSUME WorkInv, CalmInv, Unbroken, WritePlan(host), UNCHANGED cases
    PROVE  LeavesCalm
<1> DEFINE w == Next1(host)
<1>1. /\ ~Idle(host) /\ w.file = "plan" /\ Goes(host) /\ UNCHANGED config
      /\ tasks' = [tasks EXCEPT ![w.id] = w.to]
  BY DEF WritePlan, Writes
<1>2. w \in HostWrites
  BY <1>1, NextIs
<1>3. w.id \in TaskIds
  BY <1>1, <1>2, HostWriteIs
<1> HIDE DEF w
<1>4. InFiles(config', tasks') => InFiles(config, tasks) \/ Foreign(w)
  <2>1. InFiles(config', tasks') => InFiles(config, tasks) \/ Apart(w.to)
    BY <1>1, <1>3, TaskForeign DEF WorkInv
  <2> QED
    BY <1>1, <2>1 DEF Foreign
<1> QED
  BY <1>1, <1>4, GoesCalm DEF w, LeavesCalm

\* A service saves a task.
LEMMA TaskCalm ==
    ASSUME WorkInv, CalmInv, Unbroken, WriteTask(host), UNCHANGED cases
    PROVE  LeavesCalm
<1> DEFINE w == Next1(host)
           r == IF w.to.status = "execute" THEN Executed(w.to) ELSE w.to
           seen == IF r.ref = None THEN None ELSE versions[r.ref.theme][r.ref.n]
           s == [r EXCEPT !.seen = seen]
<1>1. ~Idle(host) /\ w.file = "task" /\ UNCHANGED config
  BY DEF WriteTask, Writes
<1>2. w \in HostWrites
  BY <1>1, NextIs
<1>3. w.id \in TaskIds /\ w.to \in Drafts
  BY <1>1, <1>2, HostWriteIs
<1>4. CASE ~Loads(w.id)
  <2>1. Raises(host) /\ UNCHANGED tasks
    BY <1>4 DEF WriteTask
  <2> QED
    BY <1>1, <2>1, LightWrite
<1>5. CASE Loads(w.id)
  <2>1. Goes(host) /\ tasks' = [tasks EXCEPT ![w.id] = s]
    BY <1>5 DEF WriteTask
  <2>2. Apart(r) <=> Apart(w.to)
    BY <1>3 DEF Apart, Executed, Drafts
  <2>3. r.override = w.to.override /\ r.trial = w.to.trial /\ "override" \in DOMAIN r /\ "trial" \in DOMAIN r
    BY <1>3 DEF Executed, Drafts
  <2>4. Apart(s) <=> Apart(w.to)
    <3> HIDE DEF r, seen
    <3> QED
      BY <2>3 DEF Apart
  <2> HIDE DEF w, s
  <2>5. InFiles(config', tasks') => InFiles(config, tasks) \/ Foreign(w)
    <3>1. InFiles(config', tasks') => InFiles(config, tasks) \/ Apart(s)
      BY <1>1, <1>3, <2>1, TaskForeign DEF WorkInv
    <3> QED
      BY <1>1, <2>4, <3>1 DEF Foreign
  <2> QED
    BY <1>1, <2>1, <2>5, GoesCalm DEF w, LeavesCalm
<1> QED
  BY <1>4, <1>5

\* A tool is configured.
LEMMA ConfigCalm ==
    ASSUME WorkInv, CalmInv, Unbroken, WriteConfig(host), UNCHANGED cases
    PROVE  LeavesCalm
<1> DEFINE w == Next1(host)
<1>1. /\ ~Idle(host) /\ w.file = "config" /\ Goes(host) /\ UNCHANGED tasks
      /\ config' = [config EXCEPT ![w.at] = w.tool]
  BY DEF WriteConfig, Writes
<1>2. config \in [Configs -> Tools \cup {None}]
  BY DataFacts DEF WorkInv
<1> HIDE DEF w
<1>3. ASSUME NEW at \in Configs, config'[at] \in Candidates
      PROVE  InFiles(config, tasks) \/ Foreign(w)
  <2>1. config'[at] = IF at = w.at THEN w.tool ELSE config[at]
    BY <1>1, <1>2
  <2> QED
    BY <1>1, <1>3, <2>1 DEF InFiles, Foreign
<1>4. InFiles(config', tasks') => InFiles(config, tasks) \/ Foreign(w)
  BY <1>1, <1>3 DEF InFiles
<1> QED
  BY <1>1, <1>4, GoesCalm DEF w, LeavesCalm

\* A theme is derived on the way.
LEMMA DeriveCalm ==
    ASSUME WorkInv, CalmInv, Unbroken, DeriveHere(host) \/ LinkSource(host), UNCHANGED cases
    PROVE  LeavesCalm
<1> DEFINE w == Next1(host)
           ref == bound["conversation"]
           kinds == {"conversation"}
<1>1. ~Idle(host) /\ w.file \in {"derive", "link"} /\ UNCHANGED <<config, tasks, cases>>
  BY DEF DeriveHere, LinkSource, Writes, talkVars
<1>2. w \in HostWrites
  BY <1>1, NextIs
<1>3. w.src \in Sources /\ (w.file = "derive" => w.theme \in Themes /\ w.n \in 0..MaxVersions)
  BY <1>1, <1>2, HostWriteIs
<1>4. {w.src} \in SUBSET Sources /\ DataInv
  BY <1>3 DEF WorkInv
<1>5. ref # None => ref.theme \in Themes
  <2>1. ref \in Found(Len(looks)) \cup {None}
    BY <1>4, DataFacts DEF Kinds
  <2> QED
    BY <2>1 DEF Found
<1>6. ASSUME NEW s, Light(s), \E any : Fit(s, versions, tasks, any), Continues(host, s) PROVE LeavesCalm
  <2>1. s \in Seq(HostWrites) /\ Mild(s, config, tasks)
    BY <1>6, LightIsMild DEF Fit
  <2> QED
    BY <1>1, <1>6, <2>1, ContinuesCalm DEF LeavesCalm
<1> DEFINE Made1 == Create(w.theme, {w.src}, kinds)
           Made2 == Derive(w.theme, w.n, {w.src}, kinds)
           Made3 == Derive(ref.theme, ref.n, {w.src}, kinds)
<1>7. CASE DeriveHere(host)
  <2>1. /\ w.file = "derive"
        /\ \/ Continues(host, Made1)
           \/ CanDerive(w.theme, w.n) /\ Continues(host, Made2)
    BY <1>7 DEF DeriveHere, Writes
  <2>2. w.theme \in Themes
    BY <1>3, <2>1
  <2> HIDE DEF w
  <2>3. Light(Made1) /\ Fit(Made1, versions, tasks, None)
    BY <1>4, <2>2, CreateFits
  <2>4. CanDerive(w.theme, w.n) => Light(Made2) /\ Fit(Made2, versions, tasks, None)
    BY <1>4, <2>2, DerivesFrom
  <2> HIDE DEF Made1, Made2
  <2> QED
    BY <1>6, <2>1, <2>3, <2>4
<1>8. CASE LinkSource(host)
  <2>1. \/ Goes(host) \/ Raises(host)
        \/ ref # None /\ CanDerive(ref.theme, ref.n) /\ Continues(host, Made3)
    BY <1>8 DEF LinkSource, Selected
  <2> HIDE DEF w, ref
  <2>2. ref # None /\ CanDerive(ref.theme, ref.n) => Light(Made3) /\ Fit(Made3, versions, tasks, None)
    BY <1>4, <1>5, DerivesFrom
  <2> HIDE DEF Made3
  <2>3. CASE Goes(host) \/ Raises(host)
    BY <1>1, <2>3, LightWrite DEF w
  <2> QED
    BY <1>6, <2>1, <2>2, <2>3
<1> QED
  BY <1>7, <1>8

\* A plan that lacks its image is mended.
LEMMA RepairCalm ==
    ASSUME WorkInv, CalmInv, Unbroken, Repair(host), UNCHANGED cases
    PROVE  LeavesCalm
<1> DEFINE lacks == Active # 0 /\ Current.missing
           a == [Now EXCEPT !.reg = "required"]
           b == [Now EXCEPT !.reg = "registered"]
           r == Mended(Current)
<1>1. ~Idle(host) /\ Next1(host).file = "repair" /\ UNCHANGED <<config, tasks, cases>>
  BY DEF Repair, Writes, talkVars
<1>2. DataInv
  BY DEF WorkInv
<1>3. a \in Sessions /\ b \in Sessions
  BY <1>2, NowIs, SessionKeeps
<1>4. \/ Goes(host) \/ Raises(host) \/ Continues(host, Save(a))
      \/ lacks /\ Continues(host, SaveTask(Active, r) \o Save(b))
  BY DEF Repair
<1> HIDE DEF a, b
<1>5. CASE Goes(host) \/ Raises(host)
  BY <1>1, <1>5, LightWrite
<1>6. CASE Continues(host, Save(a))
  <2>1. Save(a) \in Seq(HostWrites) /\ Mild(Save(a), config, tasks)
    <3>1. Fit(Save(a), versions, tasks, None)
      BY <1>3, SaveFits
    <3>2. Mild(Save(a), config, tasks)
      BY DEF Mild, Foreign, Save
    <3> QED
      BY <3>1, <3>2 DEF Fit
  <2> QED
    BY <1>1, <1>6, <2>1, ContinuesCalm DEF LeavesCalm
<1>7. CASE lacks /\ Continues(host, SaveTask(Active, r) \o Save(b))
  <2> DEFINE v == [file |-> "task", id |-> Active, to |-> r]
             z == [file |-> "session", to |-> b]
  <2>1. Active \in TaskIds /\ tasks[Active] # None /\ Current \in TaskRecords /\ Current = tasks[Active]
    BY <1>2, <1>7, ActiveIs DEF Current
  <2>2. r \in Drafts /\ (Apart(r) <=> Apart(tasks[Active]))
    <3>1. r \in TaskRecords
      BY <2>1, RecordKeeps DEF Mended
    <3> QED
      BY <2>1, <3>1, RecordKeeps, ApartKeeps
  <2> HIDE DEF r
  <2>3. v \in HostWrites /\ z \in HostWrites
    BY <1>3, <2>1, <2>2 DEF HostWrites, SavingWrites
  <2>4. v.file = "task" /\ v.to = r /\ z.file = "session"
    OBVIOUS
  <2>5. SaveTask(Active, r) = <<v>> /\ Save(b) = <<z>>
    BY DEF SaveTask, Save
  <2> HIDE DEF v, z
  <2> DEFINE vz == <<v>> \o <<z>>
  <2>6. vz \in Seq(HostWrites) /\ Len(vz) = 2 /\ vz[1] = v /\ vz[2] = z
    BY <2>3
  <2> HIDE DEF vz
  <2>7. Foreign(v) => InFiles(config, tasks)
    BY <2>1, <2>2, <2>4 DEF Foreign, InFiles
  <2>8. ~Foreign(z)
    BY <2>4 DEF Foreign
  <2>9. Mild(vz, config, tasks)
    BY <2>4, <2>6, <2>7, <2>8 DEF Mild
  <2> QED
    BY <1>1, <1>7, <2>5, <2>6, <2>9, ContinuesCalm DEF LeavesCalm, vz
<1> QED
  BY <1>4, <1>5, <1>6, <1>7

\* Every write of the conversation.
LEMMA TalkCalm ==
    ASSUME WorkInv, CalmInv, Unbroken, WriteTalk(host), UNCHANGED cases
    PROVE  LeavesCalm
<1>1. CASE WriteSession(host) \/ WriteSource(host) \/ WriteConnection(host) \/ LoadActive(host)
  <2>1. /\ ~Idle(host) /\ Next1(host).file # "case" /\ (Goes(host) \/ Raises(host))
        /\ UNCHANGED <<config, tasks, cases>>
    BY <1>1 DEF WriteSession, WriteSource, WriteConnection, LoadActive, Writes, talkVars
  <2> QED
    BY <2>1, LightWrite
<1> QED
  BY <1>1, PlanCalm, TaskCalm, ConfigCalm, DeriveCalm, RepairCalm DEF WriteTalk

\* A case is brought up to date.
LEMMA SyncCalm ==
    ASSUME WorkInv, CalmInv, Unbroken, Sync(host)
    PROVE  LeavesCalm
<1> DEFINE c == ActiveCase
           r == IF tasks[Case.trial].status = "failed"
                THEN [Case EXCEPT !.status = "candidate-building"] ELSE Shown(Case.trial)
<1>1. /\ UNCHANGED <<config, tasks, todo>> /\ cases' = [cases EXCEPT ![c] = r] /\ ActiveCase # 0
  BY DEF Sync, talkVars, Due, In, Case
<1>2. Case \in CaseRecords /\ c \in CaseIds /\ Case = cases[c] /\ cases[c] # None
  <2>1. ActiveCase \in CaseIds /\ Case \in CaseRecords
    BY <1>1, CaseIs DEF WorkInv
  <2>2. cases[c] # None
    BY <1>1 DEF ActiveCase
  <2> QED
    BY <2>1, <2>2 DEF Case
<1>3. r \in CaseRecords /\ r.applied = Case.applied
  <2>1. Case.trial \in 0..MaxTasks
    BY <1>2 DEF CaseRecords
  <2> QED
    BY <1>2, <2>1, ZenonT(40) DEF Shown, Statuses, Ended, CaseRecords
<1>4. r # None
  BY <1>3, CasesAssumption
<1> HIDE DEF r, c
<1>5. cases \in [CaseIds -> CaseRecords \cup {None}] /\ todo[host] \in Seq(HostWrites)
      /\ Calm(config, tasks, cases, todo[host])
  BY CalmFacts
<1>6. \A d \in CaseIds : /\ cases[d] = None <=> cases'[d] = None
                         /\ cases[d] # None => cases'[d].applied = cases[d].applied
  BY <1>1, <1>2, <1>3, <1>4, <1>5
<1>7. \A i \in 1..Len(todo[host]) : todo[host][i].file = "case" => todo[host][i].id \in CaseIds
  <2>1. \A i \in 1..Len(todo[host]) : todo[host][i] \in HostWrites
    BY <1>5
  <2> QED
    BY <2>1, HostWriteIs
<1>8. Calm(config, tasks, cases', todo[host])
  BY <1>5, <1>6, <1>7, SyncIsCalm
<1> QED
  BY <1>1, <1>8 DEF LeavesCalm

\* Every write of the host.
LEMMA HostCalm ==
    ASSUME WorkInv, CalmInv, Unbroken, WriteNext(host)
    PROVE  LeavesCalm
<1>1. CASE WriteTheme(host) /\ UNCHANGED <<talkVars, cases>>
  <2>1. /\ ~Idle(host) /\ Next1(host).file # "case" /\ Goes(host)
        /\ UNCHANGED <<config, tasks, cases>>
    BY <1>1 DEF WriteTheme, WriteVersion, WriteIndex, WriteBinding, Unlink, Writes, talkVars
  <2> QED
    BY <2>1, LightWrite
<1>2. CASE WriteTalk(host) /\ UNCHANGED <<themeVars, cases>>
  BY <1>2, TalkCalm
<1>3. CASE WriteCase(host) /\ UNCHANGED <<themeVars, talkVars>>
  <2>1. /\ ~Idle(host) /\ Next1(host).file = "case" /\ Goes(host)
        /\ UNCHANGED <<config, tasks>> /\ cases' = Saved(cases, Next1(host))
    BY <1>3 DEF WriteCase, Writes, talkVars, Saved
  <2> QED
    BY <2>1, GoesCalm DEF LeavesCalm
<1>4. CASE ShowView(host)
  <2>1. /\ ~Idle(host) /\ Next1(host).file # "case" /\ (Goes(host) \/ Raises(host))
        /\ UNCHANGED <<config, tasks, cases>>
    BY <1>4 DEF ShowView, Writes
  <2> QED
    BY <2>1, LightWrite
<1> QED
  BY <1>1, <1>2, <1>3, <1>4, SyncCalm DEF WriteNext

\* Every write of the command line: it configures no tool of a case.
LEMMA CliCalm ==
    ASSUME WorkInv, CalmInv, Unbroken, WriteNext(cli)
    PROVE  LeavesCalm
<1>1. ~Idle(cli)
  BY DEF WriteNext, WriteTheme, WriteVersion, WriteIndex, WriteBinding, Unlink, WriteTalk, WritePlan,
         WriteTask, WriteSession, WriteSource, WriteConfig, WriteConnection, LoadActive, DeriveHere,
         LinkSource, Repair, WriteCase, Sync, ShowView, Writes
<1> DEFINE w == Next1(cli)
<1>2. todo[cli] \in Seq(CliWrites)
  BY DEF WorkInv, TodoInv, CliFit
<1>3. w \in CliWrites
  BY <1>1, <1>2, WriteLeft DEF Next1, Idle
<1>4. /\ w.file \in {"version", "index", "binding", "legacy", "config", "connection"}
      /\ w.file = "config" => w.tool \notin Candidates
  BY <1>3, CliWriteIs
<1>5. /\ UNCHANGED <<tasks, cases>> /\ Goes(cli)
      /\ config' = config \/ (w.file = "config" /\ config' = [config EXCEPT ![w.at] = w.tool])
  <2>1. CASE WriteTheme(cli) /\ UNCHANGED <<talkVars, cases>>
    BY <2>1 DEF WriteTheme, WriteVersion, WriteIndex, WriteBinding, Unlink, talkVars
  <2>2. CASE WriteConfig(cli) /\ UNCHANGED <<themeVars, cases>>
    BY <2>2 DEF WriteConfig, Writes
  <2>3. CASE WriteConnection(cli) /\ UNCHANGED <<themeVars, cases>>
    BY <2>3 DEF WriteConnection
  <2> QED
    BY <1>4, <2>1, <2>2, <2>3
       DEF WriteNext, WriteTalk, WritePlan, WriteTask, WriteSession, WriteSource, LoadActive,
           DeriveHere, LinkSource, Repair, WriteCase, Sync, ShowView, Writes
<1>6. config \in [Configs -> Tools \cup {None}]
  BY DataFacts DEF WorkInv
<1> HIDE DEF w
<1>7. InFiles(config', tasks') => InFiles(config, tasks)
  <2>1. ASSUME NEW at \in Configs, config'[at] \in Candidates PROVE config[at] \in Candidates
    BY <1>4, <1>5, <1>6, <2>1
  <2> QED
    BY <1>5, <2>1 DEF InFiles
<1>8. todo'[host] = todo[host]
  <2>1. host \in Processes \ {cli}
    BY DEF Processes, host, cli
  <2> QED
    BY <1>5, <2>1, CalmFacts DEF Goes
<1> QED
  BY <1>5, <1>7, <1>8, CalmFacts DEF LeavesCalm, Calm

\* A call of either process, which writes nothing yet.
LEMMA CallsCalm ==
    ASSUME WorkInv, CalmInv, Unbroken, Calls \/ CliCalls
    PROVE  LeavesCalm /\ todo'[operator] = todo[operator]
<1>1. UNCHANGED <<config, tasks, cases>>
  BY DEF Calls, CliCalls, workVars, talkVars
<1>2. DataInv
  BY DEF WorkInv
<1>3. host \in Processes \ {cli} /\ operator \in Processes \ {cli, host}
  BY DEF Processes, host, cli, operator
<1>4. Calm(config, tasks, cases, todo[host])
  BY CalmFacts
<1>5. CASE Calls
  <2>1. Asks
    BY <1>2, <1>5, TalkAsks, ImproveAsks DEF Calls
  <2>2. PICK ws : todo' = [todo EXCEPT ![host] = ws] /\ (Settled => Owes(ws, cases))
    BY <2>1 DEF Asks
  <2>3. todo'[host] = ws /\ todo'[operator] = todo[operator]
    BY <1>3, <2>2, CalmFacts
  <2>4. todo[host] = <<>>
    BY <2>1 DEF Asks, Idle
  <2>5. Settled
    BY <1>4, <2>4 DEF Settled, Unbroken, Calm
  <2>6. Calm(config, tasks, cases, ws)
    BY <1>4, <2>2, <2>5 DEF Calm, Settled
  <2> QED
    BY <1>1, <2>3, <2>6 DEF LeavesCalm
<1>6. CASE CliCalls
  <2>1. CliThemes \/ CliTools
    BY <1>6 DEF CliCalls
  <2>2. PICK ws : todo' = [todo EXCEPT ![cli] = ws]
    BY <2>1, CliLeaves DEF Leaves
  <2>3. todo'[host] = todo[host] /\ todo'[operator] = todo[operator]
    BY <1>3, <2>2, CalmFacts
  <2> QED
    BY <1>1, <1>4, <2>3 DEF LeavesCalm
<1> QED
  BY <1>5, <1>6

\* At first nothing is in the files.
LEMMA CalmInit == Init => CalmInv
<1> SUFFICES ASSUME Init PROVE CalmInv
  OBVIOUS
<1>1. /\ tasks = [id \in TaskIds |-> None] /\ cases = [c \in CaseIds |-> None]
      /\ todo = [p \in Processes |-> <<>>]
      /\ config = [at \in Configs |-> IF at = "project" /\ ~On("tools")
                                       THEN CHOOSE tool \in Tools \ Candidates : TRUE ELSE None]
  BY DEF Init, InitTalk
<1>2. todo[host] = <<>> /\ todo[operator] = <<>>
  BY <1>1 DEF Processes
<1>3. InOrder(cases)
  <2>1. Opened(cases) = 1..0 /\ 0 \in 0..MaxCases
    BY <1>1, ConversationAssumption DEF Opened
  <2> QED
    BY <2>1 DEF InOrder
<1>4. ~InFiles(config, tasks)
  <2>1. (CHOOSE tool \in Tools \ Candidates : TRUE) \notin Candidates /\ None \notin Candidates
    BY ConversationAssumption
  <2> QED
    BY <1>1, <2>1 DEF InFiles
<1>5. Knows(cases, {}) /\ Owed(<<>>, cases, {})
  BY <1>1 DEF Knows, Owed
<1> QED
  BY <1>2, <1>3, <1>4, <1>5 DEF CalmInv, Calm, Owes, Idle

\* Every step keeps it, until a process dies or a backup is restored.
LEMMA CalmStep == WorkInv /\ BackupInv /\ CalmInv /\ [Next]_vars => CalmInv'
<1> SUFFICES ASSUME WorkInv, BackupInv, CalmInv, [Next]_vars PROVE CalmInv'
  OBVIOUS
<1>1. crashes \in Nat /\ restores \in Nat
  BY WorkspaceAssumption DEF WorkInv, DataInv, TypeOK
<1>2. ASSUME UNCHANGED <<crashes, restores>>,
             Unbroken => LeavesCalm /\ todo'[operator] = todo[operator]
      PROVE  CalmInv'
  <2> SUFFICES ASSUME Unbroken' PROVE Idle(operator)' /\ LeavesCalm
    BY DEF CalmInv, LeavesCalm, Calm, Unbroken
  <2>1. Unbroken
    BY <1>2 DEF Unbroken
  <2> QED
    BY <1>2, <2>1, CalmFacts DEF Idle
<1>3. CASE Calls \/ CliCalls
  <2>1. UNCHANGED <<crashes, restores>>
    BY <1>3 DEF Calls, CliCalls, Beside
  <2> QED
    BY <1>2, <1>3, <2>1, CallsCalm
<1>4. ASSUME NEW p \in {host, cli}, WriteNext(p) PROVE CalmInv'
  <2>1. UNCHANGED <<crashes, restores>>
    BY <1>4 DEF WriteNext, Beside
  <2>2. Unbroken => LeavesCalm
    BY <1>4, HostCalm, CliCalm
  <2>3. todo' = todo \/ \E ws : todo' = [todo EXCEPT ![p] = ws]
    <3>1. CASE Sync(p)
      BY <3>1 DEF Sync
    <3>2. CASE WriteTheme(p) \/ WriteTalk(p) \/ WriteCase(p) \/ ShowView(p)
      BY <3>2, WriteLeaves DEF Leaves
    <3> QED
      BY <1>4, <3>1, <3>2 DEF WriteNext
  <2>4. operator # p /\ operator \in Processes
    BY DEF Processes, host, cli, operator
  <2>5. todo'[operator] = todo[operator]
    <3>1. todo = [q \in Processes |-> todo[q]]
      BY DEF WorkInv, TodoInv
    <3> QED
      BY <2>3, <2>4, <3>1
  <2> QED
    BY <1>2, <2>1, <2>2, <2>5
<1>5. ASSUME NEW p \in Processes, Crash(p) PROVE CalmInv'
  BY <1>1, <1>5 DEF Crash, CalmInv, Unbroken
<1>6. CASE Restore \/ RestoreElsewhere
  BY <1>1, <1>6 DEF Restore, RestoreElsewhere, CalmInv, Unbroken
<1>7. CASE RestoreGroup
  <2>1. ~Idle(operator) /\ UNCHANGED <<crashes, restores>>
    BY <1>7 DEF RestoreGroup, Writes
  <2> QED
    BY <2>1 DEF CalmInv, Unbroken
<1>8. CASE ListFiles \/ HashGroup \/ ArchiveGroup \/ Publish \/ CutBackup \/ UNCHANGED vars
  <2>1. UNCHANGED <<config, tasks, cases, todo, crashes, restores>>
    BY <1>8 DEF ListFiles, HashGroup, ArchiveGroup, Publish, CutBackup, vars, workVars, talkVars
  <2> QED
    BY <2>1 DEF CalmInv, Unbroken, Idle
<1> QED
  BY <1>3, <1>4, <1>5, <1>6, <1>7, <1>8 DEF Next

\* What it says of the system.
LEMMA CalmIs == CalmInv /\ WorkInv => StableUntilAdopted
<1> SUFFICES ASSUME CalmInv, WorkInv, Unbroken, InFiles(config, tasks) PROVE Adopted
  BY DEF StableUntilAdopted, Unbroken, InFiles, Apart
<1>1. CASE Durable(cases)
  BY <1>1 DEF Durable, Adopted
<1>2. CASE todo[host] # <<>> /\ IsApplied(Head(todo[host]))
  <2>1. todo[host] \in Seq(HostWrites)
    BY CalmFacts
  <2>2. Head(todo[host]) = todo[host][1] /\ Len(todo[host]) \in Nat \ {0}
        /\ DOMAIN todo[host] = 1..Len(todo[host])
    BY <1>2, <2>1, WriteLeft
  <2>3. 1 \in DOMAIN todo[host]
    BY <2>2
  <2> QED
    BY <1>2, <2>2, <2>3 DEF IsApplied, Adopted
<1> QED
  BY <1>1, <1>2, CalmFacts DEF Calm

\* A candidate's tool is used outside its trials only once a case says that it was
\* adopted or the very next write says so, until a process dies or a backup is
\* restored: a trial, a refusal or a host that goes on with other tasks configures
\* nothing (improvement_cases.py decide_adoption, _apply_tool_adoption,
\* improvement_workflow.py start_tool_trial).
THEOREM StableIsKept == Spec => []StableUntilAdopted
<1>1. Init => WorkInv /\ BackupInv /\ CalmInv
  BY WorkInit, BackupInit, CalmInit
<1>2. WorkInv /\ BackupInv /\ CalmInv /\ [Next]_vars => (WorkInv /\ BackupInv /\ CalmInv)'
  BY WorkStep, BackupStep, CalmStep
<1>3. WorkInv /\ CalmInv => StableUntilAdopted
  BY CalmIs
<1> QED BY <1>1, <1>2, <1>3, PTL DEF Spec

(***************************************************************************)
(* A request is one task                                                   *)
(***************************************************************************)

\* The tasks of a request among some.
Tagged(runs, key) == {id \in TaskIds : runs[id] # None /\ runs[id].request = key}

\* What a call writes of a request, and what it records of it.
TaggedBy(ws, key, G) ==
    \A i \in 1..Len(ws) : ws[i].file \in {"plan", "task"} /\ ws[i].to.request = key => ws[i].id \in G
Records(ws, key) == \A i \in 1..Len(ws) : ws[i].file = "session" => ws[i].to.done[key] # 0
Restored(ws, key, G) ==
    \A i \in 1..Len(ws) : ws[i].group = "runs" => Tagged(ws[i].to, key) \subseteq G

\* The session records a request, or is about to before anything can go wrong but
\* the process dying.
Sure(s, ws, key) == Records(ws, key) /\ (s.done[key] # 0 \/ Leads(ws))

\* The tasks that a request has, is about to have or can be given by a restore are
\* all in G.
Covers(G, key) ==
    /\ Tagged(tasks, key) \subseteq G
    /\ TaggedBy(todo[host], key, G) /\ Restored(todo[operator], key, G)
    /\ archive # None => Tagged(archive.files.runs, key) \subseteq G
    /\ Making("archive") => Tagged(backup.moment.runs, key) \subseteq G

\* A restore writes the categories in their order, so whether it has yet to write the
\* session is a matter of how many are left.
InGroups == \A i \in 1..Len(todo[operator]) :
               /\ Len(todo[operator]) <= 5
               /\ todo[operator][i].group = Groups[(5 - Len(todo[operator])) + i]
Sets == IF Len(todo[operator]) >= 3 THEN 1 ELSE 0

\* Every crash and every restore makes one more task possible, a restore once it has
\* written the session.
Budget(G, key) ==
    Cardinality(G) + Sets <= crashes + restores + IF Sure(session, todo[host], key) THEN 1 ELSE 0

RequestInv ==
    /\ InGroups
    /\ \A key \in Keys : \E G \in SUBSET TaskIds : Covers(G, key) /\ Budget(G, key)

\* The call goes on after its first write.
LEMMA TailRequests ==
    ASSUME NEW S, NEW ws \in Seq(S), ws # <<>>, NEW key, NEW G, NEW s
    PROVE  /\ TaggedBy(ws, key, G) =>
                 /\ TaggedBy(Tail(ws), key, G)
                 /\ Head(ws).file \in {"plan", "task"} /\ Head(ws).to.request = key => Head(ws).id \in G
           /\ Sure(s, ws, key) =>
                 /\ Records(Tail(ws), key)
                 /\ Head(ws).file = "session" => Head(ws).to.done[key] # 0
                 /\ Head(ws).file = "plan" => s.done[key] # 0 \/ Leads(Tail(ws))
                 /\ Head(ws).file \notin {"plan", "session"} => s.done[key] # 0
<1> DEFINE u == Tail(ws)
           h == Head(ws)
<1>1. /\ Len(u) = Len(ws) - 1 /\ Len(ws) \in Nat \ {0} /\ h = ws[1] /\ 1 \in 1..Len(ws)
      /\ \A i \in 1..(Len(ws) - 1) : u[i] = ws[i + 1]
  BY WriteLeft
<1> HIDE DEF u, h
<1>2. \A i \in 1..Len(u) : i + 1 \in 1..Len(ws) /\ u[i] = ws[i + 1]
  BY <1>1
<1>3. TaggedBy(ws, key, G) =>
         /\ TaggedBy(u, key, G)
         /\ h.file \in {"plan", "task"} /\ h.to.request = key => h.id \in G
  BY <1>1, <1>2 DEF TaggedBy
<1>4. Records(ws, key) => Records(u, key) /\ (h.file = "session" => h.to.done[key] # 0)
  BY <1>1, <1>2 DEF Records
<1>5. Leads(ws) => /\ h.file \in {"plan", "session"}
                   /\ h.file = "plan" => Leads(u)
  <2> SUFFICES ASSUME Leads(ws) PROVE h.file \in {"plan", "session"} /\ (h.file = "plan" => Leads(u))
    OBVIOUS
  <2>1. PICK n \in 1..Len(ws) : ws[n].file = "session" /\ \A j \in 1..(n - 1) : ws[j].file = "plan"
    BY DEF Leads
  <2>2. CASE n = 1
    BY <1>1, <2>1, <2>2
  <2>3. CASE n # 1
    <3>1. n - 1 \in 1..Len(u) /\ u[n - 1] = ws[n] /\ 1 \in 1..(n - 1)
      <4>1. n - 1 \in 1..Len(u) /\ (n - 1) + 1 = n /\ 1 \in 1..(n - 1)
        BY <1>1, <2>3
      <4> QED
        BY <1>2, <4>1
    <3>2. \A j \in 1..((n - 1) - 1) : j \in 1..Len(u) /\ j + 1 \in 1..(n - 1)
      BY <1>1
    <3>3. \A j \in 1..((n - 1) - 1) : u[j].file = "plan"
      BY <1>2, <2>1, <3>2
    <3> QED
      BY <1>1, <2>1, <3>1, <3>3 DEF Leads
  <2> QED
    BY <2>2, <2>3
<1> QED
  BY <1>3, <1>4, <1>5 DEF Sure, u, h

\* Two parts of a call.
LEMMA JoinRequests ==
    ASSUME NEW S, NEW s \in Seq(S), NEW t \in Seq(S), NEW key, NEW G
    PROVE  /\ TaggedBy(s, key, G) /\ TaggedBy(t, key, G) => TaggedBy(s \o t, key, G)
           /\ Records(s, key) /\ Records(t, key) => Records(s \o t, key)
<1> DEFINE u == s \o t
<1>1. /\ Len(u) = Len(s) + Len(t) /\ Len(s) \in Nat /\ Len(t) \in Nat
      /\ \A i \in 1..Len(u) : IF i <= Len(s) THEN i \in 1..Len(s) /\ u[i] = s[i]
                              ELSE i - Len(s) \in 1..Len(t) /\ u[i] = t[i - Len(s)]
  OBVIOUS
<1> HIDE DEF u
<1>2. TaggedBy(s, key, G) /\ TaggedBy(t, key, G) => TaggedBy(u, key, G)
  BY <1>1 DEF TaggedBy
<1>3. Records(s, key) /\ Records(t, key) => Records(u, key)
  BY <1>1 DEF Records
<1> QED
  BY <1>2, <1>3 DEF u

\* What a call writes that is for no new request of key.
LEMMA TagsAre ==
    ASSUME NEW ws \in Seq(HostWrites), NEW s, NEW ts, NEW key \in Keys, NEW new, NEW id,
           AllTag(ws, s, ts, new, id), NEW G, Tagged(ts, key) \subseteq G, new = key => id \in G
    PROVE  /\ TaggedBy(ws, key, G)
           /\ s.done[key] # 0 \/ new = key => Records(ws, key)
<1>1. ASSUME NEW i \in 1..Len(ws), ws[i].file \in {"plan", "task"}, ws[i].to.request = key
      PROVE  ws[i].id \in G
  <2>1. ws[i] \in HostWrites
    OBVIOUS
  <2>2. ws[i].id \in TaskIds
    BY <1>1, <2>1, HostWriteIs
  <2>3. Tags(ws[i], s, ts, new, id)
    BY DEF AllTag
  <2>4. key # None
    BY ConversationAssumption
  <2> QED
    BY <1>1, <2>2, <2>3, <2>4 DEF Tags, Tagged
<1>2. s.done[key] # 0 \/ new = key => Records(ws, key)
  BY DEF AllTag, Tags, Records
<1> QED
  BY <1>1, <1>2 DEF TaggedBy

\* A list of what is to be written is replaced.
LEMMA TodoIs ==
    ASSUME WorkInv
    PROVE  /\ todo[host] \in Seq(HostWrites)
           /\ \A p \in Processes : \A ws : todo' = [todo EXCEPT ![p] = ws] =>
                 todo'[p] = ws /\ \A q \in Processes \ {p} : todo'[q] = todo[q]
           /\ Processes = {host, cli, operator} /\ host # cli /\ host # operator /\ cli # operator
BY DEF WorkInv, TodoInv, Fit, Processes, host, cli, operator

\* What a step of the host keeps of a request.
HostKeeps(key, G) ==
    /\ TaggedBy(todo'[host], key, G) /\ Tagged(tasks', key) \subseteq G
    /\ Sure(session, todo[host], key) => Sure(session', todo'[host], key)

\* What is so of a request while the host is at a write.
HostHolds(key, G) ==
    WorkInv /\ key \in Keys /\ TaggedBy(todo[host], key, G) /\ Tagged(tasks, key) \subseteq G

\* A write of neither tasks nor session, and one that ends the call.
LEMMA OtherRequests ==
    ASSUME NEW key, NEW G, HostHolds(key, G), ~Idle(host), Next1(host).file \notin {"plan", "session"},
           Goes(host) \/ Raises(host), Tagged(tasks', key) \subseteq G,
           session'.done = session.done
    PROVE  HostKeeps(key, G)
<1> DEFINE ws == todo[host]
<1>1. ws # <<>> /\ ws \in Seq(HostWrites) /\ Next1(host) = Head(ws) /\ (todo'[host] = Tail(ws) \/ todo'[host] = <<>>)
  BY TodoIs DEF Idle, Next1, Goes, Raises, HostHolds
<1>2. TaggedBy(Tail(ws), key, G) /\ TaggedBy(<<>>, key, G)
  BY <1>1, TailRequests DEF HostHolds, TaggedBy
<1>3. Sure(session, ws, key) => Records(Tail(ws), key) /\ session.done[key] # 0
  BY <1>1, TailRequests
<1>4. Records(<<>>, key)
  BY DEF Records
<1> HIDE DEF ws
<1>5. Sure(session, ws, key) => Sure(session', todo'[host], key)
  BY <1>1, <1>3, <1>4 DEF Sure
<1> QED
  BY <1>1, <1>2, <1>5 DEF HostKeeps, ws

\* A task is saved with its request.
LEMMA TaskTagged ==
    ASSUME DataInv, NEW id \in TaskIds, NEW r, tasks' = [tasks EXCEPT ![id] = r],
           NEW key, NEW G, Tagged(tasks, key) \subseteq G, r.request = key => id \in G
    PROVE  Tagged(tasks', key) \subseteq G
<1>1. tasks \in [TaskIds -> TaskRecords \cup {None}]
  BY DataFacts
<1>2. ASSUME NEW other \in TaskIds, tasks'[other] # None, tasks'[other].request = key PROVE other \in G
  <2>1. CASE other = id
    <3>1. tasks'[other] = r
      BY <1>1, <2>1
    <3> QED
      BY <1>2, <2>1, <3>1
  <2>2. CASE other # id
    <3>1. tasks'[other] = tasks[other]
      BY <1>1, <2>2
    <3> QED
      BY <1>2, <3>1 DEF Tagged
  <2> QED
    BY <2>1, <2>2
<1> QED
  BY <1>2 DEF Tagged

\* The pipeline saves a task.
LEMMA PlanRequests ==
    ASSUME NEW key, NEW G, HostHolds(key, G), WritePlan(host)
    PROVE  HostKeeps(key, G)
<1> DEFINE w == Next1(host)
           ws == todo[host]
<1>1. /\ ~Idle(host) /\ w.file = "plan" /\ Goes(host) /\ UNCHANGED session
      /\ tasks' = [tasks EXCEPT ![w.id] = w.to]
  BY DEF WritePlan, Writes
<1>2. ws # <<>> /\ ws \in Seq(HostWrites) /\ w = Head(ws) /\ todo'[host] = Tail(ws)
  BY <1>1, TodoIs DEF Idle, Next1, Goes, HostHolds
<1>3. w \in HostWrites
  BY <1>1, NextIs DEF HostHolds
<1>4. w.id \in TaskIds
  BY <1>1, <1>3, HostWriteIs
<1> HIDE DEF w, ws
<1>5. TaggedBy(Tail(ws), key, G) /\ (w.to.request = key => w.id \in G)
  BY <1>1, <1>2, TailRequests DEF HostHolds, ws
<1>6. Sure(session, ws, key) => Records(Tail(ws), key) /\ (session.done[key] # 0 \/ Leads(Tail(ws)))
  BY <1>1, <1>2, TailRequests
<1>7. Tagged(tasks', key) \subseteq G
  <2> DEFINE r == w.to
             id == w.id
  <2>1. DataInv /\ Tagged(tasks, key) \subseteq G /\ tasks' = [tasks EXCEPT ![id] = r]
    BY <1>1 DEF HostHolds, WorkInv
  <2>2. id \in TaskIds /\ (r.request = key => id \in G)
    BY <1>4, <1>5
  <2> HIDE DEF r, id
  <2> QED
    BY <2>1, <2>2, TaskTagged
<1> QED
  BY <1>1, <1>2, <1>5, <1>6, <1>7 DEF HostKeeps, Sure, ws

\* A service saves a task.
LEMMA TaskRequests ==
    ASSUME NEW key, NEW G, HostHolds(key, G), WriteTask(host)
    PROVE  HostKeeps(key, G)
<1> DEFINE w == Next1(host)
           ws == todo[host]
           r == IF w.to.status = "execute" THEN Executed(w.to) ELSE w.to
           seen == IF r.ref = None THEN None ELSE versions[r.ref.theme][r.ref.n]
           s == [r EXCEPT !.seen = seen]
<1>1. ~Idle(host) /\ w.file = "task" /\ UNCHANGED session
  BY DEF WriteTask, Writes
<1>2. ws # <<>> /\ ws \in Seq(HostWrites) /\ w = Head(ws)
  BY <1>1, TodoIs DEF Idle, Next1, HostHolds
<1>3. w \in HostWrites
  BY <1>1, NextIs DEF HostHolds
<1>4. w.id \in TaskIds /\ w.to \in Drafts
  BY <1>1, <1>3, HostWriteIs
<1>5. CASE ~Loads(w.id)
  <2>1. Raises(host) /\ UNCHANGED tasks
    BY <1>5 DEF WriteTask
  <2> QED
    BY <1>1, <2>1, OtherRequests DEF HostHolds
<1>6. CASE Loads(w.id)
  <2>1. Goes(host) /\ tasks' = [tasks EXCEPT ![w.id] = s]
    BY <1>6 DEF WriteTask
  <2>2. r.request = w.to.request /\ "request" \in DOMAIN r
    BY <1>4 DEF Executed, Drafts
  <2>3. s.request = w.to.request
    <3> HIDE DEF r, seen
    <3> QED
      BY <2>2
  <2> HIDE DEF w, s, ws
  <2>4. w.to.request = key => w.id \in G
    BY <1>1, <1>2, TailRequests DEF HostHolds, ws
  <2>5. Tagged(tasks', key) \subseteq G
    BY <1>4, <2>1, <2>3, <2>4, TaskTagged DEF HostHolds, WorkInv
  <2> QED
    BY <1>1, <2>1, <2>5, OtherRequests DEF w
<1> QED
  BY <1>5, <1>6

\* The session is saved.
LEMMA SessionRequests ==
    ASSUME NEW key, NEW G, HostHolds(key, G), WriteSession(host)
    PROVE  HostKeeps(key, G)
<1> DEFINE w == Next1(host)
           ws == todo[host]
<1>1. ~Idle(host) /\ w.file = "session" /\ Goes(host) /\ session' = w.to /\ UNCHANGED tasks
  BY DEF WriteSession, Writes
<1>2. ws # <<>> /\ ws \in Seq(HostWrites) /\ w = Head(ws) /\ todo'[host] = Tail(ws)
  BY <1>1, TodoIs DEF Idle, Next1, Goes, HostHolds
<1> HIDE DEF w, ws
<1>3. TaggedBy(Tail(ws), key, G)
  BY <1>2, TailRequests DEF HostHolds, ws
<1>4. Sure(session, ws, key) => Records(Tail(ws), key) /\ w.to.done[key] # 0
  BY <1>1, <1>2, TailRequests
<1> QED
  BY <1>1, <1>2, <1>3, <1>4 DEF HostKeeps, HostHolds, Sure, ws

\* The host finds out what else to write.
LEMMA MoreRequests ==
    ASSUME NEW key, NEW G, HostHolds(key, G), ~Idle(host), Next1(host).file \notin {"plan", "session"},
           NEW s \in Seq(HostWrites), Continues(host, s), AllTag(s, session, tasks, None, 0),
           UNCHANGED <<session, tasks>>
    PROVE  HostKeeps(key, G)
<1> DEFINE ws == todo[host]
<1>1. ws # <<>> /\ ws \in Seq(HostWrites) /\ Next1(host) = Head(ws) /\ todo'[host] = s \o Tail(ws)
  BY TodoIs DEF Idle, Next1, Continues, HostHolds
<1>2. Tail(ws) \in Seq(HostWrites)
  BY <1>1, WriteLeft
<1>3. key # None
  BY ConversationAssumption DEF HostHolds
<1>4. TaggedBy(s, key, G) /\ (session.done[key] # 0 => Records(s, key))
  BY <1>3, TagsAre DEF HostHolds
<1>5. TaggedBy(Tail(ws), key, G)
  BY <1>1, TailRequests DEF HostHolds
<1>6. Sure(session, ws, key) => Records(Tail(ws), key) /\ session.done[key] # 0
  BY <1>1, TailRequests
<1> HIDE DEF ws
<1>7. TaggedBy(s \o Tail(ws), key, G)
  BY <1>2, <1>4, <1>5, JoinRequests
<1>8. Sure(session, ws, key) => Records(s \o Tail(ws), key) /\ session.done[key] # 0
  BY <1>2, <1>4, <1>6, JoinRequests
<1> QED
  BY <1>1, <1>7, <1>8 DEF HostKeeps, HostHolds, Sure, ws

\* A theme is derived on the way.
LEMMA DeriveRequests ==
    ASSUME NEW key, NEW G, HostHolds(key, G), DeriveHere(host) \/ LinkSource(host)
    PROVE  HostKeeps(key, G)
<1> DEFINE w == Next1(host)
           ref == bound["conversation"]
           kinds == {"conversation"}
<1>1. ~Idle(host) /\ w.file \in {"derive", "link"} /\ UNCHANGED <<session, tasks>>
  BY DEF DeriveHere, LinkSource, Writes, talkVars
<1>2. w \in HostWrites
  BY <1>1, NextIs DEF HostHolds
<1>3. w.src \in Sources /\ (w.file = "derive" => w.theme \in Themes /\ w.n \in 0..MaxVersions)
  BY <1>1, <1>2, HostWriteIs
<1>4. {w.src} \in SUBSET Sources /\ DataInv
  BY <1>3 DEF HostHolds, WorkInv
<1>5. ref # None => ref.theme \in Themes
  <2>1. ref \in Found(Len(looks)) \cup {None}
    BY <1>4, DataFacts DEF Kinds
  <2> QED
    BY <2>1 DEF Found
<1>6. ASSUME NEW s, Light(s), \E any : Fit(s, versions, tasks, any), Continues(host, s)
      PROVE  HostKeeps(key, G)
  <2>1. s \in Seq(HostWrites) /\ AllTag(s, session, tasks, None, 0)
    BY <1>6, LightIs DEF Fit
  <2> QED
    BY <1>1, <1>6, <2>1, MoreRequests
<1> DEFINE Made1 == Create(w.theme, {w.src}, kinds)
           Made2 == Derive(w.theme, w.n, {w.src}, kinds)
           Made3 == Derive(ref.theme, ref.n, {w.src}, kinds)
<1>7. CASE DeriveHere(host)
  <2>1. /\ w.file = "derive"
        /\ \/ Continues(host, Made1)
           \/ CanDerive(w.theme, w.n) /\ Continues(host, Made2)
    BY <1>7 DEF DeriveHere, Writes
  <2>2. w.theme \in Themes
    BY <1>3, <2>1
  <2> HIDE DEF w
  <2>3. Light(Made1) /\ Fit(Made1, versions, tasks, None)
    BY <1>4, <2>2, CreateFits
  <2>4. CanDerive(w.theme, w.n) => Light(Made2) /\ Fit(Made2, versions, tasks, None)
    BY <1>4, <2>2, DerivesFrom
  <2> HIDE DEF Made1, Made2
  <2> QED
    BY <1>6, <2>1, <2>3, <2>4
<1>8. CASE LinkSource(host)
  <2>1. \/ Goes(host) \/ Raises(host)
        \/ ref # None /\ CanDerive(ref.theme, ref.n) /\ Continues(host, Made3)
    BY <1>8 DEF LinkSource, Selected
  <2> HIDE DEF w, ref
  <2>2. ref # None /\ CanDerive(ref.theme, ref.n) => Light(Made3) /\ Fit(Made3, versions, tasks, None)
    BY <1>4, <1>5, DerivesFrom
  <2> HIDE DEF Made3
  <2>3. CASE Goes(host) \/ Raises(host)
    BY <1>1, <2>3, OtherRequests DEF w, HostHolds
  <2> QED
    BY <1>6, <2>1, <2>2, <2>3
<1> QED
  BY <1>7, <1>8

\* A plan that lacks its image is mended.
LEMMA RepairRequests ==
    ASSUME NEW key, NEW G, HostHolds(key, G), Repair(host)
    PROVE  HostKeeps(key, G)
<1> DEFINE a == [Now EXCEPT !.reg = "required"]
           b == [Now EXCEPT !.reg = "registered"]
           m == SaveTask(Active, Mended(Current))
<1>1. ~Idle(host) /\ Next1(host).file = "repair" /\ UNCHANGED <<session, tasks>>
  BY DEF Repair, Writes, talkVars
<1>2. DataInv
  BY DEF HostHolds, WorkInv
<1>3. Fits(Save(a)) /\ Fits(Save(b))
  <2>1. Alike(a) /\ Alike(b)
    BY <1>2, AlikeKeeps
  <2> HIDE DEF a, b
  <2> QED
    BY <1>2, <2>1, PartsFit
<1>4. Active # 0 => Fits(m)
  BY <1>2, CurrentIs
<1>5. \/ Goes(host) \/ Raises(host) \/ Continues(host, Save(a))
      \/ Active # 0 /\ Continues(host, m \o Save(b))
  BY DEF Repair
<1> HIDE DEF a, b, m
<1>6. Active # 0 => Fits(m \o Save(b))
  BY <1>2, <1>3, <1>4, PartsFit
<1>7. ASSUME NEW s, Fits(s), Continues(host, s) PROVE HostKeeps(key, G)
  <2>1. s \in Seq(HostWrites) /\ AllTag(s, session, tasks, None, 0)
    BY <1>7 DEF Fits, Suits, Fit
  <2> QED
    BY <1>1, <1>7, <2>1, MoreRequests
<1>8. CASE Goes(host) \/ Raises(host)
  BY <1>1, <1>8, OtherRequests DEF HostHolds
<1> QED
  BY <1>3, <1>5, <1>6, <1>7, <1>8

\* Every write of the host.
LEMMA HostRequests ==
    ASSUME NEW key, NEW G, HostHolds(key, G), WriteNext(host)
    PROVE  HostKeeps(key, G)
<1>1. CASE WriteTheme(host) /\ UNCHANGED <<talkVars, cases>>
  <2>1. /\ ~Idle(host) /\ Next1(host).file \notin {"plan", "session"} /\ Goes(host)
        /\ UNCHANGED <<session, tasks>>
    BY <1>1 DEF WriteTheme, WriteVersion, WriteIndex, WriteBinding, Unlink, Writes, talkVars
  <2> QED
    BY <2>1, OtherRequests DEF HostHolds
<1>2. CASE WriteSource(host) \/ WriteConfig(host) \/ WriteConnection(host) \/ LoadActive(host)
  <2>1. /\ ~Idle(host) /\ Next1(host).file \notin {"plan", "session"} /\ (Goes(host) \/ Raises(host))
        /\ UNCHANGED <<session, tasks>>
    BY <1>2 DEF WriteSource, WriteConfig, WriteConnection, LoadActive, Writes, talkVars
  <2> QED
    BY <2>1, OtherRequests DEF HostHolds
<1>3. CASE WriteTalk(host)
  BY <1>2, <1>3, PlanRequests, TaskRequests, SessionRequests, DeriveRequests, RepairRequests DEF WriteTalk
<1>4. CASE WriteCase(host) /\ UNCHANGED <<themeVars, talkVars>>
  <2>1. /\ ~Idle(host) /\ Next1(host).file \notin {"plan", "session"} /\ Goes(host)
        /\ UNCHANGED <<session, tasks>>
    BY <1>4 DEF WriteCase, Writes, talkVars
  <2> QED
    BY <2>1, OtherRequests DEF HostHolds
<1>5. CASE Sync(host)
  BY <1>5 DEF Sync, talkVars, HostKeeps, HostHolds
<1>6. CASE ShowView(host)
  <2>1. /\ ~Idle(host) /\ Next1(host).file \notin {"plan", "session"} /\ (Goes(host) \/ Raises(host))
        /\ UNCHANGED tasks /\ session' \in {session, [Now EXCEPT !.case = ActiveCase]}
    BY <1>6 DEF ShowView, Writes
  <2>2. [Now EXCEPT !.case = ActiveCase].done = session.done
    BY NowIs, DoneKeeps DEF HostHolds, WorkInv
  <2> QED
    BY <2>1, <2>2, OtherRequests DEF HostHolds
<1> QED
  BY <1>1, <1>3, <1>4, <1>5, <1>6 DEF WriteNext
\* A set of tasks has a size.
LEMMA TasksCount ==
    ASSUME NEW G \in SUBSET TaskIds
    PROVE  /\ Cardinality(G) \in Nat
           /\ \A id \in TaskIds : Cardinality(G \cup {id}) <= Cardinality(G) + 1
           /\ \A F : F \subseteq G => Cardinality(F) <= Cardinality(G)
<1>1. IsFiniteSet(TaskIds)
  BY FS_Interval, ConversationAssumption DEF TaskIds
<1>2. IsFiniteSet(G)
  BY <1>1, FS_Subset
<1> QED
  BY <1>2, FS_CardinalityType, FS_AddElement, FS_Subset

\* A step that writes no task but those of the host, and no backup ends.
LEMMA CoversOn ==
    ASSUME NEW key, NEW G, Covers(G, key), Watch, UNCHANGED archive, Tagged(tasks', key) \subseteq G,
           TaggedBy(todo'[host], key, G), Restored(todo'[operator], key, G)
    PROVE  Covers(G, key)'
<1>1. Making("archive")' => backup' = backup
  BY DEF Watch, Making
<1> QED
  BY <1>1 DEF Covers, Making

\* One more task is no less.
LEMMA CoversMore ==
    ASSUME NEW key, NEW G, NEW id, Covers(G, key)
    PROVE  Covers(G \cup {id}, key)
BY DEF Covers, TaggedBy, Restored

\* A step of which nothing goes wrong.
LEMMA BudgetOn ==
    ASSUME WorkInv, NEW key, NEW G \in SUBSET TaskIds, Budget(G, key), UNCHANGED <<crashes, restores>>,
           todo'[operator] = todo[operator],
           Sure(session, todo[host], key) => Sure(session', todo'[host], key)
    PROVE  Budget(G, key)'
<1>1. crashes \in Nat /\ restores \in Nat /\ Cardinality(G) \in Nat
  BY TasksCount, WorkspaceAssumption DEF WorkInv, DataInv, TypeOK
<1>2. Sets' = Sets /\ Sets \in {0, 1}
  BY DEF Sets
<1> HIDE DEF Sets
<1>3. Cardinality(G) + Sets <= crashes + restores + IF Sure(session, todo[host], key) THEN 1 ELSE 0
  BY DEF Budget
<1>4. Cardinality(G) + Sets' <= crashes' + restores' + IF Sure(session', todo'[host], key) THEN 1 ELSE 0
  BY <1>1, <1>2, <1>3
<1> QED
  BY <1>4 DEF Budget

\* One of which something does, or that writes the session of a restore.
LEMMA BudgetSpent ==
    ASSUME WorkInv, NEW key, NEW G \in SUBSET TaskIds, Budget(G, key),
           \/ Sets = 1 /\ Sets' = 0 /\ UNCHANGED <<crashes, restores>>
           \/ Sets' \in {0, Sets} /\ crashes' = crashes + 1 /\ UNCHANGED restores
           \/ Sets' \in {0, Sets} /\ restores' = restores + 1 /\ UNCHANGED crashes
    PROVE  Budget(G, key)'
<1> DEFINE n == Cardinality(G)
<1>1. crashes \in Nat /\ restores \in Nat /\ n \in Nat /\ Sets \in {0, 1}
  BY TasksCount, WorkspaceAssumption DEF WorkInv, DataInv, TypeOK, Sets
<1> HIDE DEF Sets, n
<1>2. n + Sets <= crashes + restores + 1
  BY <1>1 DEF Budget, n
<1>3. n + Sets' <= crashes' + restores' + IF Sure(session', todo'[host], key) THEN 1 ELSE 0
  BY <1>1, <1>2
<1> QED
  BY <1>3 DEF Budget, n

\* A step of the host or of the command line that keeps every request.
LEMMA RequestsOn ==
    ASSUME WorkInv, RequestInv, Watch, UNCHANGED <<archive, crashes, restores>>,
           todo'[operator] = todo[operator],
           \A key, G : HostHolds(key, G) => HostKeeps(key, G)
    PROVE  RequestInv'
<1>1. InGroups'
  BY DEF RequestInv, InGroups
<1>2. ASSUME NEW key \in Keys PROVE \E G \in SUBSET TaskIds : Covers(G, key)' /\ Budget(G, key)'
  <2>1. PICK G \in SUBSET TaskIds : Covers(G, key) /\ Budget(G, key)
    BY DEF RequestInv
  <2>2. HostKeeps(key, G)
    BY <2>1 DEF HostHolds, Covers
  <2>3. Covers(G, key)'
    <3>1. Restored(todo'[operator], key, G)
      BY <2>1 DEF Covers
    <3> QED
      BY <2>1, <2>2, <3>1, CoversOn DEF HostKeeps
  <2>4. Budget(G, key)'
    BY <2>1, <2>2, BudgetOn DEF HostKeeps
  <2> QED
    BY <2>3, <2>4
<1> QED
  BY <1>1, <1>2 DEF RequestInv

\* A call of the conversation: one for a new request is the first to have it.
LEMMA CallRequests == WorkInv /\ RequestInv /\ Calls => RequestInv'
<1> SUFFICES ASSUME WorkInv, RequestInv, Calls PROVE RequestInv'
  OBVIOUS
<1>1. UNCHANGED <<session, tasks, archive, crashes, restores>> /\ Watch /\ DataInv
  BY DEF Calls, Beside, workVars, talkVars, WorkInv
<1>2. Asks
  BY <1>1, TalkAsks, ImproveAsks DEF Calls
<1>3. PICK ws : /\ todo' = [todo EXCEPT ![host] = ws] /\ ws \in Seq(HostWrites)
                /\ \E new, id : Requests(ws, new, id)
  BY <1>2 DEF Asks, Fit
<1>4. PICK new, id : Requests(ws, new, id)
  BY <1>3
<1>5. todo'[host] = ws /\ todo'[operator] = todo[operator] /\ todo[host] = <<>>
  <2>1. operator \in Processes \ {host} /\ host \in Processes
    BY TodoIs
  <2> QED
    BY <1>2, <1>3, <2>1, TodoIs DEF Asks, Idle
<1>6. InGroups'
  BY <1>5 DEF RequestInv, InGroups
<1>7. ~Leads(<<>>)
  BY DEF Leads
<1>8. ASSUME NEW key \in Keys PROVE \E G \in SUBSET TaskIds : Covers(G, key)' /\ Budget(G, key)'
  <2>1. PICK G \in SUBSET TaskIds : Covers(G, key) /\ Budget(G, key)
    BY DEF RequestInv
  <2>2. AllTag(ws, session, tasks, new, id)
    BY <1>4 DEF Requests
  <2>3. Sure(session, todo[host], key) => session.done[key] # 0
    BY <1>5, <1>7 DEF Sure
  <2>4. CASE new # key
    <3>1. TaggedBy(ws, key, G) /\ (session.done[key] # 0 => Records(ws, key))
      <4>1. Tagged(tasks, key) \subseteq G
        BY <2>1 DEF Covers
      <4> QED
        BY <1>3, <2>2, <2>4, <4>1, TagsAre
    <3>2. Covers(G, key)'
      <4>1. Restored(todo'[operator], key, G) /\ Tagged(tasks', key) \subseteq G
        BY <1>1, <1>5, <2>1 DEF Covers
      <4> QED
        BY <1>1, <1>5, <2>1, <3>1, <4>1, CoversOn
    <3>3. Sure(session, todo[host], key) => Sure(session', todo'[host], key)
      BY <1>1, <1>5, <2>3, <3>1 DEF Sure
    <3> QED
      BY <1>1, <1>5, <2>1, <3>2, <3>3, BudgetOn
  <2>5. CASE new = key
    <3> DEFINE H == G \cup {id}
    <3>1. id \in TaskIds /\ session.done[key] = 0 /\ Leads(ws)
      BY <1>4, <2>5 DEF Requests
    <3>2. Covers(H, key) /\ H \in SUBSET TaskIds /\ id \in H
      BY <2>1, <3>1, CoversMore
    <3>3. Cardinality(H) <= Cardinality(G) + 1 /\ Cardinality(H) \in Nat /\ Cardinality(G) \in Nat
      BY <3>1, <3>2, TasksCount
    <3> HIDE DEF H
    <3>4. TaggedBy(ws, key, H) /\ Records(ws, key)
      <4>1. Tagged(tasks, key) \subseteq H
        BY <3>2 DEF Covers
      <4> QED
        BY <1>3, <2>2, <2>5, <3>2, <4>1, TagsAre
    <3>5. Covers(H, key)'
      <4>1. Restored(todo'[operator], key, H) /\ Tagged(tasks', key) \subseteq H
        BY <1>1, <1>5, <3>2 DEF Covers
      <4> QED
        BY <1>1, <1>5, <3>2, <3>4, <4>1, CoversOn
    <3>6. Sure(session', todo'[host], key) /\ ~Sure(session, todo[host], key)
      BY <1>1, <1>5, <2>3, <3>1, <3>4 DEF Sure
    <3>7. Budget(H, key)'
      <4>1. Sets' = Sets /\ Sets \in {0, 1} /\ crashes \in Nat /\ restores \in Nat
        BY <1>1, <1>5, WorkspaceAssumption DEF Sets, DataInv, TypeOK
      <4> HIDE DEF Sets
      <4>2. Cardinality(G) + Sets <= crashes + restores
        BY <2>1, <3>3, <3>6, <4>1 DEF Budget
      <4>3. Cardinality(H) + Sets' <= crashes' + restores' + 1
        BY <1>1, <3>3, <4>1, <4>2
      <4> QED
        BY <3>6, <4>3 DEF Budget
    <3> QED
      BY <3>2, <3>5, <3>7
  <2> QED
    BY <2>4, <2>5
<1> QED
  BY <1>6, <1>8 DEF RequestInv

\* The command line writes nothing of the conversation.
LEMMA CliLeavesTalk ==
    ASSUME WorkInv, CliCalls \/ WriteNext(cli)
    PROVE  /\ UNCHANGED <<session, tasks, cases>>
           /\ \E ws : todo' = [todo EXCEPT ![cli] = ws]
<1>1. CASE CliCalls
  BY <1>1, CliLeaves DEF CliCalls, talkVars, Leaves
<1>2. CASE WriteNext(cli)
  <2>1. ~Idle(cli)
    BY <1>2 DEF WriteNext, WriteTheme, WriteVersion, WriteIndex, WriteBinding, Unlink, WriteTalk, WritePlan,
           WriteTask, WriteSession, WriteSource, WriteConfig, WriteConnection, LoadActive, DeriveHere,
           LinkSource, Repair, WriteCase, Sync, ShowView, Writes
  <2>2. Next1(cli) \in CliWrites
    BY <2>1, WriteLeft DEF WorkInv, TodoInv, CliFit, Next1, Idle
  <2>3. Next1(cli).file \in {"version", "index", "binding", "legacy", "config", "connection"}
    BY <2>2, CliWriteIs
  <2>4. UNCHANGED <<session, tasks, cases>> /\ Goes(cli)
    <3>1. CASE WriteTheme(cli) /\ UNCHANGED <<talkVars, cases>>
      BY <3>1 DEF WriteTheme, WriteVersion, WriteIndex, WriteBinding, Unlink, talkVars
    <3>2. CASE (WriteConfig(cli) \/ WriteConnection(cli)) /\ UNCHANGED cases
      BY <3>2 DEF WriteConfig, WriteConnection
    <3> QED
      BY <1>2, <2>3, <3>1, <3>2
         DEF WriteNext, WriteTalk, WritePlan, WriteTask, WriteSession, WriteSource, LoadActive,
             DeriveHere, LinkSource, Repair, WriteCase, Sync, ShowView, Writes
  <2> QED
    BY <2>4 DEF Goes
<1> QED
  BY <1>1, <1>2

\* The command line is no part of a request.
LEMMA CliRequests == WorkInv /\ RequestInv /\ (CliCalls \/ WriteNext(cli)) => RequestInv'
<1> SUFFICES ASSUME WorkInv, RequestInv, CliCalls \/ WriteNext(cli) PROVE RequestInv'
  OBVIOUS
<1>1. host \in Processes \ {cli} /\ operator \in Processes \ {cli} /\ cli \in Processes
  BY TodoIs
<1>2. /\ UNCHANGED <<session, tasks, archive, crashes, restores>> /\ Watch
      /\ \E ws : todo' = [todo EXCEPT ![cli] = ws]
  BY CliLeavesTalk DEF CliCalls, WriteNext, Beside
<1>3. todo'[host] = todo[host] /\ todo'[operator] = todo[operator]
  BY <1>1, <1>2, TodoIs
<1>4. ASSUME NEW key, NEW G, HostHolds(key, G) PROVE HostKeeps(key, G)
  BY <1>2, <1>3, <1>4 DEF HostHolds, HostKeeps
<1> QED
  BY <1>2, <1>3, <1>4, RequestsOn
\* The host writes.
LEMMA WriteRequests == WorkInv /\ RequestInv /\ WriteNext(host) => RequestInv'
<1> SUFFICES ASSUME WorkInv, RequestInv, WriteNext(host) PROVE RequestInv'
  OBVIOUS
<1>1. Watch /\ UNCHANGED <<archive, crashes, restores>>
  BY DEF WriteNext, Beside
<1>2. todo' = todo \/ \E ws : todo' = [todo EXCEPT ![host] = ws]
  BY WriteLeaves DEF WriteNext, Leaves, Sync
<1>3. todo'[operator] = todo[operator]
  <2>1. operator \in Processes \ {host} /\ host \in Processes
    BY TodoIs
  <2> QED
    BY <1>2, <2>1, TodoIs
<1> QED
  BY <1>1, <1>3, HostRequests, RequestsOn

\* What a process that dies had still to write is not written.
LEMMA CrashRequests == ASSUME WorkInv, RequestInv, NEW p \in Processes, Crash(p) PROVE RequestInv'
<1>1. /\ UNCHANGED <<session, tasks, archive, restores>> /\ Watch
      /\ crashes' = crashes + 1 /\ todo' = [todo EXCEPT ![p] = <<>>]
  BY DEF Crash, Raises, workVars, talkVars
<1>2. /\ host \in Processes /\ operator \in Processes
      /\ \A q \in Processes : todo'[q] \in {todo[q], <<>>}
  BY <1>1, TodoIs
<1>3. /\ todo'[host] \in {todo[host], <<>>} /\ todo'[operator] \in {todo[operator], <<>>}
      /\ Len(<<>>) = 0
  BY <1>2
<1>4. InGroups'
  <2>1. CASE todo'[operator] = todo[operator]
    BY <2>1 DEF RequestInv, InGroups
  <2>2. CASE todo'[operator] = <<>>
    BY <2>2 DEF InGroups
  <2> QED
    BY <1>3, <2>1, <2>2
<1>5. Sets' \in {0, Sets}
  BY <1>3 DEF Sets
<1>6. ASSUME NEW key \in Keys PROVE \E G \in SUBSET TaskIds : Covers(G, key)' /\ Budget(G, key)'
  <2>1. PICK G \in SUBSET TaskIds : Covers(G, key) /\ Budget(G, key)
    BY DEF RequestInv
  <2>2. TaggedBy(todo'[host], key, G) /\ Restored(todo'[operator], key, G)
    BY <1>3, <2>1 DEF Covers, TaggedBy, Restored
  <2>3. Tagged(tasks', key) \subseteq G
    BY <1>1, <2>1 DEF Covers
  <2>4. Covers(G, key)'
    BY <1>1, <2>1, <2>2, <2>3, CoversOn
  <2>5. Budget(G, key)'
    BY <1>1, <1>5, <2>1, BudgetSpent
  <2> QED
    BY <2>4, <2>5
<1> QED
  BY <1>4, <1>6 DEF RequestInv

\* A restore is planned: it is to write the tasks and the session of the archive.
LEMMA RestoreRequests == WorkInv /\ RequestInv /\ Restore => RequestInv'
<1> SUFFICES ASSUME WorkInv, RequestInv, Restore PROVE RequestInv'
  OBVIOUS
<1> DEFINE w(i) == [file |-> "restore", group |-> Groups[i], to |-> PlannedFor(Groups[i])]
           ws == [i \in 1..5 |-> w(i)]
<1>1. /\ archive # None /\ Idle(operator) /\ restores' = restores + 1 /\ backup = None
      /\ UNCHANGED <<session, tasks, archive, backup, crashes>>
  BY DEF Restore, CanRestore, workVars, talkVars
<1>2. todo' = [todo EXCEPT ![operator] = ws]
  BY FiveGroups DEF Restore, Call
<1>3. Len(ws) = 5 /\ \A i \in 1..5 : ws[i].group = Groups[i] /\ ws[i].to = PlannedFor(Groups[i])
  OBVIOUS
<1> HIDE DEF w, ws
<1>4. todo'[operator] = ws /\ todo'[host] = todo[host]
  <2>1. host \in Processes \ {operator} /\ operator \in Processes
    BY TodoIs
  <2> QED
    BY <1>2, <2>1, TodoIs
<1>5. InGroups'
  <2>1. \A i \in 1..Len(ws) : Len(ws) <= 5 /\ ws[i].group = Groups[(5 - Len(ws)) + i]
    BY <1>3
  <2> QED
    BY <1>4, <2>1 DEF InGroups
<1>6. Watch
  BY <1>1 DEF Watch, Making
<1>7. \A id \in TaskIds : PlannedFor("runs")[id] # None => PlannedFor("runs")[id] = archive.files.runs[id]
  <2>1. PlannedFor("runs") = DifferingIn(archive.files.runs, tasks)
    BY DEF PlannedFor, Tree
  <2>2. archive.files.runs \in [TaskIds -> TaskRecords \cup {None}]
    BY <1>1 DEF WorkInv, CopiesInv, Snapshot, Kept
  <2> QED
    BY <2>1, <2>2 DEF DifferingIn, Differing
<1>8. Sets = 0 /\ Sets' = 1
  <2>1. Len(todo[operator]) = 0 /\ Len(todo'[operator]) = 5
    BY <1>1, <1>3, <1>4 DEF Idle
  <2> QED
    BY <2>1 DEF Sets
<1>9. ASSUME NEW key \in Keys PROVE \E G \in SUBSET TaskIds : Covers(G, key)' /\ Budget(G, key)'
  <2>1. PICK G \in SUBSET TaskIds : Covers(G, key) /\ Budget(G, key)
    BY DEF RequestInv
  <2>2. Tagged(PlannedFor("runs"), key) \subseteq G
    BY <1>1, <1>7, <2>1 DEF Covers, Tagged
  <2>3. Restored(ws, key, G)
    BY <1>3, <2>2 DEF Restored
  <2>4. TaggedBy(todo'[host], key, G) /\ Tagged(tasks', key) \subseteq G
    BY <1>1, <1>4, <2>1 DEF Covers
  <2>5. Covers(G, key)'
    BY <1>1, <1>4, <1>6, <2>1, <2>3, <2>4, CoversOn
  <2>6. Budget(G, key)'
    <3>1. crashes \in Nat /\ restores \in Nat /\ Cardinality(G) \in Nat
      BY TasksCount, WorkspaceAssumption DEF WorkInv, DataInv, TypeOK
    <3>2. Sure(session', todo'[host], key) <=> Sure(session, todo[host], key)
      BY <1>1, <1>4
    <3>3. Cardinality(G) + 0 <= crashes + restores + IF Sure(session, todo[host], key) THEN 1 ELSE 0
      BY <1>8, <2>1 DEF Budget
    <3> HIDE DEF Sets
    <3>4. Cardinality(G) + Sets' <= crashes' + restores' + IF Sure(session', todo'[host], key) THEN 1 ELSE 0
      BY <1>1, <1>8, <3>1, <3>2, <3>3
    <3> QED
      BY <3>4 DEF Budget
  <2> QED
    BY <2>5, <2>6
<1> QED
  BY <1>5, <1>9 DEF RequestInv

\* It writes them, one category after another.
LEMMA GroupRequests == WorkInv /\ BackupInv /\ RequestInv /\ RestoreGroup => RequestInv'
<1> SUFFICES ASSUME WorkInv, BackupInv, RequestInv, RestoreGroup PROVE RequestInv'
  OBVIOUS
<1> DEFINE ws == todo[operator]
           h == Head(ws)
           n == Len(ws)
<1>1. /\ ~Idle(operator) /\ Goes(operator)
      /\ session' = IF h.group = "session" /\ h.to # None THEN h.to ELSE session
      /\ tasks' = IF h.group = "runs" THEN Over(h.to, tasks) ELSE tasks
      /\ UNCHANGED <<archive, backup, restores, crashes>>
  BY DEF RestoreGroup, Writes, Next1
<1>2. ws # <<>> /\ RestoreFit(ws, Len(looks), tasks)
  BY <1>1 DEF Idle, WorkInv, TodoInv
<1>3. PICK S : ws \in Seq(S)
  BY <1>2 DEF RestoreFit
<1>4. /\ h = ws[1] /\ 1 \in 1..n /\ n \in Nat /\ Len(Tail(ws)) = n - 1
      /\ \A i \in 1..(n - 1) : Tail(ws)[i] = ws[i + 1]
  BY <1>2, <1>3, WriteLeft
<1>5. todo'[operator] = Tail(ws) /\ todo'[host] = todo[host]
  <2>1. host \in Processes \ {operator} /\ operator \in Processes
    BY TodoIs
  <2> QED
    BY <1>1, <2>1, TodoIs DEF Goes
<1>6. n <= 5 /\ h.group = Groups[6 - n] /\ \A i \in 1..n : ws[i].group = Groups[(5 - n) + i]
  <2>1. n <= 5 /\ \A i \in 1..n : ws[i].group = Groups[(5 - n) + i]
    BY <1>4 DEF RequestInv, InGroups
  <2>2. (5 - n) + 1 = 6 - n
    BY <1>4
  <2> QED
    BY <1>4, <2>1, <2>2
<1>7. Restorable(h, Len(looks), tasks)
  BY <1>2, <1>4 DEF RestoreFit
<1>8. Watch
  BY <1>1 DEF Watch, Making, BackupInv, Held
<1>9. Sets = (IF n >= 3 THEN 1 ELSE 0) /\ Sets' = (IF n - 1 >= 3 THEN 1 ELSE 0)
  BY <1>4, <1>5 DEF Sets
<1> HIDE DEF ws, h, n
<1>10. InGroups'
  <2>1. ASSUME NEW i \in 1..(n - 1)
        PROVE  n - 1 <= 5 /\ Tail(ws)[i].group = Groups[(5 - (n - 1)) + i]
    <3>1. i + 1 \in 1..n /\ (5 - n) + (i + 1) = (5 - (n - 1)) + i /\ n - 1 <= 5
      BY <1>4, <1>6
    <3> QED
      BY <1>4, <1>6, <3>1
  <2> QED
    BY <1>4, <1>5, <2>1 DEF InGroups
<1>11. n # 3 => h.group # "session"
  <2>1. 6 - n \in 1..5 /\ 3 \in 1..5 /\ (n # 3 => 6 - n # 3) /\ Groups[3] = "session"
    BY <1>4, <1>6 DEF Groups
  <2> QED
    BY <1>6, <2>1, FiveGroups
<1>12. ASSUME NEW key, NEW G \in SUBSET TaskIds, Covers(G, key) PROVE Covers(G, key)'
  <2>1. TaggedBy(todo'[host], key, G)
    BY <1>5, <1>12 DEF Covers
  <2>2. \A i \in 1..n : ws[i].group = "runs" => Tagged(ws[i].to, key) \subseteq G
    BY <1>12 DEF Covers, Restored, ws, n
  <2>3. Restored(Tail(ws), key, G)
    <3>1. \A i \in 1..(n - 1) : i + 1 \in 1..n
      BY <1>4
    <3> QED
      BY <1>4, <2>2, <3>1 DEF Restored
  <2>4. Tagged(tasks, key) \subseteq G
    BY <1>12 DEF Covers
  <2>5. Tagged(tasks', key) \subseteq G
    <3>1. CASE h.group = "runs"
      <4>1. h.to \in [TaskIds -> TaskRecords \cup {None}] /\ Tagged(h.to, key) \subseteq G
        BY <1>4, <1>7, <2>2, <3>1 DEF Restorable, Kept
      <4>2. tasks' = [x \in TaskIds |-> IF h.to[x] = None THEN tasks[x] ELSE h.to[x]]
        BY <1>1, <3>1, <4>1 DEF Over
      <4>3. ASSUME NEW id \in TaskIds, tasks'[id] # None, tasks'[id].request = key PROVE id \in G
        <5>1. CASE h.to[id] = None
          <6>1. tasks'[id] = tasks[id]
            BY <4>2, <5>1
          <6> QED
            BY <2>4, <4>3, <6>1 DEF Tagged
        <5>2. CASE h.to[id] # None
          <6>1. tasks'[id] = h.to[id]
            BY <4>2, <5>2
          <6> QED
            BY <4>1, <4>3, <6>1 DEF Tagged
        <5> QED
          BY <5>1, <5>2
      <4> QED
        BY <4>3 DEF Tagged
    <3>2. CASE h.group # "runs"
      BY <1>1, <2>4, <3>2
    <3> QED
      BY <3>1, <3>2
  <2> QED
    BY <1>1, <1>5, <1>8, <1>12, <2>1, <2>3, <2>5, CoversOn
<1>13. ASSUME NEW key, NEW G \in SUBSET TaskIds, Budget(G, key) PROVE Budget(G, key)'
  <2>1. CASE n = 3
    <3>1. Sets = 1 /\ Sets' = 0
      BY <1>9, <2>1
    <3> QED
      BY <1>1, <1>13, <3>1, BudgetSpent
  <2>2. CASE n # 3
    <3>1. Sets' = Sets
      BY <1>4, <1>9, <2>2
    <3>2. session' = session
      BY <1>1, <1>11, <2>2
    <3>3. Budget(G, key)' <=> Cardinality(G) + Sets' <= crashes' + restores' +
                                 IF Sure(session', todo'[host], key) THEN 1 ELSE 0
      BY DEF Budget
    <3> HIDE DEF Sets
    <3> QED
      BY <1>1, <1>5, <1>13, <3>1, <3>2, <3>3 DEF Budget
  <2> QED
    BY <2>1, <2>2
<1> QED
  BY <1>10, <1>12, <1>13 DEF RequestInv

\* Another data root has the tasks of the archive.
LEMMA ElsewhereRequests == WorkInv /\ RequestInv /\ RestoreElsewhere => RequestInv'
<1> SUFFICES ASSUME WorkInv, RequestInv, RestoreElsewhere PROVE RequestInv'
  OBVIOUS
<1>1. /\ archive # None /\ backup = None /\ restores' = restores + 1
      /\ tasks' = archive.files.runs /\ UNCHANGED <<todo, archive, backup, crashes>>
  BY DEF RestoreElsewhere, CanRestore
<1>2. InGroups' /\ Sets' = Sets /\ Watch
  BY <1>1 DEF RequestInv, InGroups, Sets, Watch, Making
<1>3. ASSUME NEW key \in Keys PROVE \E G \in SUBSET TaskIds : Covers(G, key)' /\ Budget(G, key)'
  <2>1. PICK G \in SUBSET TaskIds : Covers(G, key) /\ Budget(G, key)
    BY DEF RequestInv
  <2>2. /\ Tagged(tasks', key) \subseteq G /\ TaggedBy(todo'[host], key, G)
        /\ Restored(todo'[operator], key, G)
    BY <1>1, <2>1 DEF Covers
  <2>3. Covers(G, key)'
    BY <1>1, <1>2, <2>1, <2>2, CoversOn
  <2>4. Budget(G, key)'
    BY <1>1, <1>2, <2>1, BudgetSpent
  <2> QED
    BY <2>3, <2>4
<1> QED
  BY <1>2, <1>3 DEF RequestInv

\* What a backup has are tasks as they were.
LEMMA BackupRequests ==
    ASSUME WorkInv, BackupInv, RequestInv,
           ListFiles \/ HashGroup \/ ArchiveGroup \/ Publish \/ CutBackup \/ UNCHANGED vars
    PROVE  RequestInv'
<1>1. UNCHANGED <<session, tasks, todo, crashes, restores>>
  BY DEF ListFiles, HashGroup, ArchiveGroup, Publish, CutBackup, vars, workVars, talkVars
<1>2. ASSUME NEW key, NEW G, Covers(G, key)
      PROVE  /\ archive' # None => Tagged(archive'.files.runs, key) \subseteq G
             /\ Making("archive")' => Tagged(backup'.moment.runs, key) \subseteq G
  <2>1. CASE ListFiles \/ CutBackup
    <3>1. UNCHANGED archive /\ ~Making("archive")'
      BY <2>1 DEF ListFiles, CutBackup, Making
    <3> QED
      BY <1>2, <3>1 DEF Covers
  <2>2. CASE HashGroup
    <3> DEFINE now == Seen(Tree, backup.listed)
    <3>1. backup'.phase = "archive" => backup'.moment = now
      BY <2>2, HashedIs
    <3>2. now.runs = [id \in TaskIds |-> IF id \in backup.listed.runs THEN tasks[id] ELSE None]
      BY SeenIs
    <3> HIDE DEF now
    <3>3. Tagged(now.runs, key) \subseteq Tagged(tasks, key)
      BY <3>2 DEF Tagged
    <3>4. UNCHANGED archive
      BY <2>2 DEF HashGroup
    <3> QED
      BY <1>2, <3>1, <3>3, <3>4 DEF Covers, Making
  <2>3. CASE ArchiveGroup
    <3>1. Making("archive") /\ backup' = [backup EXCEPT !.at = @ + 1] /\ UNCHANGED archive
      BY <2>3 DEF ArchiveGroup
    <3>2. backup'.moment = backup.moment
      BY <3>1 DEF BackupInv, Archiving
    <3> QED
      BY <1>2, <3>1, <3>2 DEF Covers
  <2>4. CASE Publish
    <3>1. /\ backup' = None
          /\ \/ archive' = None
             \/ Making("archive") /\ archive' = [files |-> backup.copy, moment |-> backup.moment]
      BY <2>4 DEF Publish
    <3>2. archive' # None => Making("archive") /\ archive'.files = backup.moment
      BY <3>1 DEF BackupInv, Archiving
    <3> QED
      BY <1>2, <3>1, <3>2 DEF Covers, Making
  <2>5. CASE UNCHANGED vars
    BY <1>2, <2>5 DEF vars, Covers, Making
  <2> QED
    BY <2>1, <2>2, <2>3, <2>4, <2>5
<1>3. ASSUME NEW key, NEW G, Covers(G, key) PROVE Covers(G, key)'
  BY <1>1, <1>2, <1>3 DEF Covers
<1>4. ASSUME NEW key, NEW G, Budget(G, key) PROVE Budget(G, key)'
  BY <1>1, <1>4 DEF Budget, Sets
<1>5. InGroups'
  BY <1>1 DEF RequestInv, InGroups
<1> QED
  BY <1>3, <1>4, <1>5 DEF RequestInv

\* At first no request was made.
LEMMA RequestInit == Init => RequestInv
<1> SUFFICES ASSUME Init PROVE RequestInv
  OBVIOUS
<1>1. /\ tasks = [id \in TaskIds |-> None] /\ todo[host] = <<>> /\ todo[operator] = <<>>
      /\ archive = None /\ backup = None /\ crashes = 0 /\ restores = 0
  BY DEF Init, InitTalk, Processes
<1>2. Sets = 0 /\ InGroups
  BY <1>1 DEF Sets, InGroups
<1>3. \A key : Covers({}, key)
  BY <1>1 DEF Covers, Tagged, TaggedBy, Restored, Making
<1>4. \A key : Budget({}, key)
  <2>1. Cardinality({}) = 0
    BY FS_EmptySet
  <2> HIDE DEF Sets
  <2> QED
    BY <1>1, <1>2, <2>1 DEF Budget
<1> QED
  BY <1>2, <1>3, <1>4 DEF RequestInv

\* Every step keeps it.
LEMMA RequestStep == WorkInv /\ BackupInv /\ RequestInv /\ [Next]_vars => RequestInv'
<1> SUFFICES ASSUME WorkInv, BackupInv, RequestInv, [Next]_vars PROVE RequestInv'
  OBVIOUS
<1>1. CASE Calls \/ CliCalls
  BY <1>1, CallRequests, CliRequests
<1>2. ASSUME NEW p \in {host, cli}, WriteNext(p) PROVE RequestInv'
  BY <1>2, WriteRequests, CliRequests
<1>3. ASSUME NEW p \in Processes, Crash(p) PROVE RequestInv'
  BY <1>3, CrashRequests
<1>4. CASE ListFiles \/ HashGroup \/ ArchiveGroup \/ Publish \/ CutBackup \/ UNCHANGED vars
  BY <1>4, BackupRequests
<1>5. CASE Restore \/ RestoreGroup \/ RestoreElsewhere
  BY <1>5, RestoreRequests, GroupRequests, ElsewhereRequests
<1> QED
  BY <1>1, <1>2, <1>3, <1>4, <1>5 DEF Next

\* What it says of the system.
LEMMA RequestIs == WorkInv /\ RequestInv => RequestsRunOnce
<1> SUFFICES ASSUME WorkInv, RequestInv, NEW key \in Keys
             PROVE  Cardinality(Tagged(tasks, key)) <= 1 + crashes + restores
  BY DEF RequestsRunOnce, Tagged
<1>1. PICK G \in SUBSET TaskIds : Covers(G, key) /\ Budget(G, key)
  BY DEF RequestInv
<1> DEFINE n == Cardinality(G)
           m == Cardinality(Tagged(tasks, key))
<1>2. Tagged(tasks, key) \subseteq G /\ Tagged(tasks, key) \in SUBSET TaskIds
  BY <1>1 DEF Covers
<1>3. m <= n /\ m \in Nat /\ n \in Nat
  BY <1>2, TasksCount
<1>4. crashes \in Nat /\ restores \in Nat /\ Sets \in {0, 1}
  BY WorkspaceAssumption DEF WorkInv, DataInv, TypeOK, Sets
<1> HIDE DEF n, m, Sets
<1>5. n + Sets <= crashes + restores + 1
  BY <1>1, <1>3, <1>4 DEF Budget, n
<1> QED
  BY <1>3, <1>4, <1>5 DEF m

\* A request key is for one task, and a crash or a restore, which can take the
\* record of it out of the session, makes at most one more possible: the key is
\* recorded before anything else of the call can fail, and what is recorded is
\* kept by every later session that is written (conversation_workflow.py submit).
THEOREM RequestsAreOnce == Spec => []RequestsRunOnce
<1>1. Init => WorkInv /\ BackupInv /\ RequestInv
  BY WorkInit, BackupInit, RequestInit
<1>2. WorkInv /\ BackupInv /\ RequestInv /\ [Next]_vars => (WorkInv /\ BackupInv /\ RequestInv)'
  BY WorkStep, BackupStep, RequestStep
<1>3. WorkInv /\ RequestInv => RequestsRunOnce
  BY RequestIs
<1> QED BY <1>1, <1>2, <1>3, PTL DEF Spec

(***************************************************************************)
(* What a trial made is not delivered                                      *)
(***************************************************************************)

\* Nothing of a trial was exported, and the session is with its own, what is left of
\* the call keeping to that, or leads to a session that is.
Straight(s, ts, cs, ws) ==
    /\ Undelivered(ts, cs)
    /\ \/ Ready(s, ts, cs) /\ AllPlain(ws, ts, cs)
       \/ Lead(ws, ts, cs)

TrialInv == Unbroken => Straight(session, tasks, cases, todo[host])
LeavesStraight == Straight(session', tasks', cases', todo'[host])

\* Tasks, and cases, after a write that is plain.
TasksGo(tt, ts, cs) ==
    \A id \in TaskIds : tt[id] = ts[id] \/ (tt[id] # None /\ KeepsTask(id, tt[id], ts, cs))
CasesGo(ct, cs) ==
    \A c \in CaseIds : ct[c] = cs[c] \/ (ct[c] # None /\ KeepsCase(c, ct[c], cs))

\* What was plain stays so after a write of a task.
LEMMA PlainTasks ==
    ASSUME NEW ts, NEW cs, NEW tt, TasksGo(tt, ts, cs)
    PROVE  /\ \A s : Ready(s, ts, cs) => Ready(s, tt, cs)
           /\ Undelivered(ts, cs) => Undelivered(tt, cs)
           /\ \A ws \in Seq(HostWrites) : AllPlain(ws, ts, cs) => AllPlain(ws, tt, cs)
<1>1. Tried(tt) = Tried(ts) /\ Made(ts) \subseteq Made(tt)
  <2>1. ASSUME NEW id \in TaskIds
        PROVE  /\ ts[id] # None => tt[id] # None
               /\ id \in Tried(tt) <=> id \in Tried(ts)
    <3>1. CASE tt[id] = ts[id]
      BY <3>1 DEF Tried, Made
    <3>2. CASE tt[id] # None /\ KeepsTask(id, tt[id], ts, cs)
      BY <3>2 DEF Tried, Made, KeepsTask
    <3> QED
      BY <3>1, <3>2 DEF TasksGo
  <2>2. Tried(tt) \subseteq TaskIds /\ Tried(ts) \subseteq TaskIds
    BY DEF Tried, Made
  <2> QED
    BY <2>1, <2>2 DEF Made
<1>2. \A id \in TaskIds : (IF tt[id] = None THEN 0 ELSE tt[id].trial) = IF ts[id] = None THEN 0 ELSE ts[id].trial
  BY DEF TasksGo, KeepsTask
<1>3. ASSUME NEW s, Ready(s, ts, cs) PROVE Ready(s, tt, cs)
  BY <1>1, <1>3 DEF Ready, Traced, Placed, Noted
<1>4. ASSUME Undelivered(ts, cs) PROVE Undelivered(tt, cs)
  <2>1. SUFFICES ASSUME NEW id \in Tried(tt), tt[id].status = "exported" PROVE Behind(cs, id)
    BY DEF Undelivered
  <2>2. id \in TaskIds /\ id \in Tried(ts) /\ tt[id].trial # 0
    BY <1>1, <2>1 DEF Tried, Made
  <2>3. CASE tt[id] = ts[id]
    BY <1>4, <2>1, <2>2, <2>3 DEF Undelivered
  <2>4. CASE KeepsTask(id, tt[id], ts, cs)
    BY <2>1, <2>2, <2>4 DEF KeepsTask
  <2> QED
    BY <2>2, <2>3, <2>4 DEF TasksGo
<1>5. ASSUME NEW w \in HostWrites, Plain(w, ts, cs) PROVE Plain(w, tt, cs)
  <2>1. w.file \in {"plan", "task"} => KeepsTask(w.id, w.to, tt, cs)
    <3>1. w.file \in {"plan", "task"} => w.id \in TaskIds
      BY HostWriteIs
    <3> QED
      BY <1>2, <1>5, <3>1 DEF Plain, KeepsTask
  <2> QED
    BY <1>3, <1>5, <2>1 DEF Plain
<1>6. ASSUME NEW ws \in Seq(HostWrites), AllPlain(ws, ts, cs) PROVE AllPlain(ws, tt, cs)
  <2>1. \A i \in 1..Len(ws) : ws[i] \in HostWrites
    OBVIOUS
  <2> QED
    BY <1>5, <1>6, <2>1 DEF AllPlain
<1> QED
  BY <1>3, <1>4, <1>6

\* And after a write of a case.
LEMMA PlainCases ==
    ASSUME NEW ts, NEW cs, NEW ct, CasesGo(ct, cs)
    PROVE  /\ \A s \in Sessions : Ready(s, ts, cs) => Ready(s, ts, ct)
           /\ Undelivered(ts, cs) => Undelivered(ts, ct)
           /\ \A ws \in Seq(HostWrites) : AllPlain(ws, ts, cs) => AllPlain(ws, ts, ct)
<1>1. \A c \in CaseIds :
         /\ cs[c] = None <=> ct[c] = None
         /\ cs[c] # None => /\ ct[c].source = cs[c].source
                            /\ ct[c] = cs[c] \/ ct[c].status # "candidate-running"
  BY DEF CasesGo, KeepsCase
<1>2. \A id : Behind(cs, id) => Behind(ct, id)
  BY <1>1 DEF Behind
<1>3. ASSUME NEW s \in Sessions, Ready(s, ts, cs) PROVE Ready(s, ts, ct)
  <2>1. s.case # 0 => s.case \in CaseIds
    BY ConversationAssumption DEF Sessions, CaseIds
  <2>2. /\ Stands(ct, s.case) <=> Stands(cs, s.case)
        /\ Stands(cs, s.case) => /\ ct[s.case].source = cs[s.case].source
                                 /\ ct[s.case] = cs[s.case] \/ ct[s.case].status # "candidate-running"
    BY <1>1, <2>1 DEF Stands
  <2>3. Traced(s, ts, ct)
    BY <1>2, <1>3, <2>2 DEF Ready, Traced
  <2>4. Placed(s, ts, ct)
    BY <1>3, <2>2 DEF Ready, Placed
  <2> QED
    BY <1>3, <2>3, <2>4 DEF Ready
<1>4. Undelivered(ts, cs) => Undelivered(ts, ct)
  BY <1>2 DEF Undelivered
<1>5. ASSUME NEW w \in HostWrites, Plain(w, ts, cs) PROVE Plain(w, ts, ct)
  <2>1. w.file = "case" => KeepsCase(w.id, w.to, ct)
    <3>1. w.file = "case" => w.id \in CaseIds
      BY HostWriteIs
    <3> QED
      BY <1>1, <1>5, <3>1 DEF Plain, KeepsCase
  <2>2. w.file = "session" => Ready(w.to, ts, ct)
    BY <1>3, <1>5, HostWriteIs DEF Plain
  <2>3. w.file \in {"plan", "task"} => KeepsTask(w.id, w.to, ts, ct)
    BY <1>2, <1>5 DEF Plain, KeepsTask
  <2> QED
    BY <2>1, <2>2, <2>3 DEF Plain
<1>6. ASSUME NEW ws \in Seq(HostWrites), AllPlain(ws, ts, cs) PROVE AllPlain(ws, ts, ct)
  <2>1. \A i \in 1..Len(ws) : ws[i] \in HostWrites
    OBVIOUS
  <2> QED
    BY <1>5, <1>6, <2>1 DEF AllPlain
<1> QED
  BY <1>3, <1>4, <1>6

\* The first of the writes is done: what it says of them.
LEMMA StraightLeft ==
    ASSUME NEW s, NEW ts, NEW cs, NEW ws \in Seq(HostWrites), ws # <<>>, Straight(s, ts, cs, ws)
    PROVE  /\ Undelivered(ts, cs)
           /\ \/ /\ Ready(s, ts, cs) /\ Plain(Head(ws), ts, cs) /\ AllPlain(Tail(ws), ts, cs)
              \/ /\ Head(ws).file = "session" /\ Ready(Head(ws).to, ts, cs)
                 /\ AllPlain(Tail(ws), ts, cs)
              \/ \E tt, ct : /\ Moves(Head(ws), ts, cs, tt, ct) /\ Undelivered(tt, ct)
                             /\ Lead(Tail(ws), tt, ct)
<1>1. CASE Lead(ws, ts, cs)
  <2>1. \A u, tt, ct : Lead(u, tt, ct) => Undelivered(tt, ct)
    <3>1. SUFFICES ASSUME NEW u, NEW tt, NEW ct, NEW n \in 1..Len(u),
                          \E tss, css : tss[1] = tt /\ css[1] = ct /\ Leading(u, n, tss, css)
                   PROVE  Undelivered(tt, ct)
      BY DEF Lead
    <3>2. PICK tss, css : tss[1] = tt /\ css[1] = ct /\ Leading(u, n, tss, css)
      BY <3>1
    <3>3. 1 \in 1..n
      OBVIOUS
    <3> QED
      BY <3>2, <3>3 DEF Leading
  <2> QED
    BY <1>1, <2>1, LeadTail DEF Straight
<1>2. CASE Ready(s, ts, cs) /\ AllPlain(ws, ts, cs)
  <2>1. /\ Head(ws) = ws[1] /\ Len(ws) \in Nat \ {0} /\ Len(Tail(ws)) = Len(ws) - 1
        /\ \A i \in 1..(Len(ws) - 1) : Tail(ws)[i] = ws[i + 1]
    BY WriteLeft
  <2>2. \A i \in 1..(Len(ws) - 1) : i + 1 \in 1..Len(ws)
    BY <2>1
  <2>3. 1 \in 1..Len(ws)
    BY <2>1
  <2> QED
    BY <1>2, <2>1, <2>2, <2>3 DEF AllPlain, Straight
<1> QED
  BY <1>1, <1>2 DEF Straight

\* What is so while the host is at a write.
LEMMA StraightFacts ==
    ASSUME WorkInv, TrialInv, Unbroken, ~Idle(host)
    PROVE  /\ todo[host] # <<>> /\ todo[host] \in Seq(HostWrites) /\ Next1(host) = Head(todo[host])
           /\ Tail(todo[host]) \in Seq(HostWrites) /\ Next1(host) \in HostWrites
           /\ Undelivered(tasks, cases)
           /\ \/ /\ Ready(session, tasks, cases) /\ Plain(Next1(host), tasks, cases)
                 /\ AllPlain(Tail(todo[host]), tasks, cases)
              \/ /\ Next1(host).file = "session" /\ Ready(Next1(host).to, tasks, cases)
                 /\ AllPlain(Tail(todo[host]), tasks, cases)
              \/ \E tt, ct : /\ Moves(Next1(host), tasks, cases, tt, ct) /\ Undelivered(tt, ct)
                             /\ Lead(Tail(todo[host]), tt, ct)
           /\ Goes(host) => todo'[host] = Tail(todo[host])
           /\ Raises(host) => todo'[host] = <<>>
           /\ \A u : Continues(host, u) => todo'[host] = u \o Tail(todo[host])
<1>1. todo[host] # <<>> /\ todo[host] \in Seq(HostWrites) /\ Next1(host) = Head(todo[host])
  BY TodoIs DEF Idle, Next1
<1>2. Tail(todo[host]) \in Seq(HostWrites) /\ Next1(host) \in HostWrites
  BY <1>1, WriteLeft
<1>3. Straight(session, tasks, cases, todo[host])
  BY DEF TrialInv
<1>4. /\ Goes(host) => todo'[host] = Tail(todo[host])
      /\ Raises(host) => todo'[host] = <<>>
      /\ \A u : Continues(host, u) => todo'[host] = u \o Tail(todo[host])
  BY TodoIs DEF Goes, Raises, Continues
<1> QED
  BY <1>1, <1>2, <1>3, <1>4, StraightLeft

\* A write of another file finds the session with its own.
LEMMA OtherStraight ==
    ASSUME WorkInv, TrialInv, Unbroken, ~Idle(host), Next1(host).file \notin {"session", "plan", "case"}
    PROVE  /\ Ready(session, tasks, cases) /\ Undelivered(tasks, cases)
           /\ Plain(Next1(host), tasks, cases) /\ AllPlain(Tail(todo[host]), tasks, cases)
BY StraightFacts DEF Moves

\* Such a write, and one that ends the call; what the host finds out on its way.
LEMMA QuietStraight ==
    ASSUME WorkInv, TrialInv, Unbroken, ~Idle(host), Next1(host).file \notin {"session", "plan", "case"},
           Ready(session', tasks, cases), UNCHANGED <<tasks, cases>>,
           \/ Goes(host) \/ Raises(host)
           \/ \E u \in Seq(HostWrites) : Continues(host, u) /\ AllPlain(u, tasks, cases)
    PROVE  LeavesStraight
<1>1. /\ Undelivered(tasks, cases) /\ AllPlain(Tail(todo[host]), tasks, cases)
      /\ Tail(todo[host]) \in Seq(HostWrites)
  BY OtherStraight, StraightFacts
<1>2. AllPlain(<<>>, tasks, cases)
  BY DEF AllPlain
<1>3. AllPlain(todo'[host], tasks, cases)
  <2>1. CASE Goes(host) \/ Raises(host)
    BY <1>1, <1>2, <2>1, StraightFacts
  <2>2. ASSUME NEW u \in Seq(HostWrites), Continues(host, u), AllPlain(u, tasks, cases)
        PROVE  AllPlain(todo'[host], tasks, cases)
    <3>1. todo'[host] = u \o Tail(todo[host])
      BY <2>2, StraightFacts
    <3> QED
      BY <1>1, <2>2, <3>1, PlainJoin
  <2> QED
    BY <2>1, <2>2
<1> QED
  BY <1>1, <1>3 DEF LeavesStraight, Straight

\* The pipeline saves a task.
LEMMA PlanStraight ==
    ASSUME WorkInv, TrialInv, Unbroken, WritePlan(host), UNCHANGED cases
    PROVE  LeavesStraight
<1> DEFINE w == Next1(host)
<1>1. /\ ~Idle(host) /\ w.file = "plan" /\ Goes(host) /\ UNCHANGED session
      /\ tasks' = [tasks EXCEPT ![w.id] = w.to]
  BY DEF WritePlan, Writes
<1>2. w.id \in TaskIds /\ w.to \in TaskRecords /\ tasks \in [TaskIds -> TaskRecords \cup {None}]
  BY <1>1, NextIs, HostWriteIs, DataFacts DEF WorkInv
<1>3. w.to # None
  BY <1>2, ConversationAssumption
<1>4. todo'[host] = Tail(todo[host]) /\ Tail(todo[host]) \in Seq(HostWrites)
  BY <1>1, StraightFacts
<1> HIDE DEF w
<1>5. CASE /\ Ready(session, tasks, cases) /\ Plain(w, tasks, cases)
           /\ AllPlain(Tail(todo[host]), tasks, cases) /\ Undelivered(tasks, cases)
  <2>1. TasksGo(tasks', tasks, cases)
    <3>1. KeepsTask(w.id, w.to, tasks, cases)
      BY <1>1, <1>5 DEF Plain
    <3>2. \A id \in TaskIds : tasks'[id] = IF id = w.id THEN w.to ELSE tasks[id]
      BY <1>1, <1>2
    <3> QED
      BY <1>3, <3>1, <3>2 DEF TasksGo
  <2>2. /\ Ready(session, tasks', cases) /\ Undelivered(tasks', cases)
        /\ AllPlain(Tail(todo[host]), tasks', cases)
    BY <1>4, <1>5, <2>1, PlainTasks
  <2> QED
    BY <1>1, <1>4, <2>2 DEF LeavesStraight, Straight
<1>6. ASSUME \E tt, ct : /\ Moves(w, tasks, cases, tt, ct) /\ Undelivered(tt, ct)
                         /\ Lead(Tail(todo[host]), tt, ct)
      PROVE  LeavesStraight
  <2>1. PICK tt, ct : /\ Moves(w, tasks, cases, tt, ct) /\ Undelivered(tt, ct)
                      /\ Lead(Tail(todo[host]), tt, ct)
    BY <1>6
  <2>2. tt = tasks' /\ ct = cases
    BY <1>1, <2>1 DEF Moves
  <2> QED
    BY <1>4, <2>1, <2>2 DEF LeavesStraight, Straight
<1> QED
  BY <1>1, <1>5, <1>6, StraightFacts DEF w

\* A case is saved.
LEMMA CaseStraight ==
    ASSUME WorkInv, TrialInv, Unbroken, WriteCase(host), UNCHANGED <<session, tasks>>
    PROVE  LeavesStraight
<1> DEFINE w == Next1(host)
<1>1. /\ ~Idle(host) /\ w.file = "case" /\ Goes(host)
      /\ cases' = [cases EXCEPT ![w.id] = w.to]
  BY DEF WriteCase, Writes
<1>2. w.id \in CaseIds /\ w.to \in CaseRecords /\ cases \in [CaseIds -> CaseRecords \cup {None}]
  BY <1>1, NextIs, HostWriteIs, DataFacts DEF WorkInv
<1>3. w.to # None /\ session \in Sessions
  BY <1>2, CasesAssumption, DataFacts DEF WorkInv
<1>4. todo'[host] = Tail(todo[host]) /\ Tail(todo[host]) \in Seq(HostWrites)
  BY <1>1, StraightFacts
<1> HIDE DEF w
<1>5. CASE /\ Ready(session, tasks, cases) /\ Plain(w, tasks, cases)
           /\ AllPlain(Tail(todo[host]), tasks, cases) /\ Undelivered(tasks, cases)
  <2>1. CasesGo(cases', cases)
    <3>1. KeepsCase(w.id, w.to, cases)
      BY <1>1, <1>5 DEF Plain
    <3>2. \A c \in CaseIds : cases'[c] = IF c = w.id THEN w.to ELSE cases[c]
      BY <1>1, <1>2
    <3> QED
      BY <1>3, <3>1, <3>2 DEF CasesGo
  <2>2. /\ Ready(session, tasks, cases') /\ Undelivered(tasks, cases')
        /\ AllPlain(Tail(todo[host]), tasks, cases')
    BY <1>3, <1>4, <1>5, <2>1, PlainCases
  <2> QED
    BY <1>4, <2>2 DEF LeavesStraight, Straight
<1>6. ASSUME \E tt, ct : /\ Moves(w, tasks, cases, tt, ct) /\ Undelivered(tt, ct)
                         /\ Lead(Tail(todo[host]), tt, ct)
      PROVE  LeavesStraight
  <2>1. PICK tt, ct : /\ Moves(w, tasks, cases, tt, ct) /\ Undelivered(tt, ct)
                      /\ Lead(Tail(todo[host]), tt, ct)
    BY <1>6
  <2>2. tt = tasks /\ ct = cases'
    BY <1>1, <2>1 DEF Moves
  <2> QED
    BY <1>4, <2>1, <2>2 DEF LeavesStraight, Straight
<1> QED
  BY <1>1, <1>5, <1>6, StraightFacts DEF w

\* The session is saved.
LEMMA SessionStraight ==
    ASSUME WorkInv, TrialInv, Unbroken, WriteSession(host), UNCHANGED cases
    PROVE  LeavesStraight
<1>1. /\ ~Idle(host) /\ Next1(host).file = "session" /\ Goes(host) /\ UNCHANGED <<tasks, cases>>
      /\ session' = Next1(host).to
  BY DEF WriteSession, Writes
<1>2. /\ Undelivered(tasks, cases) /\ Ready(Next1(host).to, tasks, cases)
      /\ AllPlain(Tail(todo[host]), tasks, cases) /\ todo'[host] = Tail(todo[host])
  BY <1>1, StraightFacts DEF Moves, Plain
<1> QED
  BY <1>1, <1>2 DEF LeavesStraight, Straight

\* A service saves a task: it stays a trial or none, and is not exported unless it is
\* saved as that.
LEMMA TaskStraight ==
    ASSUME WorkInv, TrialInv, Unbroken, WriteTask(host), UNCHANGED cases
    PROVE  LeavesStraight
<1> DEFINE w == Next1(host)
<1>1. ~Idle(host) /\ w.file = "task" /\ UNCHANGED session
  BY DEF WriteTask, Writes
<1>2. w.id \in TaskIds /\ tasks \in [TaskIds -> TaskRecords \cup {None}]
  BY <1>1, NextIs, HostWriteIs, DataFacts DEF WorkInv
<1>3. /\ Ready(session, tasks, cases) /\ Undelivered(tasks, cases)
      /\ Plain(w, tasks, cases) /\ AllPlain(Tail(todo[host]), tasks, cases)
  BY <1>1, OtherStraight
<1>4. CASE ~Loads(w.id)
  <2>1. Raises(host) /\ UNCHANGED tasks
    BY <1>4 DEF WriteTask
  <2> QED
    BY <1>1, <1>3, <2>1, QuietStraight
<1>5. CASE Loads(w.id)
  <2>1. PICK s \in TaskRecords : /\ tasks' = [tasks EXCEPT ![w.id] = s]
                                 /\ s.trial = w.to.trial
                                 /\ s.status = "exported" => w.to.status = "exported"
    BY <1>5, TaskSaved
  <2>2. Goes(host) /\ s # None
    BY <1>5, ConversationAssumption DEF WriteTask
  <2> HIDE DEF w
  <2>3. \A id \in TaskIds : tasks'[id] = IF id = w.id THEN s ELSE tasks[id]
    BY <1>2, <2>1
  <2>4. KeepsTask(w.id, s, tasks, cases)
    BY <1>1, <1>3, <2>1 DEF Plain, KeepsTask
  <2>5. TasksGo(tasks', tasks, cases)
    BY <2>2, <2>3, <2>4 DEF TasksGo
  <2>6. todo'[host] = Tail(todo[host]) /\ Tail(todo[host]) \in Seq(HostWrites)
    BY <1>1, <2>2, StraightFacts
  <2>7. /\ Ready(session, tasks', cases) /\ Undelivered(tasks', cases)
        /\ AllPlain(Tail(todo[host]), tasks', cases)
    BY <1>3, <2>5, <2>6, PlainTasks
  <2> QED
    BY <1>1, <2>6, <2>7 DEF LeavesStraight, Straight
<1> QED
  BY <1>4, <1>5

\* A theme is derived on the way.
LEMMA DeriveStraight ==
    ASSUME WorkInv, TrialInv, Unbroken, DeriveHere(host) \/ LinkSource(host), UNCHANGED cases
    PROVE  LeavesStraight
<1> DEFINE w == Next1(host)
           ref == bound["conversation"]
           kinds == {"conversation"}
<1>1. ~Idle(host) /\ w.file \in {"derive", "link"} /\ UNCHANGED <<session, tasks, cases>>
  BY DEF DeriveHere, LinkSource, Writes, talkVars
<1>2. w \in HostWrites
  BY <1>1, NextIs
<1>3. w.src \in Sources /\ (w.file = "derive" => w.theme \in Themes /\ w.n \in 0..MaxVersions)
  BY <1>1, <1>2, HostWriteIs
<1>4. {w.src} \in SUBSET Sources /\ DataInv
  BY <1>3 DEF WorkInv
<1>5. ref # None => ref.theme \in Themes
  <2>1. ref \in Found(Len(looks)) \cup {None}
    BY <1>4, DataFacts DEF Kinds
  <2> QED
    BY <2>1 DEF Found
<1>6. Ready(session', tasks, cases)
  BY <1>1, OtherStraight
<1>7. ASSUME NEW s, Light(s), \E any : Fit(s, versions, tasks, any), Continues(host, s)
      PROVE  LeavesStraight
  <2>1. s \in Seq(HostWrites) /\ AllPlain(s, tasks, cases)
    BY <1>7, LightIs DEF Fit
  <2> QED
    BY <1>1, <1>6, <1>7, <2>1, QuietStraight
<1> DEFINE Made1 == Create(w.theme, {w.src}, kinds)
           Made2 == Derive(w.theme, w.n, {w.src}, kinds)
           Made3 == Derive(ref.theme, ref.n, {w.src}, kinds)
<1>8. CASE DeriveHere(host)
  <2>1. /\ w.file = "derive"
        /\ \/ Continues(host, Made1)
           \/ CanDerive(w.theme, w.n) /\ Continues(host, Made2)
    BY <1>8 DEF DeriveHere, Writes
  <2>2. w.theme \in Themes
    BY <1>3, <2>1
  <2> HIDE DEF w
  <2>3. Light(Made1) /\ Fit(Made1, versions, tasks, None)
    BY <1>4, <2>2, CreateFits
  <2>4. CanDerive(w.theme, w.n) => Light(Made2) /\ Fit(Made2, versions, tasks, None)
    BY <1>4, <2>2, DerivesFrom
  <2> HIDE DEF Made1, Made2
  <2> QED
    BY <1>7, <2>1, <2>3, <2>4
<1>9. CASE LinkSource(host)
  <2>1. \/ Goes(host) \/ Raises(host)
        \/ ref # None /\ CanDerive(ref.theme, ref.n) /\ Continues(host, Made3)
    BY <1>9 DEF LinkSource, Selected
  <2> HIDE DEF w, ref
  <2>2. ref # None /\ CanDerive(ref.theme, ref.n) => Light(Made3) /\ Fit(Made3, versions, tasks, None)
    BY <1>4, <1>5, DerivesFrom
  <2> HIDE DEF Made3
  <2>3. CASE Goes(host) \/ Raises(host)
    BY <1>1, <1>6, <2>3, QuietStraight DEF w
  <2> QED
    BY <1>7, <2>1, <2>2, <2>3
<1> QED
  BY <1>8, <1>9

\* A plan that lacks its image is mended.
LEMMA RepairStraight ==
    ASSUME WorkInv, CalmInv, TrialInv, Unbroken, Repair(host), UNCHANGED cases
    PROVE  LeavesStraight
<1> DEFINE a == [Now EXCEPT !.reg = "required"]
           b == [Now EXCEPT !.reg = "registered"]
           m == SaveTask(Active, Mended(Current))
<1>1. ~Idle(host) /\ Next1(host).file = "repair" /\ UNCHANGED <<session, tasks, cases>>
  BY DEF Repair, Writes, talkVars
<1>2. DataInv
  BY DEF WorkInv
<1>3. Steady
  BY <1>1, OtherStraight, CalmFacts DEF Steady, Calm
<1>4. Fits(Save(a)) /\ Fits(Save(b))
  <2>1. Alike(a) /\ Alike(b)
    BY <1>2, AlikeKeeps
  <2> HIDE DEF a, b
  <2> QED
    BY <1>2, <2>1, PartsFit
<1>5. Active # 0 => Fits(m)
  BY <1>2, CurrentIs
<1>6. \/ Goes(host) \/ Raises(host) \/ Continues(host, Save(a))
      \/ Active # 0 /\ Continues(host, m \o Save(b))
  BY DEF Repair
<1> HIDE DEF a, b, m
<1>7. Active # 0 => Fits(m \o Save(b))
  BY <1>2, <1>4, <1>5, PartsFit
<1>8. Ready(session', tasks, cases)
  BY <1>1, <1>3 DEF Steady
<1>9. ASSUME NEW s, Fits(s), Continues(host, s) PROVE LeavesStraight
  <2>1. s \in Seq(HostWrites) /\ AllPlain(s, tasks, cases)
    BY <1>3, <1>9 DEF Fits, Suits, Fit
  <2> QED
    BY <1>1, <1>8, <1>9, <2>1, QuietStraight
<1>10. CASE Goes(host) \/ Raises(host)
  BY <1>1, <1>8, <1>10, QuietStraight
<1> QED
  BY <1>4, <1>6, <1>7, <1>9, <1>10

\* A case is brought up to date: it runs no longer.
LEMMA SyncStraight ==
    ASSUME WorkInv, TrialInv, Unbroken, Sync(host)
    PROVE  LeavesStraight
<1> DEFINE c == ActiveCase
           r == IF tasks[Case.trial].status = "failed"
                THEN [Case EXCEPT !.status = "candidate-building"] ELSE Shown(Case.trial)
<1>1. /\ UNCHANGED <<session, tasks, todo>> /\ cases' = [cases EXCEPT ![c] = r] /\ c # 0
      /\ ~Idle(host) /\ Next1(host).file = "view"
  BY DEF Sync, talkVars, Due, In, Case, Writes
<1>2. Case \in CaseRecords /\ c \in CaseIds /\ Case = cases[c] /\ cases[c] # None
  <2>1. c \in CaseIds /\ Case \in CaseRecords
    BY <1>1, CaseIs DEF WorkInv
  <2>2. cases[c] # None
    BY <1>1 DEF ActiveCase
  <2> QED
    BY <2>1, <2>2 DEF Case
<1>3. r \in CaseRecords /\ r.source = Case.source /\ r.status # "candidate-running"
  <2>1. Case.trial \in 0..MaxTasks
    BY <1>2 DEF CaseRecords
  <2> QED
    BY <1>2, <2>1, ZenonT(40) DEF Shown, Statuses, Ended, CaseRecords
<1>4. r # None /\ KeepsCase(c, r, cases)
  BY <1>2, <1>3, CasesAssumption DEF KeepsCase
<1> HIDE DEF r, c
<1>5. cases \in [CaseIds -> CaseRecords \cup {None}] /\ session \in Sessions
  BY DataFacts DEF WorkInv
<1>6. CasesGo(cases', cases)
  <2>1. \A d \in CaseIds : cases'[d] = IF d = c THEN r ELSE cases[d]
    BY <1>1, <1>5
  <2> QED
    BY <1>4, <2>1 DEF CasesGo
<1>7. /\ Ready(session, tasks, cases) /\ Undelivered(tasks, cases)
      /\ AllPlain(todo[host], tasks, cases)
  <2>1. Ready(session, tasks, cases) /\ Undelivered(tasks, cases)
    BY <1>1, OtherStraight
  <2>2. ~Lead(todo[host], tasks, cases)
    <3>1. todo[host] \in Seq(HostWrites) /\ Head(todo[host]).file = "view"
      BY <1>1, StraightFacts
    <3> QED
      BY <3>1, LeadTail DEF Moves
  <2> QED
    BY <2>1, <2>2 DEF TrialInv, Straight
<1>8. todo[host] \in Seq(HostWrites)
  BY <1>1, StraightFacts
<1>9. /\ Ready(session, tasks, cases') /\ Undelivered(tasks, cases')
      /\ AllPlain(todo[host], tasks, cases')
  BY <1>5, <1>6, <1>7, <1>8, PlainCases
<1> QED
  BY <1>1, <1>9 DEF LeavesStraight, Straight

\* The view is shown, and the session has the task and the case that it shows.
LEMMA ViewStraight ==
    ASSUME WorkInv, TrialInv, Unbroken, ShowView(host)
    PROVE  LeavesStraight
<1> DEFINE s == [Now EXCEPT !.case = ActiveCase]
<1>1. /\ ~Idle(host) /\ Next1(host).file = "view" /\ UNCHANGED <<tasks, cases>>
      /\ Goes(host) \/ Raises(host)
      /\ session' = session \/ session' = s
  BY DEF ShowView, Writes
<1>2. Ready(session, tasks, cases) /\ DataInv
  BY <1>1, OtherStraight DEF WorkInv
<1>3. Alike(s)
  <2>1. Now \in Sessions /\ Now.done = session.done /\ Now.active = Active
    BY <1>2, NowIs, DataFacts DEF Now, Sessions
  <2>2. ActiveCase \in 0..MaxCases
    BY <1>2, CaseIs, ConversationAssumption
  <2>3. s \in Sessions
    BY <2>1, <2>2, SessionKeeps
  <2>4. s.done = session.done /\ s.active = Active /\ s.case = ActiveCase
    BY <2>1 DEF Sessions
  <2> HIDE DEF s
  <2> QED
    BY <2>3, <2>4 DEF Alike
<1> HIDE DEF s
<1>4. Ready(session', tasks, cases)
  BY <1>1, <1>2, <1>3, AlikeReady
<1> QED
  BY <1>1, <1>4, QuietStraight

\* Every write of the host.
LEMMA HostStraight ==
    ASSUME WorkInv, CalmInv, TrialInv, Unbroken, WriteNext(host)
    PROVE  LeavesStraight
<1>1. ASSUME ~Idle(host), Next1(host).file \notin {"session", "plan", "case"},
             Goes(host) \/ Raises(host), UNCHANGED <<session, tasks, cases>>
      PROVE  LeavesStraight
  <2>1. Ready(session', tasks, cases)
    BY <1>1, OtherStraight
  <2> QED
    BY <1>1, <2>1, QuietStraight
<1>2. CASE WriteTheme(host) /\ UNCHANGED <<talkVars, cases>>
  <2>1. /\ ~Idle(host) /\ Next1(host).file \notin {"session", "plan", "case"} /\ Goes(host)
        /\ UNCHANGED <<session, tasks, cases>>
    BY <1>2 DEF WriteTheme, WriteVersion, WriteIndex, WriteBinding, Unlink, Writes, talkVars
  <2> QED
    BY <1>1, <2>1
<1>3. CASE WriteTalk(host) /\ UNCHANGED cases
  <2>1. CASE WriteSource(host) \/ WriteConfig(host) \/ WriteConnection(host) \/ LoadActive(host)
    <3>1. /\ ~Idle(host) /\ Next1(host).file \notin {"session", "plan", "case"}
          /\ Goes(host) \/ Raises(host)
          /\ UNCHANGED <<session, tasks, cases>>
      BY <1>3, <2>1 DEF WriteSource, WriteConfig, WriteConnection, LoadActive, Writes, talkVars
    <3> QED
      BY <1>1, <3>1
  <2> QED
    BY <1>3, <2>1, PlanStraight, TaskStraight, SessionStraight, DeriveStraight, RepairStraight
       DEF WriteTalk
<1>4. CASE WriteCase(host) /\ UNCHANGED <<themeVars, talkVars>>
  BY <1>4, CaseStraight DEF talkVars
<1> QED
  BY <1>2, <1>3, <1>4, SyncStraight, ViewStraight DEF WriteNext

\* The command line writes none of it.
LEMMA CliStraight ==
    ASSUME WorkInv, TrialInv, Unbroken, CliCalls \/ WriteNext(cli)
    PROVE  LeavesStraight
<1>1. UNCHANGED <<session, tasks, cases>> /\ \E ws : todo' = [todo EXCEPT ![cli] = ws]
  BY CliLeavesTalk
<1>2. host \in Processes \ {cli} /\ cli \in Processes
  BY TodoIs
<1>3. todo'[host] = todo[host]
  BY <1>1, <1>2, TodoIs
<1> QED
  BY <1>1, <1>3 DEF TrialInv, LeavesStraight

\* A call, which writes nothing yet.
LEMMA CallsStraight ==
    ASSUME WorkInv, CalmInv, TrialInv, Unbroken, Calls
    PROVE  LeavesStraight
<1>1. UNCHANGED <<session, tasks, cases>> /\ DataInv
  BY DEF Calls, workVars, talkVars, WorkInv
<1>2. Asks
  BY <1>1, TalkAsks, ImproveAsks DEF Calls
<1>3. PICK ws : /\ todo' = [todo EXCEPT ![host] = ws]
                /\ Steady => AllPlain(ws, tasks, cases) \/ Lead(ws, tasks, cases)
  BY <1>2 DEF Asks
<1>4. todo'[host] = ws /\ todo[host] = <<>>
  BY <1>2, <1>3, TodoIs DEF Asks, Idle
<1>5. ~Lead(<<>>, tasks, cases)
  BY DEF Lead
<1>6. Ready(session, tasks, cases) /\ Undelivered(tasks, cases)
  BY <1>4, <1>5 DEF TrialInv, Straight
<1>7. Steady
  BY <1>6, CalmFacts DEF Steady, Calm
<1> QED
  BY <1>1, <1>3, <1>4, <1>6, <1>7 DEF LeavesStraight, Straight

\* At first there is no task, and no case.
LEMMA TrialInit == Init => TrialInv
<1> SUFFICES ASSUME Init PROVE TrialInv
  OBVIOUS
<1>1. /\ tasks = [id \in TaskIds |-> None] /\ cases = [c \in CaseIds |-> None]
      /\ todo[host] = <<>> /\ session = NewSession
  BY DEF Init, InitTalk, Processes
<1>2. Made(tasks) = {} /\ Tried(tasks) = {}
  BY <1>1 DEF Made, Tried
<1>3. session.active = 0 /\ session.case = 0 /\ \A k \in Keys : session.done[k] = 0
  BY <1>1 DEF NewSession
<1>4. Ready(session, tasks, cases)
  BY <1>2, <1>3 DEF Ready, Traced, Placed, Noted, Stands
<1>5. Undelivered(tasks, cases) /\ AllPlain(todo[host], tasks, cases)
  BY <1>1, <1>2 DEF Undelivered, AllPlain
<1> QED
  BY <1>4, <1>5 DEF TrialInv, Straight

\* Every step keeps it, until a process dies or a backup is restored.
LEMMA TrialStep == WorkInv /\ BackupInv /\ CalmInv /\ TrialInv /\ [Next]_vars => TrialInv'
<1> SUFFICES ASSUME WorkInv, BackupInv, CalmInv, TrialInv, [Next]_vars PROVE TrialInv'
  OBVIOUS
<1>1. crashes \in Nat /\ restores \in Nat
  BY WorkspaceAssumption DEF WorkInv, DataInv, TypeOK
<1>2. ASSUME UNCHANGED <<crashes, restores>>, Unbroken => LeavesStraight PROVE TrialInv'
  BY <1>2 DEF TrialInv, LeavesStraight, Unbroken
<1>3. CASE Calls \/ CliCalls
  <2>1. UNCHANGED <<crashes, restores>>
    BY <1>3 DEF Calls, CliCalls, Beside
  <2> QED
    BY <1>2, <1>3, <2>1, CallsStraight, CliStraight
<1>4. ASSUME NEW p \in {host, cli}, WriteNext(p) PROVE TrialInv'
  <2>1. UNCHANGED <<crashes, restores>>
    BY <1>4 DEF WriteNext, Beside
  <2> QED
    BY <1>2, <1>4, <2>1, HostStraight, CliStraight
<1>5. ASSUME NEW p \in Processes, Crash(p) PROVE TrialInv'
  BY <1>1, <1>5 DEF Crash, TrialInv, Unbroken
<1>6. CASE Restore \/ RestoreElsewhere
  BY <1>1, <1>6 DEF Restore, RestoreElsewhere, TrialInv, Unbroken
<1>7. CASE RestoreGroup
  <2>1. ~Idle(operator) /\ UNCHANGED <<crashes, restores>>
    BY <1>7 DEF RestoreGroup, Writes
  <2> QED
    BY <2>1 DEF CalmInv, TrialInv, Unbroken
<1>8. CASE ListFiles \/ HashGroup \/ ArchiveGroup \/ Publish \/ CutBackup \/ UNCHANGED vars
  <2>1. UNCHANGED <<session, tasks, cases, todo, crashes, restores>>
    BY <1>8 DEF ListFiles, HashGroup, ArchiveGroup, Publish, CutBackup, vars, workVars, talkVars
  <2> QED
    BY <2>1 DEF TrialInv, Unbroken
<1> QED
  BY <1>3, <1>4, <1>5, <1>6, <1>7, <1>8 DEF Next

\* What it says of the system.
LEMMA TrialIs == TrialInv => TrialsAreNotDelivered
BY DEF TrialInv, Straight, Unbroken, Undelivered, Tried, Made, Behind, TrialsAreNotDelivered

\* Until a process dies or a backup is restored, a trial is exported only if a case
\* was opened from it.  The session has a trial as its task only together with a
\* case, whose stage allows no export, and a resumed conversation goes back to the
\* task that the case was opened from: that the session is so again at the end of
\* every call, whatever the call writes on the way, is what is carried through
\* (improvement_workflow.py _stage, start_tool_trial, resume).
THEOREM TrialsStay == Spec => []TrialsAreNotDelivered
<1>1. Init => WorkInv /\ BackupInv /\ CalmInv /\ TrialInv
  BY WorkInit, BackupInit, CalmInit, TrialInit
<1>2. WorkInv /\ BackupInv /\ CalmInv /\ TrialInv /\ [Next]_vars =>
         (WorkInv /\ BackupInv /\ CalmInv /\ TrialInv)'
  BY WorkStep, BackupStep, CalmStep, TrialStep
<1>3. TrialInv => TrialsAreNotDelivered
  BY TrialIs
<1> QED BY <1>1, <1>2, <1>3, PTL DEF Spec
=============================================================================
