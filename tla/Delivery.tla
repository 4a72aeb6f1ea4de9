------------------------------ MODULE Delivery ------------------------------
(***************************************************************************)
(* The delivery of a task's artifacts into a game project: gated exports   *)
(* (guif/gated_export.py, runtime/exportable.py), the direct exporter      *)
(* (guif/exporter.py) and git change sets (guif/git_changes.py).           *)
(*                                                                         *)
(* An export writes project files one after another and keeps backups, a   *)
(* transaction file and a record in the task; a change set makes a branch, *)
(* a commit and a record in the task.  Nothing ties these together: a      *)
(* call may die between any two of them, and is then made again.           *)
(***************************************************************************)
EXTENDS Naturals, Sequences, FiniteSets

CONSTANTS
    Paths,       \* project files: an asset and its manifest are one
    Contents,    \* what such a file may hold
    Before,      \* what one holds before the first export
    Edited,      \* what a user writes into one
    Exports,     \* export ids: a target engine and a set of artifacts
    Items,       \* [Exports -> sequence of the paths it writes, in order]
    Content,     \* [Exports -> [Paths -> what it writes there]]
    Target,      \* [Exports -> its target engine]
    Generations, \* the sets of exports that the active artifacts amount to, in turn
    Verdicts,    \* the sets of checks that may fail at the same time
    Branches, Main,
    Starts,      \* the sets of files that may exist before the first export
    MaxEdits,    \* bound of the model: edits by a user
    MaxChecks,   \* bound of the model: changes of what the checks say
    MaxCommits,  \* bound of the model: commits in the repository
    MaxChanges,  \* bound of the model: change sets of a task
    MaxCrashes,  \* bound of the model: calls that die
    Absent, None

\* What a path of the repository is: a project file, the engine output of an
\* export, or its transaction.json.
Out(e) == <<"out", e>>
Log(e) == <<"log", e>>
Keys == Paths \cup {Out(e) : e \in Exports} \cup {Log(e) : e \in Exports}

PathsOf(e) == {Items[e][i] : i \in 1..Len(Items[e])}

\* A transaction: the files that existed before, and whether it is recorded as
\* rolled back.  The contents after it are those of the export.
Transaction == [existed : SUBSET Paths, rolled : BOOLEAN]

\* The checks of an export plan.
Checks == {"task-completed", "approval-gate", "contract-qa", "visual-export-gate",
           "active-production-artifacts", "resource-contract-status",
           "artifact-resource-integrity", "revision-resolution"}

ASSUME DeliveryAssumption ==
    /\ Main \in Branches /\ {Before, Edited} \subseteq Contents
    /\ Absent \notin Contents
    /\ \A e \in Exports : Out(e) \notin Paths /\ Log(e) \notin Paths
    /\ IsFiniteSet(Exports)
    /\ Items \in [Exports -> Seq(Paths)]
    /\ \A e \in Exports : \A i, j \in 1..Len(Items[e]) : Items[e][i] = Items[e][j] => i = j
    /\ Content \in [Exports -> [Paths -> Contents]]
    /\ Generations \in Seq(SUBSET Exports) /\ Len(Generations) > 0
    /\ Verdicts \subseteq SUBSET Checks
    /\ Starts \subseteq SUBSET Paths
    /\ {MaxEdits, MaxChecks, MaxCommits, MaxChanges, MaxCrashes} \subseteq Nat

VARIABLES
    disk,        \* task.json
    work,        \* the files of the project: the working tree
    backup,      \* [Exports -> the backups of its files]
    repo,        \* the branch that is checked out, and the tip of each branch
    call,        \* the call in progress
    edits,       \* how often a user has written a file
    crashes,     \* how often a call has died
    mine,        \* history: what a user last had in each file
    origin,      \* history: the project files when the last attempt began
    torn,        \* history: files that an attempt changed before it died
    forced       \* history: files somebody agreed to overwrite

vars == <<disk, work, backup, repo, call, edits, crashes, mine, origin, torn, forced>>

(***************************************************************************)
(* The task, the working tree and the repository                           *)
(***************************************************************************)

ExportStatus == {"none", "ready", "blocked", "completed", "failed", "rolled-back"}

ChangeStatus == {"ready", "no-changes", "committed", "failed", "reverted"}

\* A change set: its identity is the export, the commit it starts from, its
\* branch and its paths.
Change == [export : Exports, base : Nat, branch : Branches, paths : SUBSET Keys,
           status : ChangeStatus, commit : Nat]

SameChange(a, b) == /\ a.export = b.export /\ a.base = b.base
                    /\ a.branch = b.branch /\ a.paths = b.paths

\* failing: the checks that fail now; active: the generation of artifacts that
\* is active.
Task == [failing : SUBSET Checks, active : 1..Len(Generations), checked : Nat,
         rec : [Exports -> ExportStatus], changes : SUBSET Change]

\* What the paths hold; what a commit is, with the ids of those of its past:
IsTree(tree) ==
    /\ DOMAIN tree = Keys
    /\ \A p \in Paths : tree[p] \in Contents \cup {Absent}
    /\ \A e \in Exports : /\ tree[Out(e)] \in {"partial", "whole", Absent}
                          /\ tree[Log(e)] \in Transaction \cup {Absent}

\* held is what it, or a commit of its past, has in each project file.
IsCommit(commit) ==
    /\ DOMAIN commit = {"id", "tree", "parent", "past", "held"}
    /\ IsTree(commit.tree) /\ IsTree(commit.parent)
    /\ commit.id \in commit.past /\ commit.past \subseteq Nat
    /\ commit.held \subseteq Paths \X (Contents \cup {Absent})

\* None is not a commit.
Value == Contents \cup {Absent, "partial", "whole"} \cup Transaction
Trees == {tree \in [Keys -> Value] : IsTree(tree)}
Commit == {commit \in [id : Nat, tree : Trees, parent : Trees, past : SUBSET Nat,
                       held : SUBSET (Paths \X (Contents \cup {Absent}))] :
              commit.id \in commit.past}
ASSUME NoneAssumption == None \notin Commit

Files(tree) == {<<p, tree[p]>> : p \in Paths}

Tip(b) == repo.tip[b]
CheckedOut == Tip(repo.at)

\* The files that a working tree and a commit have differently.
Dirty(files, commit, keys) == {k \in keys : files[k] # commit.tree[k]}

Call == [pc : {"idle", "backup", "write", "record", "undo", "restore",
               "stamp", "branch", "commit", "unbranch", "revert", "reverted"},
         task : Task \cup {None}, export : Exports \cup {None}, change : Change \cup {None},
         n : Nat, existed : SUBSET Paths, from : Branches]

Idle == [pc |-> "idle", task |-> None, export |-> None, change |-> None,
         n |-> 0, existed |-> {}, from |-> Main]

\* One call at a time: it holds the lease of the task, or it is the only one
\* of its command line.
At(pc) == call.pc = pc
Moves(pc) == call' = [call EXCEPT !.pc = pc]
Return == call' = Idle
Free == At("idle")

Untouched == UNCHANGED <<edits, crashes, mine, origin, torn, forced>>

(***************************************************************************)
(* Exporting                                                               *)
(***************************************************************************)

\* _build_plan
Planned(t) == IF t.failing = {} THEN "ready" ELSE "blocked"

\* _persist: a record that is finished is not planned anew.
Persist(t, e, s) ==
    IF t.rec[e] \in {"completed", "rolled-back"} /\ s \in {"ready", "blocked"}
    THEN t ELSE [t EXCEPT !.rec[e] = s]

Prepare(e) ==
    /\ Free /\ e \in Generations[disk.active]
    /\ disk' = Persist(disk, e, Planned(disk))
    /\ UNCHANGED <<work, backup, repo, call>> /\ Untouched

\* execute: the record is saved, the task loaded again.  A completed export is
\* answered from its record; a blocked one, and one that was rolled back, are
\* refused.
Execute(e) ==
    /\ Free /\ e \in Generations[disk.active] /\ disk.rec[e] # "completed"
    /\ LET t == Persist(disk, e, Planned(disk)) IN
       /\ disk' = t
       /\ IF t.rec[e] = "ready"
          THEN /\ call' = [Idle EXCEPT !.pc = "backup", !.task = t, !.export = e, !.n = 1]
               /\ origin' = [origin EXCEPT ![e] = [p \in Paths |-> work[p]]]
               /\ work' = [work EXCEPT ![Out(e)] = IF @ = Absent THEN "partial" ELSE @]
          ELSE UNCHANGED <<call, origin, work>>
    /\ UNCHANGED <<backup, repo, edits, crashes, mine, torn, forced>>

\* The item the call is at.
Item == Items[call.export][call.n]
HasItem == call.n <= Len(Items[call.export])

\* Mutant: the file is backed up unless a backup is there.
BackUp_Once ==
    /\ At("backup") /\ HasItem
    /\ LET e == call.export
           p == Item
       IN /\ backup' = IF work[p] = Absent \/ backup[e][p] # Absent THEN backup
                       ELSE [backup EXCEPT ![e][p] = work[p]]
          /\ call' = [call EXCEPT !.pc = "write",
                                 !.existed = IF work[p] = Absent THEN @ ELSE @ \cup {p}]
    /\ UNCHANGED <<disk, work, repo>> /\ Untouched

\* backup(): a file that is there is copied over what was backed up before.
BackUp ==
    /\ At("backup") /\ HasItem
    /\ LET e == call.export
           p == Item
       IN /\ backup' = IF work[p] = Absent THEN backup
                       ELSE [backup EXCEPT ![e][p] = work[p]]
          /\ call' = [call EXCEPT !.pc = "write",
                                 !.existed = IF work[p] = Absent THEN @ ELSE @ \cup {p}]
    /\ UNCHANGED <<disk, work, repo>> /\ Untouched

\* The file and its copy in the engine output are written.
Write ==
    /\ At("write")
    /\ work' = [work EXCEPT ![Item] = Content[call.export][Item]]
    /\ call' = [call EXCEPT !.pc = "backup", !.n = @ + 1]
    /\ UNCHANGED <<disk, backup, repo>> /\ Untouched

\* The export manifest completes the engine output; transaction.json.
WriteLog ==
    /\ At("backup") /\ ~HasItem
    /\ LET e == call.export IN
       work' = [work EXCEPT ![Out(e)] = "whole",
                            ![Log(e)] = [existed |-> call.existed, rolled |-> FALSE]]
    /\ Moves("record")
    /\ UNCHANGED <<disk, backup, repo>> /\ Untouched

\* The copy of the task that was loaded before is saved with the record.
Completed ==
    /\ At("record")
    /\ disk' = Persist(call.task, call.export, "completed")
    /\ Return
    /\ UNCHANGED <<work, backup, repo>> /\ Untouched

\* What a rollback of a file does to the tree.
Restored(files, e, p, existed) ==
    [files EXCEPT ![p] = IF p \in existed THEN backup[e][p] ELSE Absent]

\* What the file of the item holds when writing it fails: what it held, or
\* its new content already.
HalfWritten ==
    {work} \cup IF At("write") THEN {[work EXCEPT ![Item] = Content[call.export][Item]]} ELSE {}

\* Mutant: the file that could not be written is left as it is.
Fails_OneLess ==
    /\ At("write") \/ At("backup")
    /\ work' \in HalfWritten
    /\ call' = [call EXCEPT !.pc = "undo", !.n = @ - 1]
    /\ UNCHANGED <<disk, backup, repo>> /\ Untouched

\* Something raises: while a file is backed up or written, or the manifest or
\* the log is.
Fails ==
    /\ At("write") \/ At("backup")
    /\ work' \in HalfWritten
    /\ call' = [call EXCEPT !.pc = "undo", !.n = IF At("write") THEN @ ELSE @ - 1]
    /\ UNCHANGED <<disk, backup, repo>> /\ Untouched

\* The automatic rollback, last file first.
Undo ==
    /\ At("undo") /\ call.n > 0
    /\ work' = Restored(work, call.export, Item, call.existed)
    /\ call' = [call EXCEPT !.n = @ - 1]
    /\ UNCHANGED <<disk, backup, repo>> /\ Untouched

\* The engine output is removed and the failure recorded.
Undone ==
    /\ At("undo") /\ call.n = 0
    /\ work' = [work EXCEPT ![Out(call.export)] = Absent]
    /\ disk' = Persist(call.task, call.export, "failed")
    /\ Return
    /\ UNCHANGED <<backup, repo>> /\ Untouched

(***************************************************************************)
(* Rolling back                                                            *)
(***************************************************************************)

\* Files that are no longer what the export wrote.
Conflicts(e) == {p \in PathsOf(e) : work[p] # Content[e][p]}

\* Mutant: nobody looks whether the files have changed.
RollBack_Blind(e, force) ==
    /\ Free /\ disk.rec[e] = "completed" /\ work[Log(e)] # Absent
    /\ call' = [Idle EXCEPT !.pc = "restore", !.task = disk, !.export = e,
                            !.n = Len(Items[e]), !.existed = work[Log(e)].existed]
    /\ forced' = IF force THEN forced \cup Conflicts(e) ELSE forced
    /\ UNCHANGED <<disk, work, backup, repo, edits, crashes, mine, origin, torn>>

\* rollback: the transaction must be there, and the files as the export wrote
\* them unless force is given.
RollBack(e, force) ==
    /\ Free /\ disk.rec[e] = "completed" /\ work[Log(e)] # Absent
    /\ force \/ Conflicts(e) = {}
    /\ call' = [Idle EXCEPT !.pc = "restore", !.task = disk, !.export = e,
                            !.n = Len(Items[e]), !.existed = work[Log(e)].existed]
    /\ forced' = IF force THEN forced \cup Conflicts(e) ELSE forced
    /\ UNCHANGED <<disk, work, backup, repo, edits, crashes, mine, origin, torn>>

Restore ==
    /\ At("restore") /\ call.n > 0
    /\ work' = Restored(work, call.export, Item, call.existed)
    /\ call' = [call EXCEPT !.n = @ - 1]
    /\ UNCHANGED <<disk, backup, repo>> /\ Untouched

RolledBack ==
    /\ At("restore") /\ call.n = 0
    /\ work' = [work EXCEPT ![Out(call.export)] = Absent]
    /\ disk' = Persist(call.task, call.export, "rolled-back")
    /\ Moves("stamp")
    /\ UNCHANGED <<backup, repo>> /\ Untouched

\* transaction.json is written last, from what was read first.
Stamp ==
    /\ At("stamp")
    /\ work' = [work EXCEPT ![Log(call.export)] =
                    [existed |-> call.existed, rolled |-> TRUE]]
    /\ Return
    /\ UNCHANGED <<disk, backup, repo>> /\ Untouched

\* export_project_assets: the directory of the target is emptied first, and
\* the gated exports of the target are in it.
ExportDirectly(target) ==
    /\ Free
    /\ work' = [k \in Keys |-> IF \E e \in Exports : k = Out(e) /\ Target[e] = target
                               THEN Absent ELSE work[k]]
    /\ UNCHANGED <<disk, backup, repo, call>> /\ Untouched

(***************************************************************************)
(* Git change sets                                                         *)
(***************************************************************************)

\* prepare_export_change: the transaction, the files it changed and the engine
\* output, as far as it is there.
PrepareChange(e, b) ==
    /\ Free /\ disk.rec[e] = "completed" /\ work[Log(e)] # Absent
    /\ LET paths == {Log(e)} \cup PathsOf(e)
                    \cup {k \in {Out(e)} : work[k] # Absent}
           change == [export |-> e, base |-> CheckedOut.id, branch |-> b, paths |-> paths,
                      status |-> IF Dirty(work, CheckedOut, paths) = {} THEN "no-changes"
                                 ELSE "ready",
                      commit |-> 0]
           others == {x \in disk.changes : ~SameChange(x, change)}
       IN /\ Cardinality(others) < MaxChanges
          /\ disk' = [disk EXCEPT !.changes = others \cup {change}]
    /\ UNCHANGED <<work, backup, repo, call>> /\ Untouched

\* The record in a task becomes another.
Recorded(t, old, new) == [t EXCEPT !.changes = (@ \ {old}) \cup {new}]

\* Mutant: a branch of that name may exist.
Branch_Existing(x) ==
    /\ Free /\ x \in disk.changes /\ x.status = "ready" /\ x.base = CheckedOut.id
    /\ repo.at # x.branch
    /\ call' = [Idle EXCEPT !.pc = IF Tip(x.branch) = None THEN "commit" ELSE "unbranch",
                            !.task = disk, !.change = x, !.from = repo.at]
    /\ repo' = IF Tip(x.branch) = None
               THEN [repo EXCEPT !.at = x.branch, !.tip[x.branch] = CheckedOut] ELSE repo
    /\ UNCHANGED <<disk, work, backup>> /\ Untouched

\* execute: HEAD must be where the change set was prepared and its branch new;
\* the branch is made and checked out.
Branch(x) ==
    /\ Free /\ x \in disk.changes /\ x.status = "ready" /\ x.base = CheckedOut.id
    /\ Tip(x.branch) = None
    /\ call' = [Idle EXCEPT !.pc = "commit", !.task = disk, !.change = x, !.from = repo.at]
    /\ repo' = [repo EXCEPT !.at = x.branch, !.tip[x.branch] = CheckedOut]
    /\ UNCHANGED <<disk, work, backup>> /\ Untouched

\* git add needs each path in the working tree or in the index.
Addable(x) == \A k \in x.paths : work[k] # Absent \/ CheckedOut.tree[k] # Absent

\* A new commit on the branch that is checked out.
Committed(tree) ==
    [repo EXCEPT !.made = @ + 1,
         !.tip[repo.at] = [id |-> repo.made + 1, tree |-> tree, parent |-> CheckedOut.tree,
                           past |-> CheckedOut.past \cup {repo.made + 1},
                           held |-> CheckedOut.held \cup Files(tree)]]

\* git add and git commit of the paths.
MakeCommit ==
    /\ At("commit") /\ repo.made < MaxCommits
    /\ LET x == call.change
           tree == [k \in Keys |-> IF k \in x.paths THEN work[k] ELSE CheckedOut.tree[k]]
       IN /\ Addable(x) /\ tree # CheckedOut.tree
          /\ repo' = Committed(tree)
          /\ call' = [call EXCEPT !.pc = "branch", !.n = repo.made + 1]
    /\ UNCHANGED <<disk, work, backup>> /\ Untouched

\* A path cannot be added, nothing is staged, or git refuses the commit.
CommitFails ==
    /\ At("commit")
    /\ Moves("unbranch")
    /\ UNCHANGED <<disk, work, backup, repo>> /\ Untouched

\* Mutant: the branch is deleted without being left.
Unbranch_Stays ==
    /\ At("unbranch")
    /\ LET x == call.change IN
       /\ repo' = [repo EXCEPT !.tip[x.branch] = None]
       /\ disk' = Recorded(call.task, x, [x EXCEPT !.status = "failed"])
    /\ Return
    /\ UNCHANGED <<work, backup>> /\ Untouched

\* The index is reset, the branch left and deleted, the failure recorded.
Unbranch ==
    /\ At("unbranch")
    /\ LET x == call.change IN
       /\ repo' = [repo EXCEPT !.at = call.from, !.tip[x.branch] = None]
       /\ disk' = Recorded(call.task, x, [x EXCEPT !.status = "failed"])
    /\ Return
    /\ UNCHANGED <<work, backup>> /\ Untouched

RecordCommit ==
    /\ At("branch")
    /\ LET x == call.change IN
       disk' = Recorded(call.task, x,
                        [x EXCEPT !.status = "committed", !.commit = call.n])
    /\ Return
    /\ UNCHANGED <<work, backup, repo>> /\ Untouched

\* git switch keeps what the two commits have in common and refuses to
\* overwrite what is not committed.
Switchable(to) == \A k \in Keys : CheckedOut.tree[k] # to.tree[k] => work[k] = CheckedOut.tree[k]
Switched(to) == [k \in Keys |-> IF CheckedOut.tree[k] # to.tree[k] THEN to.tree[k] ELSE work[k]]

\* revert: the paths must be clean; the branch is checked out.
Switch(x) ==
    /\ Free /\ x \in disk.changes /\ x.status = "committed"
    /\ Dirty(work, CheckedOut, x.paths) = {}
    /\ Tip(x.branch) # None /\ Switchable(Tip(x.branch))
    /\ work' = Switched(Tip(x.branch))
    /\ repo' = [repo EXCEPT !.at = x.branch]
    /\ call' = [Idle EXCEPT !.pc = "revert", !.task = disk, !.change = x]
    /\ UNCHANGED <<disk, backup>> /\ Untouched

\* git revert of a commit that is the tip; what is reverted already is empty,
\* and git refuses it.
Revert ==
    /\ At("revert")
    /\ IF CheckedOut.id = call.change.commit /\ repo.made < MaxCommits
       THEN /\ repo' = Committed(CheckedOut.parent)
            /\ work' = [k \in Keys |-> IF CheckedOut.parent[k] # CheckedOut.tree[k]
                                       THEN CheckedOut.parent[k] ELSE work[k]]
            /\ Moves("reverted")
       ELSE Return /\ UNCHANGED <<repo, work>>
    /\ UNCHANGED <<disk, backup>> /\ Untouched

RecordRevert ==
    /\ At("reverted")
    /\ LET x == call.change IN
       disk' = Recorded(call.task, x, [x EXCEPT !.status = "reverted"])
    /\ Return
    /\ UNCHANGED <<work, backup, repo>> /\ Untouched

(***************************************************************************)
(* The surroundings                                                        *)
(***************************************************************************)

\* The rest of the framework changes what the checks say, or the artifacts.
Recheck ==
    /\ Free /\ disk.checked < MaxChecks
    /\ \/ \E failing \in Verdicts \ {disk.failing} :
              disk' = [disk EXCEPT !.failing = failing, !.checked = @ + 1]
       \/ /\ disk.active < Len(Generations)
          /\ disk' = [disk EXCEPT !.active = @ + 1, !.checked = @ + 1]
    /\ UNCHANGED <<work, backup, repo, call>> /\ Untouched

\* A user writes a project file, between two calls.
Edit(p) ==
    /\ Free
    /\ edits < MaxEdits
    /\ work' = [work EXCEPT ![p] = Edited]
    /\ mine' = [mine EXCEPT ![p] = Edited]
    /\ edits' = edits + 1
    /\ forced' = forced \ {p}
    /\ UNCHANGED <<disk, backup, repo, call, crashes, origin, torn>>

\* A user checks out another branch, between two calls.
CheckOut(b) ==
    /\ Free /\ b # repo.at /\ Tip(b) # None /\ Switchable(Tip(b))
    /\ work' = Switched(Tip(b))
    /\ repo' = [repo EXCEPT !.at = b]
    /\ UNCHANGED <<disk, backup, call>> /\ Untouched

\* The process dies in the middle of a call.
Crash ==
    /\ ~At("idle") /\ crashes < MaxCrashes
    /\ crashes' = crashes + 1
    /\ torn' = IF At("backup") \/ At("write") \/ At("record") \/ At("undo")
               THEN torn \cup {<<call.export, p>> :
                        p \in {q \in PathsOf(call.export) : work[q] # origin[call.export][q]}}
               ELSE torn
    /\ Return
    /\ UNCHANGED <<disk, work, backup, repo, edits, mine, origin, forced>>

Init ==
    /\ disk = [failing |-> {}, active |-> 1, checked |-> 0,
               rec |-> [e \in Exports |-> "none"], changes |-> {}]
    /\ \E there \in Starts :
          work = [k \in Keys |-> IF k \in there THEN Before ELSE Absent]
    /\ \E tracked \in SUBSET {p \in Paths : work[p] # Absent} :
          LET tree == [k \in Keys |-> IF k \in tracked THEN work[k] ELSE Absent] IN
          repo = [at |-> Main, made |-> 0,
                  tip |-> [b \in Branches |->
                              IF b = Main THEN [id |-> 0, tree |-> tree, parent |-> tree, past |-> {0},
                                                held |-> Files(tree)]
                              ELSE None]]
    /\ backup = [e \in Exports |-> [p \in Paths |-> Absent]]
    /\ call = Idle
    /\ edits = 0 /\ crashes = 0
    /\ mine = [p \in Paths |-> work[p]]
    /\ origin = [e \in Exports |-> [p \in Paths |-> work[p]]]
    /\ torn = {} /\ forced = {}

Exporting ==
    \/ \E e \in Exports : Execute(e) \/ RollBack(e, TRUE) \/ RollBack(e, FALSE)
    \/ BackUp \/ Write \/ WriteLog \/ Completed
    \/ Fails \/ Undo \/ Undone
    \/ Restore \/ RolledBack \/ Stamp

Changing ==
    \/ \E x \in disk.changes : Branch(x) \/ Switch(x)
    \/ MakeCommit \/ CommitFails \/ Unbranch \/ RecordCommit
    \/ Revert \/ RecordRevert

Next ==
    \/ Exporting \/ Changing \/ Crash
    \/ \E e \in Exports : Prepare(e) \/ \E b \in Branches \ {Main} : PrepareChange(e, b)
    \/ \E e \in Exports : ExportDirectly(Target[e])
    \/ \E p \in Paths : Edit(p)
    \/ \E b \in Branches : CheckOut(b)
    \/ Recheck

Spec == Init /\ [][Next]_vars

(***************************************************************************)
(* Properties                                                              *)
(***************************************************************************)

\* The files, the records and the repository keep their types.
TypeOK ==
    /\ disk \in Task
    /\ IsTree(work)
    /\ backup \in [Exports -> [Paths -> Contents \cup {Absent}]]
    /\ DOMAIN repo = {"at", "made", "tip"} /\ repo.at \in Branches
    /\ repo.made \in 0..MaxCommits
    /\ \A b \in Branches : Tip(b) = None \/ IsCommit(Tip(b))
    /\ CheckedOut # None
    /\ call \in Call
    /\ torn \subseteq Exports \X Paths /\ forced \subseteq Paths

\* Exports of which a record says that they were rolled back, automatically or
\* on demand.
IsUndone(e) == disk.rec[e] \in {"failed", "rolled-back"}

\* An export that is recorded as failed or rolled back has left its files as
\* they were when its last attempt began, whatever was delivered, committed,
\* edited or left half done by a crash meanwhile (GatedExportService.execute
\* and rollback).
RollbackRestores ==
    [][\A e \in Exports :
           call.export = e /\ ~IsUndone(e) /\ IsUndone(e)' =>
               \A p \in PathsOf(e) : work'[p] = origin[e][p]]_vars

\* What a user had in a project file is still in the file, in a backup or in a
\* commit that a branch has, or is what an export writes there itself, unless
\* somebody forced a rollback over it or an attempt died that had written the
\* file: made again, it backs up what it wrote itself (backup, rollback's
\* conflicts, git's refusals).
NothingIsLost ==
    \A p \in Paths :
        \/ mine[p] = Absent \/ work[p] = mine[p] \/ p \in forced
        \/ \E e \in Exports : <<e, p>> \in torn \/ Content[e][p] = mine[p]
        \/ \E e \in Exports : backup[e][p] = mine[p]
        \/ \E b \in Branches : Tip(b) # None /\ <<p, mine[p]>> \in Tip(b).held

\* A commit that a change set records is reachable from a branch, whatever
\* later change sets failed and cleaned up (GitChangeService.execute).
CommitsAreKept ==
    \A x \in disk.changes :
        x.status \in {"committed", "reverted"} =>
            \E b \in Branches : Tip(b) # None /\ x.commit \in Tip(b).past
=============================================================================
