--------------------------- MODULE DeliveryProofs ---------------------------
(***************************************************************************)
(* What the delivery into a game project keeps, for any number of exports, *)
(* files, branches, commits and crashes: an export that is undone puts its *)
(* files back, what a user had is not lost, and a recorded commit stays    *)
(* reachable.                                                              *)
(***************************************************************************)
EXTENDS Delivery, TLAPS

(***************************************************************************)
(* Trees                                                                   *)
(***************************************************************************)

LEMMA KeyParts ==
    /\ \A p \in Paths : p \in Keys
    /\ \A e \in Exports : /\ Out(e) \in Keys /\ Log(e) \in Keys
                          /\ Out(e) \notin Paths /\ Log(e) \notin Paths
    /\ \A e, f \in Exports : /\ Out(e) = Out(f) => e = f
                             /\ Log(e) = Log(f) => e = f
                             /\ Out(e) # Log(f)
BY DeliveryAssumption DEF Keys, Out, Log

LEMMA ItemParts ==
    ASSUME NEW e \in Exports
    PROVE  /\ Len(Items[e]) \in Nat
           /\ \A i \in 1..Len(Items[e]) : Items[e][i] \in PathsOf(e)
           /\ PathsOf(e) \subseteq Paths
           /\ \A p \in PathsOf(e) : \E i \in 1..Len(Items[e]) : p = Items[e][i]
           /\ \A i, j \in 1..Len(Items[e]) : Items[e][i] = Items[e][j] => i = j
           /\ \A p \in Paths : Content[e][p] \in Contents
<1>1. Items[e] \in Seq(Paths)
  BY DeliveryAssumption
<1>2. \A i \in 1..Len(Items[e]) : Items[e][i] \in Paths
  BY <1>1
<1>3. Len(Items[e]) \in Nat
  BY <1>1
<1>4. PathsOf(e) = {Items[e][i] : i \in 1..Len(Items[e])}
  BY DEF PathsOf
<1>5. \A i, j \in 1..Len(Items[e]) : Items[e][i] = Items[e][j] => i = j
  BY DeliveryAssumption
<1>6. \A p \in Paths : Content[e][p] \in Contents
  BY DeliveryAssumption
<1> QED
  BY <1>2, <1>3, <1>4, <1>5, <1>6

\* The three kinds of keys, and what a tree has at them.
Fits(k, v) ==
    /\ k \in Paths => v \in Contents \cup {Absent}
    /\ \A e \in Exports : /\ k = Out(e) => v \in {"partial", "whole", Absent}
                          /\ k = Log(e) => v \in Transaction \cup {Absent}

LEMMA TreeFits ==
    ASSUME NEW t \in Trees
    PROVE  t \in [Keys -> Value] /\ \A k \in Keys : Fits(k, t[k])
BY DEF Trees, IsTree, Fits

LEMMA FitsTree ==
    ASSUME NEW t, DOMAIN t = Keys, t = [k \in Keys |-> t[k]], \A k \in Keys : Fits(k, t[k])
    PROVE  t \in Trees
<1>1. \A k \in Keys : t[k] \in Value
  BY DEF Fits, Value, Keys
<1>2. t \in [Keys -> Value]
  BY <1>1
<1>3. IsTree(t)
  BY KeyParts DEF Fits, IsTree
<1> QED
  BY <1>2, <1>3 DEF Trees

LEMMA PutTree ==
    ASSUME NEW t \in Trees, NEW k \in Keys, NEW v, Fits(k, v)
    PROVE  /\ [t EXCEPT ![k] = v] \in Trees
           /\ [t EXCEPT ![k] = v][k] = v
           /\ \A l \in Keys \ {k} : [t EXCEPT ![k] = v][l] = t[l]
<1> DEFINE u == [t EXCEPT ![k] = v]
<1>1. DOMAIN u = Keys /\ u = [l \in Keys |-> u[l]]
      /\ u[k] = v /\ \A l \in Keys \ {k} : u[l] = t[l]
  BY TreeFits
<1>2. \A l \in Keys : Fits(l, u[l])
  BY <1>1, TreeFits
<1> HIDE DEF u
<1>3. u \in Trees
  BY <1>1, <1>2, FitsTree
<1> QED
  BY <1>1, <1>3 DEF u

\* A tree that has at each key what one of two trees has there.
LEMMA MixedTree ==
    ASSUME NEW s \in Trees, NEW t \in Trees, NEW u, DOMAIN u = Keys, u = [k \in Keys |-> u[k]],
           \A k \in Keys : u[k] = s[k] \/ u[k] = t[k]
    PROVE  u \in Trees
<1>1. \A k \in Keys : Fits(k, u[k])
  BY TreeFits
<1> QED
  BY <1>1, FitsTree

LEMMA FilesOf ==
    ASSUME NEW t \in Trees
    PROVE  /\ Files(t) \subseteq Paths \X (Contents \cup {Absent})
           /\ \A p \in Paths : <<p, t[p]>> \in Files(t)
           /\ \A x \in Files(t) : \E p \in Paths : x = <<p, t[p]>>
BY TreeFits, KeyParts DEF Fits, Files

(***************************************************************************)
(* Types                                                                   *)
(***************************************************************************)

Repo == [at : Branches, made : 0..MaxCommits, tip : [Branches -> Commit \cup {None}]]

File == Contents \cup {Absent}

Types ==
    /\ disk \in Task /\ work \in Trees /\ backup \in [Exports -> [Paths -> File]]
    /\ repo \in Repo /\ CheckedOut # None /\ call \in Call
    /\ torn \subseteq Exports \X Paths /\ forced \subseteq Paths
    /\ mine \in [Paths -> File] /\ origin \in [Exports -> [Paths -> File]]

\* What a call knows where it is: the export it works on, the item it is at,
\* that the copy of the task it keeps is what the task is, and where the branch
\* of its change set is.
InExport == {"backup", "write", "record", "undo", "restore", "stamp"}
InChange == {"branch", "commit", "unbranch", "revert", "reverted"}

CallOK ==
    /\ call.pc \in InExport => call.export \in Exports
    /\ At("backup") => call.n \in 1..(Len(Items[call.export]) + 1)
    /\ At("write") => call.n \in 1..Len(Items[call.export])
    /\ At("undo") \/ At("restore") => call.n \in 0..Len(Items[call.export])
    /\ call.pc \notin {"idle", "stamp"} => call.task = disk
    /\ call.pc \in InChange => call.change \in disk.changes
    /\ call.pc \in {"commit", "unbranch", "branch"} =>
          /\ repo.at = call.change.branch /\ call.from # call.change.branch
          /\ Tip(call.from) # None
    /\ call.pc \in {"commit", "unbranch"} => Tip(call.change.branch) = Tip(call.from)
    /\ At("branch") => call.n \in Tip(call.change.branch).past
    /\ call.pc \in {"revert", "reverted"} => call.change.status = "committed"
    /\ call.pc \in {"backup", "write", "record", "undo"} => disk.rec[call.export] = "ready"
    /\ At("restore") => disk.rec[call.export] = "completed"
    /\ At("stamp") => disk.rec[call.export] = "rolled-back"

TypeInv == Types /\ CallOK

LEMMA CommitFacts ==
    ASSUME NEW c \in Commit
    PROVE  /\ c # None /\ c.id \in Nat /\ c.tree \in Trees /\ c.parent \in Trees
           /\ c.past \subseteq Nat /\ c.held \subseteq Paths \X File
BY NoneAssumption DEF Commit, File

LEMMA TypeFacts ==
    ASSUME Types
    PROVE  /\ disk \in Task /\ work \in Trees /\ backup \in [Exports -> [Paths -> File]]
           /\ repo \in Repo /\ CheckedOut \in Commit /\ call \in Call
           /\ torn \subseteq Exports \X Paths /\ forced \subseteq Paths
           /\ mine \in [Paths -> File] /\ origin \in [Exports -> [Paths -> File]]
           /\ \A b \in Branches : Tip(b) \in Commit \/ Tip(b) = None
BY DEF Types, Repo, CheckedOut, Tip

LEMMA InitTypeInv == Init => TypeInv
<1> SUFFICES ASSUME Init PROVE TypeInv
  OBVIOUS
<1>1. disk \in Task /\ disk.changes = {}
  BY DeliveryAssumption DEF Init, Task, ExportStatus
<1>2. call = Idle /\ Idle \in Call /\ Idle.pc = "idle"
  BY DeliveryAssumption DEF Init, Idle, Call
<1>3. PICK there \in Starts : work = [k \in Keys |-> IF k \in there THEN Before ELSE Absent]
  BY DEF Init
<1>4. work \in Trees
  <2>1. there \subseteq Paths /\ Before \in Contents
    BY DeliveryAssumption
  <2>2. \A k \in Keys : Fits(k, work[k])
    BY <1>3, <2>1, KeyParts DEF Fits
  <2> QED
    BY <1>3, <2>2, FitsTree
<1>5. PICK tracked \in SUBSET {p \in Paths : work[p] # Absent} :
        LET tree == [k \in Keys |-> IF k \in tracked THEN work[k] ELSE Absent] IN
        repo = [at |-> Main, made |-> 0,
                tip |-> [b \in Branches |->
                            IF b = Main THEN [id |-> 0, tree |-> tree, parent |-> tree, past |-> {0},
                                              held |-> Files(tree)]
                            ELSE None]]
  BY DEF Init
<1> DEFINE tree == [k \in Keys |-> IF k \in tracked THEN work[k] ELSE Absent]
           first == [id |-> 0, tree |-> tree, parent |-> tree, past |-> {0}, held |-> Files(tree)]
<1>6. tree \in Trees
  <2>1. \A k \in Keys : Fits(k, tree[k])
    BY <1>4, TreeFits, KeyParts DEF Fits
  <2> QED
    BY <2>1, FitsTree
<1>7. first \in Commit
  BY <1>6, FilesOf DEF Commit
<1>8. repo = [at |-> Main, made |-> 0, tip |-> [b \in Branches |-> IF b = Main THEN first ELSE None]]
  BY <1>5
<1> HIDE DEF tree, first
<1>9. repo \in Repo /\ CheckedOut = first
  BY <1>7, <1>8, DeliveryAssumption DEF Repo, CheckedOut, Tip
<1>10. \A p \in Paths : work[p] \in File
  BY <1>4, TreeFits, KeyParts DEF Fits, File
<1>11. /\ backup \in [Exports -> [Paths -> File]] /\ mine \in [Paths -> File]
       /\ origin \in [Exports -> [Paths -> File]]
       /\ torn \subseteq Exports \X Paths /\ forced \subseteq Paths
  BY <1>10 DEF Init, File
<1>12. Types
  BY <1>1, <1>2, <1>4, <1>7, <1>9, <1>11, NoneAssumption DEF Types
<1>13. CallOK
  BY <1>2 DEF CallOK, At, InExport, InChange
<1> QED
  BY <1>12, <1>13 DEF TypeInv

(***************************************************************************)
(* What the steps do to the records                                        *)
(***************************************************************************)

LEMMA PersistDoes ==
    ASSUME NEW t \in Task, NEW e \in Exports, NEW s \in ExportStatus
    PROVE  /\ Persist(t, e, s) \in Task
           /\ Persist(t, e, s).changes = t.changes
           /\ \A f \in Exports : f # e => Persist(t, e, s).rec[f] = t.rec[f]
           /\ Persist(t, e, s).rec[e] =
                 IF t.rec[e] \in {"completed", "rolled-back"} /\ s \in {"ready", "blocked"}
                 THEN t.rec[e] ELSE s
BY DEF Persist, Task

LEMMA PersistEnds ==
    ASSUME NEW t \in Task, NEW e \in Exports, NEW s \in {"completed", "failed", "rolled-back"}
    PROVE  /\ Persist(t, e, s) \in Task
           /\ Persist(t, e, s).changes = t.changes
           /\ \A f \in Exports : f # e => Persist(t, e, s).rec[f] = t.rec[f]
           /\ Persist(t, e, s).rec[e] = s
<1>1. s \in ExportStatus /\ s \notin {"ready", "blocked"}
  BY DEF ExportStatus
<1> QED
  BY <1>1, PersistDoes

LEMMA EndRecord ==
    ASSUME disk \in Task, NEW e \in Exports, NEW s \in {"completed", "failed", "rolled-back"},
           disk' = Persist(disk, e, s)
    PROVE  disk'.rec[e] = s
BY PersistEnds

LEMMA PlannedIs == \A t : Planned(t) \in {"ready", "blocked"} /\ Planned(t) \in ExportStatus
BY DEF Planned, ExportStatus

LEMMA RecordedDoes ==
    ASSUME NEW t \in Task, NEW old \in Change, NEW new \in Change
    PROVE  /\ Recorded(t, old, new) \in Task
           /\ Recorded(t, old, new).rec = t.rec
           /\ Recorded(t, old, new).changes = (t.changes \ {old}) \cup {new}
BY DEF Recorded, Task

\* A new commit on the branch that is checked out, and on no other.
LEMMA CommittedDoes ==
    ASSUME Types, NEW tree \in Trees, repo.made < MaxCommits, repo' = Committed(tree)
    PROVE  /\ repo' \in Repo /\ repo'.at = repo.at /\ repo'.made = repo.made + 1
           /\ \A b \in Branches \ {repo.at} : Tip(b)' = Tip(b)
           /\ CheckedOut' # None
           /\ Tip(repo.at)' = repo'.tip[repo.at] /\ CheckedOut' = repo'.tip[repo.at]
           /\ repo'.tip[repo.at] \in Commit
           /\ repo'.tip[repo.at].id = repo.made + 1 /\ repo'.tip[repo.at].tree = tree
           /\ repo'.tip[repo.at].parent = CheckedOut.tree
           /\ repo'.tip[repo.at].past = CheckedOut.past \cup {repo.made + 1}
           /\ repo'.tip[repo.at].held = CheckedOut.held \cup Files(tree)
<1> DEFINE new == [id |-> repo.made + 1, tree |-> tree, parent |-> CheckedOut.tree,
                   past |-> CheckedOut.past \cup {repo.made + 1},
                   held |-> CheckedOut.held \cup Files(tree)]
<1>1. CheckedOut \in Commit /\ repo \in Repo
  BY TypeFacts
<1>2. repo.made \in 0..MaxCommits /\ MaxCommits \in Nat /\ repo.at \in Branches
      /\ repo.tip \in [Branches -> Commit \cup {None}]
  BY <1>1, DeliveryAssumption DEF Repo
<1>3. /\ new \in Commit /\ new.id = repo.made + 1 /\ new.tree = tree
      /\ new.parent = CheckedOut.tree /\ new.past = CheckedOut.past \cup {repo.made + 1}
      /\ new.held = CheckedOut.held \cup Files(tree)
  BY <1>1, <1>2, CommitFacts, FilesOf DEF Commit, File
<1>4. repo' = [repo EXCEPT !.made = @ + 1, !.tip[repo.at] = new]
  BY DEF Committed
<1> HIDE DEF new
<1> DEFINE tips == [repo.tip EXCEPT ![repo.at] = new]
<1>7. tips \in [Branches -> Commit \cup {None}]
  BY <1>2, <1>3
<1>8. repo.made + 1 \in 0..MaxCommits
  BY <1>2
<1>9. repo' = [repo EXCEPT !.made = repo.made + 1, !.tip = tips]
  BY <1>1, <1>4 DEF Repo
<1>10. /\ tips[repo.at] = new /\ \A b \in Branches \ {repo.at} : tips[b] = repo.tip[b]
  BY <1>2
<1> HIDE DEF tips
<1>5. /\ repo'.at = repo.at /\ repo'.made = repo.made + 1 /\ repo'.tip = tips
      /\ repo' \in Repo
  BY <1>1, <1>2, <1>7, <1>8, <1>9 DEF Repo
<1>6. repo'.tip[repo.at] = new /\ \A b \in Branches \ {repo.at} : repo'.tip[b] = repo.tip[b]
  BY <1>5, <1>10
<1> QED
  BY <1>2, <1>3, <1>5, <1>6, CommitFacts DEF CheckedOut, Tip

\* What a call keeps when it goes on.
LEMMA MovesDoes ==
    ASSUME call \in Call, NEW pc, Moves(pc)
    PROVE  /\ call'.pc = pc /\ call'.task = call.task /\ call'.export = call.export
           /\ call'.change = call.change /\ call'.n = call.n /\ call'.existed = call.existed
           /\ call'.from = call.from
BY DEF Moves, Call

LEMMA IdleType == Idle \in Call /\ Idle.pc = "idle"
BY DeliveryAssumption DEF Idle, Call

\* A call that is over knows nothing.
LEMMA IdleOK == ASSUME call'.pc = "idle" PROVE CallOK'
BY DEF CallOK, At, InExport, InChange

\* The file an item writes.
LEMMA ItemIs ==
    ASSUME TypeInv, call.pc \in {"backup", "write", "undo", "restore"}, 0 < call.n, HasItem
    PROVE  /\ call.export \in Exports /\ call.n \in 1..Len(Items[call.export])
           /\ Item = Items[call.export][call.n] /\ Item \in PathsOf(call.export)
           /\ Item \in Paths /\ Item \in Keys /\ Content[call.export][Item] \in Contents
           /\ backup[call.export][Item] \in File
<1>1. call.export \in Exports /\ call.n \in Nat /\ Len(Items[call.export]) \in Nat
  BY TypeFacts, ItemParts DEF TypeInv, CallOK, InExport, Call
<1>2. call.n \in 1..Len(Items[call.export])
  BY <1>1 DEF HasItem
<1> QED
  BY <1>1, <1>2, ItemParts, KeyParts, TypeFacts DEF Item, TypeInv

LEMMA FileFits == ASSUME NEW p \in Paths, NEW v \in File PROVE Fits(p, v)
BY KeyParts DEF Fits, File

LEMMA OutFits ==
    ASSUME NEW e \in Exports, NEW v \in {"partial", "whole", Absent} PROVE Fits(Out(e), v)
BY KeyParts DEF Fits

LEMMA LogFits ==
    ASSUME NEW e \in Exports, NEW v \in Transaction \cup {Absent} PROVE Fits(Log(e), v)
BY KeyParts DEF Fits

LEMMA SwitchedTree ==
    ASSUME Types, NEW to \in Commit
    PROVE  /\ Switched(to) \in Trees
           /\ \A k \in Keys : Switched(to)[k] = IF CheckedOut.tree[k] # to.tree[k]
                                                THEN to.tree[k] ELSE work[k]
<1>1. work \in Trees /\ to.tree \in Trees
  BY TypeFacts, CommitFacts
<1>2. /\ DOMAIN Switched(to) = Keys /\ Switched(to) = [k \in Keys |-> Switched(to)[k]]
      /\ \A k \in Keys : Switched(to)[k] = IF CheckedOut.tree[k] # to.tree[k]
                                           THEN to.tree[k] ELSE work[k]
  BY DEF Switched
<1> QED
  BY <1>1, <1>2, MixedTree

LEMMA StepTypeInv == TypeInv /\ [Next]_vars => TypeInv'
<1> SUFFICES ASSUME TypeInv, [Next]_vars PROVE TypeInv'
  OBVIOUS
<1>a. /\ disk \in Task /\ work \in Trees /\ backup \in [Exports -> [Paths -> File]]
      /\ repo \in Repo /\ CheckedOut \in Commit /\ CheckedOut # None /\ call \in Call
      /\ torn \subseteq Exports \X Paths /\ forced \subseteq Paths
      /\ mine \in [Paths -> File] /\ origin \in [Exports -> [Paths -> File]]
      /\ Types /\ CallOK
  BY TypeFacts, CommitFacts DEF TypeInv
\* The steps of a call leave what the users and the crashes did.
<1>t. ASSUME Untouched, disk' \in Task, work' \in Trees, backup' \in [Exports -> [Paths -> File]],
             repo' \in Repo, CheckedOut' # None, call' \in Call
      PROVE  Types'
  BY <1>a, <1>t DEF Types, Untouched
<1>r. ASSUME repo' = repo PROVE repo' \in Repo /\ CheckedOut' # None
  BY <1>a, <1>r DEF CheckedOut, Tip
\* Calls that end, and steps between two calls.
<1>e. ASSUME Return \/ (Free /\ call' = call) PROVE call' \in Call /\ CallOK'
  BY <1>a, <1>e, IdleType, IdleOK DEF Return, Free, At
<1>1. ASSUME NEW e \in Exports, Prepare(e) PROVE TypeInv'
  <2>1. disk' \in Task
    BY <1>1, <1>a, PersistDoes, PlannedIs DEF Prepare
  <2> QED
    BY <1>1, <1>a, <1>t, <1>r, <1>e, <2>1 DEF Prepare, TypeInv
<1>2. ASSUME NEW e \in Exports, Execute(e) PROVE TypeInv'
  <2> DEFINE t == Persist(disk, e, Planned(disk))
  <2>1. t \in Task /\ disk' = t /\ UNCHANGED <<backup, repo, mine, torn, forced>>
    BY <1>2, <1>a, PersistDoes, PlannedIs DEF Execute
  <2>2. CASE t.rec[e] # "ready"
    <3>1. UNCHANGED <<call, origin, work>> /\ Free
      BY <1>2, <2>2 DEF Execute
    <3> QED
      BY <1>a, <1>r, <1>e, <2>1, <3>1 DEF TypeInv, Types
  <2>3. CASE t.rec[e] = "ready"
    <3>1. /\ call' = [Idle EXCEPT !.pc = "backup", !.task = t, !.export = e, !.n = 1]
          /\ origin' = [origin EXCEPT ![e] = [p \in Paths |-> work[p]]]
          /\ work' = [work EXCEPT ![Out(e)] = IF @ = Absent THEN "partial" ELSE @]
      BY <1>2, <2>3 DEF Execute
    <3>2. /\ call' \in Call /\ call'.pc = "backup" /\ call'.task = t /\ call'.export = e
          /\ call'.n = 1
      BY <2>1, <3>1, IdleType DEF Call, Idle
    <3>3. work' \in Trees
      BY <1>a, <3>1, TreeFits, KeyParts, OutFits, PutTree
    <3>4. origin' \in [Exports -> [Paths -> File]]
      <4>1. \A p \in Paths : work[p] \in File
        BY <1>a, TreeFits, KeyParts DEF Fits, File
      <4> QED
        BY <1>a, <3>1, <4>1
    <3>5. CallOK'
      <4>1. 1 \in 1..(Len(Items[e]) + 1)
        BY ItemParts
      <4> QED
        BY <2>1, <2>3, <3>2, <4>1 DEF CallOK, At, InExport, InChange
    <3> QED
      BY <1>a, <1>r, <2>1, <3>2, <3>3, <3>4, <3>5 DEF TypeInv, Types
  <2> QED
    BY <2>2, <2>3
<1>3. ASSUME BackUp PROVE TypeInv'
  <2>1. At("backup") /\ HasItem /\ UNCHANGED <<disk, work, repo>> /\ Untouched
    BY <1>3 DEF BackUp
  <2>2. /\ call.export \in Exports /\ call.n \in 1..Len(Items[call.export])
        /\ Item \in Paths
    BY <1>a, <2>1, ItemIs DEF CallOK, At, InExport
  <2>3. backup' \in [Exports -> [Paths -> File]]
    <3>1. work[Item] # Absent => work[Item] \in File
      BY <1>a, <2>2, TreeFits, KeyParts DEF Fits, File
    <3>2. backup' = IF work[Item] = Absent THEN backup
                    ELSE [backup EXCEPT ![call.export][Item] = work[Item]]
      BY <1>3 DEF BackUp
    <3> QED
      BY <1>a, <2>2, <3>1, <3>2
  <2>4. /\ call' \in Call /\ call'.pc = "write" /\ call'.task = call.task
        /\ call'.export = call.export /\ call'.n = call.n
    <3>1. call' = [call EXCEPT !.pc = "write",
                               !.existed = IF work[Item] = Absent THEN @ ELSE @ \cup {Item}]
      BY <1>3 DEF BackUp
    <3> QED
      BY <1>a, <2>2, <3>1 DEF Call
  <2>5. CallOK'
    BY <1>a, <2>1, <2>2, <2>4 DEF CallOK, At, InExport, InChange
  <2> QED
    BY <1>a, <1>t, <1>r, <2>1, <2>3, <2>4, <2>5 DEF TypeInv
<1>4. ASSUME Write PROVE TypeInv'
  <2>1. At("write") /\ UNCHANGED <<disk, backup, repo>> /\ Untouched
    BY <1>4 DEF Write
  <2>2. call.n \in 1..Len(Items[call.export]) /\ call.export \in Exports
    BY <1>a, <2>1 DEF CallOK, At, InExport
  <2>3. Len(Items[call.export]) \in Nat
    BY <2>2, ItemParts
  <2>4. /\ Item \in Paths /\ Item \in Keys /\ Content[call.export][Item] \in File
    BY <2>1, <2>2, <2>3, ItemIs DEF HasItem, At, File
  <2>5. work' \in Trees
    <3>1. Fits(Item, Content[call.export][Item])
      BY <2>4, FileFits
    <3> QED
      BY <1>4, <1>a, <2>4, <3>1, PutTree DEF Write
  <2>6. /\ call' \in Call /\ call'.pc = "backup" /\ call'.task = call.task
        /\ call'.export = call.export /\ call'.n = call.n + 1
    <3>1. call.n + 1 \in Nat
      BY <2>2, <2>3
    <3> QED
      BY <1>4, <1>a, <3>1 DEF Write, Call
  <2>7. CallOK'
    <3>1. call.n + 1 \in 1..(Len(Items[call.export]) + 1)
      BY <2>2, <2>3
    <3> QED
      BY <1>a, <2>1, <2>6, <3>1 DEF CallOK, At, InExport, InChange
  <2> QED
    BY <1>a, <1>t, <1>r, <2>1, <2>5, <2>6, <2>7 DEF TypeInv
<1>5. ASSUME WriteLog PROVE TypeInv'
  <2>1. At("backup") /\ UNCHANGED <<disk, backup, repo>> /\ Untouched /\ Moves("record")
    BY <1>5 DEF WriteLog
  <2>2. call.export \in Exports
    BY <1>a, <2>1 DEF CallOK, At, InExport
  <2>3. work' \in Trees
    <3> DEFINE e == call.export
               v == [existed |-> call.existed, rolled |-> FALSE]
               w == [work EXCEPT ![Out(e)] = "whole"]
    <3>1. work' = [w EXCEPT ![Log(e)] = v]
      BY <1>5 DEF WriteLog
    <3>2. v \in Transaction
      BY <1>a DEF Call, Transaction
    <3>3. w \in Trees
      BY <1>a, <2>2, KeyParts, OutFits, PutTree
    <3> HIDE DEF w, v
    <3> QED
      BY <2>2, <3>1, <3>2, <3>3, KeyParts, LogFits, PutTree
  <2>4. call' \in Call
    BY <1>a, <2>1 DEF Moves, Call
  <2>5. CallOK'
    BY <1>a, <2>1, MovesDoes DEF CallOK, At, InExport, InChange
  <2> QED
    BY <1>a, <1>t, <1>r, <2>1, <2>3, <2>4, <2>5 DEF TypeInv
<1>6. ASSUME Completed PROVE TypeInv'
  <2>1. call.task = disk /\ call.export \in Exports
    BY <1>6, <1>a DEF Completed, CallOK, At, InExport
  <2>2. disk' \in Task
    BY <1>6, <1>a, <2>1, PersistEnds DEF Completed
  <2> QED
    BY <1>6, <1>a, <1>t, <1>r, <1>e, <2>2 DEF Completed, TypeInv
<1>w. ASSUME call.export \in Exports, call.n \in 1..Len(Items[call.export])
      PROVE  /\ HasItem /\ Item \in Paths /\ Item \in Keys /\ Len(Items[call.export]) \in Nat
             /\ Fits(Item, Content[call.export][Item]) /\ Fits(Item, Absent)
             /\ Fits(Item, backup[call.export][Item])
  <2>1. HasItem /\ Item \in Paths /\ Len(Items[call.export]) \in Nat
    BY <1>w, ItemParts DEF HasItem, Item
  <2>2. /\ Content[call.export][Item] \in File /\ Absent \in File
        /\ backup[call.export][Item] \in File
    BY <1>a, <1>w, <2>1, ItemParts DEF File
  <2> QED
    BY <2>1, <2>2, FileFits, KeyParts
<1>7. ASSUME Fails PROVE TypeInv'
  <2>1. /\ At("write") \/ At("backup")
        /\ UNCHANGED <<disk, backup, repo>> /\ Untouched
        /\ work' \in HalfWritten
        /\ call' = [call EXCEPT !.pc = "undo", !.n = IF At("write") THEN @ ELSE @ - 1]
    BY <1>7 DEF Fails
  <2>2. call.export \in Exports /\ Len(Items[call.export]) \in Nat /\ UNCHANGED <<disk, backup, repo>>
        /\ Untouched
    BY <1>7, <1>a, ItemParts DEF Fails, CallOK, At, InExport
  <2>3. work' \in Trees
    <3>1. CASE At("write")
      <4>1. call.n \in 1..Len(Items[call.export])
        BY <1>a, <3>1 DEF CallOK
      <4>2. work' = work \/ work' = [work EXCEPT ![Item] = Content[call.export][Item]]
        BY <2>1 DEF HalfWritten
      <4> QED
        BY <1>a, <1>w, <2>2, <4>1, <4>2, PutTree
    <3>2. CASE ~At("write")
      BY <1>a, <2>1, <3>2 DEF HalfWritten
    <3> QED
      BY <3>1, <3>2
  <2>4. /\ call'.pc = "undo" /\ call'.task = call.task /\ call'.export = call.export
        /\ call'.n = (IF At("write") THEN call.n ELSE call.n - 1)
        /\ call' = [call EXCEPT !.pc = "undo", !.n = call'.n]
    BY <1>a, <2>1 DEF Call
  <2>5. call'.n \in 0..Len(Items[call.export])
    <3>1. CASE At("write")
      BY <1>a, <2>2, <2>4, <3>1 DEF CallOK
    <3>2. CASE At("backup")
      <4>1. call.n \in 1..(Len(Items[call.export]) + 1) /\ call'.n = call.n - 1
        BY <1>a, <2>4, <3>2 DEF CallOK, At
      <4> QED
        BY <2>2, <4>1
    <3> QED
      BY <1>7, <3>1, <3>2 DEF Fails
  <2>6. call' \in Call
    <3>1. call'.n \in Nat
      BY <2>2, <2>5
    <3> QED
      BY <1>a, <2>4, <3>1 DEF Call
  <2>7. CallOK'
    <3>1. call.task = disk /\ disk.rec[call.export] = "ready"
      BY <1>7, <1>a DEF CallOK, At, Fails
    <3> QED
      BY <2>2, <2>4, <2>5, <3>1 DEF CallOK, At, InExport, InChange
  <2> QED
    BY <1>t, <1>r, <2>2, <2>3, <1>a, <2>6, <2>7 DEF TypeInv
\* A file is put back as it was backed up, or removed.
<1>u. ASSUME At("undo") \/ At("restore"), call.n > 0,
             work' = Restored(work, call.export, Item, call.existed),
             call' = [call EXCEPT !.n = @ - 1], UNCHANGED <<disk, backup, repo>>, Untouched
      PROVE  TypeInv'
  <2>1. call.export \in Exports /\ Len(Items[call.export]) \in Nat
        /\ call.n \in 0..Len(Items[call.export]) /\ call.task = disk
    BY <1>a, <1>u, ItemParts DEF CallOK, At, InExport
  <2>2. call.n \in 1..Len(Items[call.export])
    BY <1>u, <2>1
  <2>3. work' \in Trees
    BY <1>a, <1>u, <1>w, <2>1, <2>2, PutTree DEF Restored
  <2>4. /\ call' \in Call /\ call'.pc = call.pc /\ call'.task = call.task
        /\ call'.export = call.export /\ call'.n = call.n - 1
    <3>1. call.n - 1 \in Nat
      BY <2>1, <2>2
    <3> QED
      BY <1>a, <1>u, <3>1 DEF Call
  <2>5. CallOK'
    <3>1. call.n - 1 \in 0..Len(Items[call.export])
      BY <2>1, <2>2
    <3> QED
      BY <1>a, <1>u, <2>1, <2>4, <3>1 DEF CallOK, At, InExport, InChange
  <2> QED
    BY <1>t, <1>r, <1>a, <1>u, <2>3, <2>4, <2>5 DEF TypeInv
<1>8. ASSUME Undo PROVE TypeInv'
  BY <1>8, <1>u DEF Undo
<1>9. ASSUME Undone PROVE TypeInv'
  <2>1. call.task = disk /\ call.export \in Exports
    BY <1>9, <1>a DEF Undone, CallOK, At, InExport
  <2>2. disk' \in Task /\ work' \in Trees
    BY <1>9, <1>a, <2>1, PersistEnds, KeyParts, OutFits, PutTree DEF Undone
  <2> QED
    BY <1>9, <1>a, <1>t, <1>r, <1>e, <2>2 DEF Undone, TypeInv
<1>10. ASSUME NEW e \in Exports, NEW force \in BOOLEAN, RollBack(e, force) PROVE TypeInv'
  <2>1. /\ work[Log(e)] \in Transaction /\ disk.rec[e] = "completed"
        /\ UNCHANGED <<disk, work, backup, repo, mine, origin, torn>>
        /\ call' = [Idle EXCEPT !.pc = "restore", !.task = disk, !.export = e,
                            !.n = Len(Items[e]), !.existed = work[Log(e)].existed]
    <3>1. work[Log(e)] # Absent /\ work[Log(e)] \in Transaction \cup {Absent}
      BY <1>10, <1>a, TreeFits, KeyParts DEF RollBack, Fits
    <3> QED
      BY <1>10, <3>1 DEF RollBack
  <2>2. forced' \subseteq Paths
    BY <1>10, <1>a, ItemParts DEF RollBack, Conflicts
  <2>3. Len(Items[e]) \in Nat /\ work[Log(e)].existed \subseteq Paths
    BY <2>1, ItemParts DEF Transaction
  <2>4. /\ call' \in Call /\ call'.pc = "restore" /\ call'.task = disk /\ call'.export = e
        /\ call'.n = Len(Items[e])
    BY <1>a, <2>1, <2>3, IdleType DEF Call, Idle
  <2>5. CallOK'
    BY <2>1, <2>3, <2>4 DEF CallOK, At, InExport, InChange
  <2> QED
    BY <1>a, <1>r, <2>1, <2>2, <2>4, <2>5 DEF TypeInv, Types
<1>11. ASSUME Restore PROVE TypeInv'
  BY <1>11, <1>u DEF Restore
<1>12. ASSUME RolledBack PROVE TypeInv'
  <2>1. call.task = disk /\ call.export \in Exports /\ Moves("stamp")
    BY <1>12, <1>a DEF RolledBack, CallOK, At, InExport
  <2>2. disk' \in Task /\ work' \in Trees /\ disk'.rec[call.export] = "rolled-back"
    <3>1. /\ disk' = Persist(disk, call.export, "rolled-back")
          /\ work' = [work EXCEPT ![Out(call.export)] = Absent]
      BY <1>12, <2>1 DEF RolledBack
    <3>2. disk' \in Task /\ disk'.rec[call.export] = "rolled-back"
      BY <1>a, <2>1, <3>1, PersistEnds
    <3>3. Out(call.export) \in Keys /\ Fits(Out(call.export), Absent)
      BY <2>1, KeyParts, OutFits
    <3> QED
      BY <1>a, <3>1, <3>2, <3>3, PutTree
  <2>3. call' \in Call /\ call'.pc = "stamp" /\ call'.export = call.export
    BY <1>a, <2>1, MovesDoes DEF Moves, Call
  <2>4. CallOK'
    BY <2>1, <2>2, <2>3 DEF CallOK, At, InExport, InChange
  <2> QED
    BY <1>12, <1>a, <1>t, <1>r, <2>2, <2>3, <2>4 DEF RolledBack, TypeInv
<1>13. ASSUME Stamp PROVE TypeInv'
  <2> DEFINE v == [existed |-> call.existed, rolled |-> TRUE]
  <2>1. call.export \in Exports
    BY <1>13, <1>a DEF Stamp, CallOK, At, InExport
  <2>2. v \in Transaction
    BY <1>a DEF Call, Transaction
  <2>3. work' = [work EXCEPT ![Log(call.export)] = v]
    BY <1>13 DEF Stamp
  <2> HIDE DEF v
  <2>4. work' \in Trees
    BY <1>a, <2>1, <2>2, <2>3, KeyParts, LogFits, PutTree
  <2> QED
    BY <1>13, <1>a, <1>t, <1>r, <1>e, <2>4 DEF Stamp, TypeInv
<1>14. ASSUME NEW target, ExportDirectly(target) PROVE TypeInv'
  <2>1. work' \in Trees
    <3>1. work' = [k \in Keys |-> IF \E e \in Exports : k = Out(e) /\ Target[e] = target
                                  THEN Absent ELSE work[k]]
      BY <1>14 DEF ExportDirectly
    <3>2. \A k \in Keys : Fits(k, work'[k])
      <4>1. \A k \in Keys : Fits(k, work[k]) /\ \A e \in Exports : Fits(Out(e), Absent)
        BY <1>a, TreeFits, OutFits
      <4> QED
        BY <3>1, <4>1
    <3>3. DOMAIN work' = Keys /\ work' = [k \in Keys |-> work'[k]]
      BY <3>1
    <3> QED
      BY <3>2, <3>3, FitsTree
  <2> QED
    BY <1>14, <1>a, <1>t, <1>r, <1>e, <2>1 DEF ExportDirectly, TypeInv
<1>15. ASSUME NEW e \in Exports, NEW b \in Branches, PrepareChange(e, b) PROVE TypeInv'
  <2> DEFINE paths == {Log(e)} \cup PathsOf(e) \cup {k \in {Out(e)} : work[k] # Absent}
             status == IF Dirty(work, CheckedOut, paths) = {} THEN "no-changes" ELSE "ready"
             change == [export |-> e, base |-> CheckedOut.id, branch |-> b, paths |-> paths,
                        status |-> status, commit |-> 0]
             others == {x \in disk.changes : ~SameChange(x, change)}
  <2>1. Free /\ disk' = [disk EXCEPT !.changes = others \cup {change}]
        /\ UNCHANGED <<work, backup, repo, call>> /\ Untouched
    BY <1>15 DEF PrepareChange
  <2>2. change \in Change
    <3>1. paths \subseteq Keys
      BY KeyParts, ItemParts
    <3>2. status \in ChangeStatus
      BY DEF ChangeStatus
    <3>3. CheckedOut.id \in Nat
      BY <1>a, CommitFacts
    <3> HIDE DEF paths, status
    <3> QED
      BY <3>1, <3>2, <3>3 DEF Change
  <2>3. others \subseteq Change
    BY <1>a DEF Task
  <2> HIDE DEF change, others
  <2>4. disk' \in Task
    BY <1>a, <2>1, <2>2, <2>3 DEF Task
  <2> QED
    BY <1>a, <1>t, <1>r, <1>e, <2>1, <2>4 DEF TypeInv
<1>16. ASSUME NEW x \in disk.changes, Branch(x) PROVE TypeInv'
  <2>1. /\ x.base = CheckedOut.id /\ Tip(x.branch) = None
        /\ call' = [Idle EXCEPT !.pc = "commit", !.task = disk, !.change = x, !.from = repo.at]
        /\ repo' = [repo EXCEPT !.at = x.branch, !.tip[x.branch] = CheckedOut]
        /\ UNCHANGED <<disk, work, backup>> /\ Untouched
    BY <1>16 DEF Branch
  <2>2. x \in Change /\ x.branch \in Branches /\ repo.at \in Branches /\ repo.at # x.branch
    BY <1>a, <2>1 DEF Task, Change, Repo, CheckedOut
  <2>3. /\ repo' \in Repo /\ repo'.at = x.branch
        /\ repo'.tip[x.branch] = CheckedOut /\ repo'.tip[repo.at] = CheckedOut
    <3> DEFINE tips == [repo.tip EXCEPT ![x.branch] = CheckedOut]
    <3>1. repo' = [repo EXCEPT !.at = x.branch, !.tip = tips]
      BY <1>a, <2>1 DEF Repo
    <3>2. /\ tips \in [Branches -> Commit \cup {None}] /\ tips[x.branch] = CheckedOut
          /\ tips[repo.at] = CheckedOut
      BY <1>a, <2>2 DEF Repo, CheckedOut, Tip
    <3> HIDE DEF tips
    <3> QED
      BY <1>a, <2>2, <3>1, <3>2 DEF Repo
  <2>4. CheckedOut' # None
    BY <1>a, <2>3 DEF CheckedOut, Tip
  <2>5. /\ call' \in Call /\ call'.pc = "commit" /\ call'.task = disk /\ call'.change = x
        /\ call'.from = repo.at
    BY <1>a, <2>1, <2>2, IdleType DEF Call, Idle
  <2>6. CallOK'
    BY <1>a, <2>1, <2>2, <2>3, <2>5 DEF CallOK, At, InExport, InChange, Tip
  <2> QED
    BY <1>a, <1>t, <2>1, <2>3, <2>4, <2>5, <2>6 DEF TypeInv
<1>x. ASSUME call.pc \in InChange
      PROVE  /\ call.change \in disk.changes /\ call.change \in Change /\ call.task = disk
             /\ call.change.branch \in Branches /\ repo.at \in Branches
             /\ repo.made \in Nat /\ repo.tip \in [Branches -> Commit \cup {None}]
             /\ call.from \in Branches
  BY <1>a, <1>x DEF CallOK, InChange, Task, Change, Repo, Call
<1>17. ASSUME MakeCommit PROVE TypeInv'
  <2> DEFINE x == call.change
             tree == [k \in Keys |-> IF k \in x.paths THEN work[k] ELSE CheckedOut.tree[k]]
  <2>1. /\ At("commit") /\ repo.made < MaxCommits /\ repo' = Committed(tree)
        /\ call' = [call EXCEPT !.pc = "branch", !.n = repo.made + 1]
        /\ UNCHANGED <<disk, work, backup>> /\ Untouched
    BY <1>17 DEF MakeCommit
  <2>2. tree \in Trees
    <3>1. DOMAIN tree = Keys /\ tree = [k \in Keys |-> tree[k]]
          /\ \A k \in Keys : tree[k] = work[k] \/ tree[k] = CheckedOut.tree[k]
      OBVIOUS
    <3>2. work \in Trees /\ CheckedOut.tree \in Trees
      BY <1>a, CommitFacts
    <3> HIDE DEF tree
    <3> QED
      BY <3>1, <3>2, MixedTree
  <2> HIDE DEF tree
  <2>3. /\ repo' \in Repo /\ repo'.at = repo.at /\ CheckedOut' # None
        /\ \A b \in Branches \ {repo.at} : repo'.tip[b] = repo.tip[b]
        /\ repo'.tip[repo.at].past = CheckedOut.past \cup {repo.made + 1}
    BY <1>a, <2>1, <2>2, CommittedDoes DEF Tip
  <2>4. x \in disk.changes /\ repo.at = x.branch /\ call.from # x.branch
        /\ Tip(call.from) # None /\ call.task = disk /\ repo.made \in Nat /\ call.from \in Branches
    BY <1>a, <1>x, <2>1 DEF CallOK, At, InChange
  <2>5. /\ call' \in Call /\ call'.pc = "branch" /\ call'.task = call.task
        /\ call'.change = x /\ call'.from = call.from /\ call'.n = repo.made + 1
    <3>1. repo.made + 1 \in Nat
      BY <2>4
    <3> QED
      BY <1>a, <2>1, <3>1 DEF Call
  <2>6. CallOK'
    <3>1. repo'.tip[call.from] # None
      BY <2>3, <2>4 DEF Tip
    <3> QED
      BY <2>1, <2>3, <2>4, <2>5, <3>1 DEF CallOK, At, InExport, InChange, Tip
  <2> QED
    BY <1>a, <1>t, <2>1, <2>3, <2>5, <2>6 DEF TypeInv
<1>18. ASSUME CommitFails PROVE TypeInv'
  <2>1. At("commit") /\ Moves("unbranch") /\ UNCHANGED <<disk, work, backup, repo>> /\ Untouched
    BY <1>18 DEF CommitFails
  <2>2. call' \in Call
    BY <1>a, <2>1 DEF Moves, Call
  <2>3. CallOK'
    BY <1>a, <2>1, MovesDoes DEF CallOK, At, InExport, InChange, Tip
  <2> QED
    BY <1>a, <1>t, <1>r, <2>1, <2>2, <2>3 DEF TypeInv
\* The record of the change set becomes another at the end of the call.
<1>d. ASSUME call.pc \in InChange, NEW new \in Change, disk' = Recorded(call.task, call.change, new)
      PROVE  disk' \in Task
  BY <1>a, <1>d, <1>x, RecordedDoes
<1>19. ASSUME Unbranch PROVE TypeInv'
  <2>1. /\ At("unbranch") /\ Return /\ UNCHANGED <<work, backup>> /\ Untouched
        /\ repo' = [repo EXCEPT !.at = call.from, !.tip[call.change.branch] = None]
        /\ disk' = Recorded(call.task, call.change, [call.change EXCEPT !.status = "failed"])
    BY <1>19 DEF Unbranch
  <2>2. [call.change EXCEPT !.status = "failed"] \in Change
    BY <1>x, <2>1 DEF Change, ChangeStatus, At, InChange
  <2>3. disk' \in Task
    BY <1>d, <2>1, <2>2 DEF At, InChange
  <2>4. repo' \in Repo /\ CheckedOut' # None
    <3> DEFINE tips == [repo.tip EXCEPT ![call.change.branch] = None]
    <3>1. /\ repo' = [repo EXCEPT !.at = call.from, !.tip = tips]
      BY <1>a, <2>1 DEF Repo
    <3>2. call.from \in Branches /\ call.from # call.change.branch /\ repo.tip[call.from] # None
          /\ repo.tip \in [Branches -> Commit \cup {None}]
      BY <1>a, <1>x, <2>1 DEF CallOK, At, InChange, Tip
    <3>3. tips \in [Branches -> Commit \cup {None}] /\ tips[call.from] # None
      BY <3>2
    <3> HIDE DEF tips
    <3> QED
      BY <1>a, <3>1, <3>2, <3>3 DEF Repo, CheckedOut, Tip
  <2> QED
    BY <1>a, <1>t, <1>e, <2>1, <2>3, <2>4 DEF TypeInv
<1>20. ASSUME RecordCommit PROVE TypeInv'
  <2>1. /\ At("branch") /\ Return /\ UNCHANGED <<work, backup, repo>> /\ Untouched
        /\ disk' = Recorded(call.task, call.change,
                            [call.change EXCEPT !.status = "committed", !.commit = call.n])
    BY <1>20 DEF RecordCommit
  <2>2. [call.change EXCEPT !.status = "committed", !.commit = call.n] \in Change
    <3>1. call.n \in Nat
      BY <1>a DEF Call
    <3> QED
      BY <1>x, <2>1, <3>1 DEF Change, ChangeStatus, At, InChange
  <2>3. disk' \in Task
    BY <1>d, <2>1, <2>2 DEF At, InChange
  <2> QED
    BY <1>a, <1>t, <1>r, <1>e, <2>1, <2>3 DEF TypeInv
<1>s. ASSUME NEW b \in Branches, Tip(b) # None
      PROVE  /\ Switched(Tip(b)) \in Trees /\ [repo EXCEPT !.at = b] \in Repo
             /\ repo' = [repo EXCEPT !.at = b] => CheckedOut' # None /\ repo'.at = b
  BY <1>a, <1>s, SwitchedTree, TypeFacts DEF Repo, CheckedOut, Tip
<1>21. ASSUME NEW x \in disk.changes, Switch(x) PROVE TypeInv'
  <2>1. /\ x.status = "committed" /\ Tip(x.branch) # None
        /\ work' = Switched(Tip(x.branch)) /\ repo' = [repo EXCEPT !.at = x.branch]
        /\ call' = [Idle EXCEPT !.pc = "revert", !.task = disk, !.change = x]
        /\ UNCHANGED <<disk, backup>> /\ Untouched
    BY <1>21 DEF Switch
  <2>2. x \in Change /\ x.branch \in Branches
    BY <1>a DEF Task, Change
  <2>3. /\ call' \in Call /\ call'.pc = "revert" /\ call'.task = disk /\ call'.change = x
    BY <1>a, <2>1, <2>2, IdleType DEF Call, Idle
  <2>4. CallOK'
    BY <2>1, <2>3 DEF CallOK, At, InExport, InChange
  <2> QED
    BY <1>a, <1>t, <1>s, <2>1, <2>2, <2>3, <2>4 DEF TypeInv
<1>22. ASSUME Revert PROVE TypeInv'
  <2>1. At("revert") /\ UNCHANGED <<disk, backup>> /\ Untouched
    BY <1>22 DEF Revert
  <2>2. CASE ~(CheckedOut.id = call.change.commit /\ repo.made < MaxCommits)
    <3>1. Return /\ UNCHANGED <<repo, work>>
      BY <1>22, <2>2 DEF Revert
    <3> QED
      BY <1>a, <1>t, <1>r, <1>e, <2>1, <3>1 DEF TypeInv
  <2>3. CASE CheckedOut.id = call.change.commit /\ repo.made < MaxCommits
    <3>1. /\ repo' = Committed(CheckedOut.parent) /\ Moves("reverted")
          /\ work' = [k \in Keys |-> IF CheckedOut.parent[k] # CheckedOut.tree[k]
                                     THEN CheckedOut.parent[k] ELSE work[k]]
      BY <1>22, <2>3 DEF Revert
    <3>2. CheckedOut.parent \in Trees
      BY <1>a, CommitFacts
    <3>3. repo' \in Repo /\ CheckedOut' # None
      BY <1>a, <2>3, <3>1, <3>2, CommittedDoes
    <3>4. work' \in Trees
      <4>1. DOMAIN work' = Keys /\ work' = [k \in Keys |-> work'[k]]
            /\ \A k \in Keys : work'[k] = CheckedOut.parent[k] \/ work'[k] = work[k]
        BY <3>1
      <4>2. work \in Trees
        BY <1>a DEF Types
      <4> QED
        BY <3>2, <4>1, <4>2, MixedTree
    <3>5. call' \in Call
      BY <1>a, <3>1 DEF Moves, Call
    <3>6. CallOK'
      BY <1>a, <2>1, <3>1, MovesDoes DEF CallOK, At, InExport, InChange
    <3> QED
      BY <1>a, <1>t, <2>1, <3>3, <3>4, <3>5, <3>6 DEF TypeInv
  <2> QED
    BY <2>2, <2>3
<1>23. ASSUME RecordRevert PROVE TypeInv'
  <2>1. /\ At("reverted") /\ Return /\ UNCHANGED <<work, backup, repo>> /\ Untouched
        /\ disk' = Recorded(call.task, call.change, [call.change EXCEPT !.status = "reverted"])
    BY <1>23 DEF RecordRevert
  <2>2. [call.change EXCEPT !.status = "reverted"] \in Change
    BY <1>x, <2>1 DEF Change, ChangeStatus, At, InChange
  <2>3. disk' \in Task
    BY <1>d, <2>1, <2>2 DEF At, InChange
  <2> QED
    BY <1>a, <1>t, <1>r, <1>e, <2>1, <2>3 DEF TypeInv
<1>24. ASSUME Recheck PROVE TypeInv'
  <2>1. disk' \in Task
    <3>1. Verdicts \subseteq SUBSET Checks /\ Len(Generations) \in Nat /\ disk.checked + 1 \in Nat
      BY <1>a, DeliveryAssumption DEF Task
    <3>2. CASE \E failing \in Verdicts \ {disk.failing} :
                  disk' = [disk EXCEPT !.failing = failing, !.checked = @ + 1]
      <4>1. PICK failing \in Verdicts :
              disk' = [disk EXCEPT !.failing = failing, !.checked = @ + 1]
        BY <3>2
      <4>2. failing \in SUBSET Checks
        BY <3>1
      <4> QED
        BY <1>a, <3>1, <4>1, <4>2 DEF Task
    <3>3. CASE /\ disk.active < Len(Generations)
               /\ disk' = [disk EXCEPT !.active = @ + 1, !.checked = @ + 1]
      <4>1. disk.active + 1 \in 1..Len(Generations)
        BY <1>a, <3>1, <3>3 DEF Task
      <4> QED
        BY <1>a, <3>1, <3>3, <4>1 DEF Task
    <3> QED
      BY <1>24, <3>2, <3>3 DEF Recheck
  <2> QED
    BY <1>24, <1>a, <1>t, <1>r, <1>e, <2>1 DEF Recheck, TypeInv
<1>25. ASSUME NEW p \in Paths, Edit(p) PROVE TypeInv'
  <2>1. Edited \in File /\ p \in Keys
    BY DeliveryAssumption, KeyParts DEF File
  <2>2. work' \in Trees
    BY <1>25, <1>a, <2>1, FileFits, PutTree DEF Edit
  <2>3. mine' \in [Paths -> File] /\ forced' \subseteq Paths
    BY <1>25, <1>a, <2>1 DEF Edit
  <2> QED
    BY <1>25, <1>a, <1>r, <1>e, <2>2, <2>3 DEF Edit, TypeInv, Types
<1>26. ASSUME NEW b \in Branches, CheckOut(b) PROVE TypeInv'
  BY <1>26, <1>a, <1>t, <1>s, <1>e DEF CheckOut, TypeInv
<1>27. ASSUME Crash PROVE TypeInv'
  <2>1. torn' \subseteq Exports \X Paths
    <3>1. CASE ~(At("backup") \/ At("write") \/ At("record") \/ At("undo"))
      BY <1>27, <1>a, <3>1 DEF Crash
    <3>2. CASE At("backup") \/ At("write") \/ At("record") \/ At("undo")
      <4>1. call.export \in Exports
        BY <1>a, <3>2 DEF CallOK, At, InExport
      <4>2. PathsOf(call.export) \subseteq Paths
        BY <4>1, ItemParts
      <4> QED
        BY <1>27, <1>a, <3>2, <4>1, <4>2 DEF Crash
    <3> QED
      BY <3>1, <3>2
  <2> QED
    BY <1>27, <1>a, <1>r, <1>e, <2>1 DEF Crash, TypeInv, Types
<1>28. CASE UNCHANGED vars
  <2>1. Types'
    BY <1>28, <1>a DEF vars, Types, CheckedOut, Tip
  <2>2. CallOK'
    BY <1>28, <1>a DEF vars, CallOK, At, Tip
  <2> QED
    BY <2>1, <2>2 DEF TypeInv
<1> QED
  BY <1>1, <1>2, <1>3, <1>4, <1>5, <1>6, <1>7, <1>8, <1>9, <1>10, <1>11, <1>12, <1>13,
     <1>14, <1>15, <1>16, <1>17, <1>18, <1>19, <1>20, <1>21, <1>22, <1>23, <1>24, <1>25,
     <1>26, <1>27, <1>28 DEF Next, Exporting, Changing

\* The files, the records and the repository keep their types (the records of
\* gated_export.py and git_changes.py, and what git and the file system hold).
THEOREM TypeCorrect == Spec => []TypeOK
<1>1. Init => TypeInv
  BY InitTypeInv
<1>2. TypeInv /\ [Next]_vars => TypeInv'
  BY StepTypeInv
<1>3. TypeInv => TypeOK
  <2> SUFFICES ASSUME TypeInv PROVE TypeOK
    OBVIOUS
  <2>1. IsTree(work) /\ \A t \in Trees : IsTree(t)
    BY TypeFacts DEF TypeInv, Trees
  <2>2. \A b \in Branches : Tip(b) = None \/ IsCommit(Tip(b))
    <3>1. ASSUME NEW c \in Commit PROVE IsCommit(c)
      <4>1. DOMAIN c = {"id", "tree", "parent", "past", "held"}
        BY DEF Commit
      <4>2. c.id \in c.past
        BY DEF Commit
      <4> QED
        BY <2>1, <4>1, <4>2 DEF Commit, IsCommit
    <3> QED
      BY <3>1, TypeFacts DEF TypeInv
  <2>3. DOMAIN repo = {"at", "made", "tip"} /\ repo.at \in Branches /\ repo.made \in 0..MaxCommits
    BY TypeFacts DEF TypeInv, Repo
  <2> QED
    BY <2>1, <2>2, <2>3, TypeFacts DEF TypeInv, Types, TypeOK, File
<1> QED
  BY <1>1, <1>2, <1>3, PTL DEF Spec

(***************************************************************************)
(* What a step does to the records and to the repository                   *)
(***************************************************************************)

Final(e) == disk.rec[e] \in {"completed", "rolled-back"}

\* A record changes when its export is planned, or at the end of a call, and
\* one that is final changes no more but from completed to rolled back.
RecMoves(e) ==
    \/ disk'.rec[e] = disk.rec[e]
    \/ Free /\ ~Final(e) /\ disk'.rec[e] \in {"ready", "blocked"}
    \/ e = call.export /\ Completed /\ disk'.rec[e] = "completed"
    \/ e = call.export /\ Undone /\ disk'.rec[e] = "failed"
    \/ e = call.export /\ RolledBack /\ disk'.rec[e] = "rolled-back"

\* A change set is new, or what one becomes at the end of its call.
ChangeMoves(x) ==
    \/ x \in disk.changes
    \/ /\ x.status \in {"ready", "no-changes"} /\ Free
       /\ x.export \in Exports /\ Final(x.export) /\ work[Log(x.export)] # Absent
       /\ \A f \in Exports : Log(f) \in x.paths => f = x.export
    \/ /\ Unbranch /\ x = [call.change EXCEPT !.status = "failed"]
    \/ /\ RecordCommit /\ x = [call.change EXCEPT !.status = "committed", !.commit = call.n]
    \/ /\ RecordRevert /\ x = [call.change EXCEPT !.status = "reverted"]

DiskMoves ==
    /\ \A e \in Exports : RecMoves(e)
    /\ \A x \in disk'.changes : ChangeMoves(x)

LEMMA DiskStep == TypeInv /\ [Next]_vars => DiskMoves
<1> SUFFICES ASSUME TypeInv, [Next]_vars PROVE DiskMoves
  OBVIOUS
<1>a. disk \in Task /\ CallOK /\ call \in Call
  BY TypeFacts DEF TypeInv
<1>q. ASSUME disk' = disk PROVE DiskMoves
  BY <1>q DEF DiskMoves, RecMoves, ChangeMoves
<1>1. ASSUME NEW e \in Exports, Free, disk' = Persist(disk, e, Planned(disk)) PROVE DiskMoves
  <2>1. disk'.changes = disk.changes /\ \A f \in Exports : f # e => disk'.rec[f] = disk.rec[f]
    BY <1>1, <1>a, PersistDoes, PlannedIs
  <2>2. disk'.rec[e] = IF disk.rec[e] \in {"completed", "rolled-back"} THEN disk.rec[e]
                       ELSE Planned(disk)
    BY <1>1, <1>a, PersistDoes, PlannedIs
  <2> QED
    BY <1>1, <2>1, <2>2, PlannedIs DEF DiskMoves, RecMoves, ChangeMoves, Final
<1>2. ASSUME NEW e \in Exports, Prepare(e) \/ Execute(e) PROVE DiskMoves
  BY <1>1, <1>2 DEF Prepare, Execute
<1>p. ASSUME NEW s \in {"completed", "failed", "rolled-back"}, NEW e \in Exports,
             disk' = Persist(disk, e, s)
      PROVE  /\ disk'.changes = disk.changes /\ disk'.rec[e] = s
             /\ \A f \in Exports : f # e => disk'.rec[f] = disk.rec[f]
  <2>1. disk \in Task
    BY <1>a
  <2>2. s \in ExportStatus /\ s \notin {"ready", "blocked"}
    BY DEF ExportStatus
  <2> QED
    BY <1>p, <2>1, <2>2, PersistDoes
<1>3. ASSUME Completed PROVE DiskMoves
  <2>1. call.export \in Exports /\ call.task = disk /\ disk' = Persist(call.task, call.export, "completed")
    BY <1>3, <1>a DEF Completed, CallOK, At, InExport
  <2> QED
    BY <1>3, <1>p, <2>1 DEF DiskMoves, RecMoves, ChangeMoves
<1>4. ASSUME Undone PROVE DiskMoves
  <2>1. call.export \in Exports /\ call.task = disk /\ disk' = Persist(call.task, call.export, "failed")
    BY <1>4, <1>a DEF Undone, CallOK, At, InExport
  <2> QED
    BY <1>4, <1>p, <2>1 DEF DiskMoves, RecMoves, ChangeMoves
<1>5. ASSUME RolledBack PROVE DiskMoves
  <2>1. call.export \in Exports /\ call.task = disk /\ disk' = Persist(call.task, call.export, "rolled-back")
    BY <1>5, <1>a DEF RolledBack, CallOK, At, InExport
  <2> QED
    BY <1>5, <1>p, <2>1 DEF DiskMoves, RecMoves, ChangeMoves
<1>6. ASSUME NEW e \in Exports, NEW b \in Branches, PrepareChange(e, b) PROVE DiskMoves
  <2> DEFINE paths == {Log(e)} \cup PathsOf(e) \cup {k \in {Out(e)} : work[k] # Absent}
             status == IF Dirty(work, CheckedOut, paths) = {} THEN "no-changes" ELSE "ready"
             change == [export |-> e, base |-> CheckedOut.id, branch |-> b, paths |-> paths,
                        status |-> status, commit |-> 0]
             others == {x \in disk.changes : ~SameChange(x, change)}
  <2>1. /\ Free /\ disk.rec[e] = "completed" /\ work[Log(e)] # Absent
        /\ disk' = [disk EXCEPT !.changes = others \cup {change}]
    BY <1>6 DEF PrepareChange
  <2>2. \A f \in Exports : Log(f) \in paths => f = e
    BY KeyParts, ItemParts
  <2>3. change.status \in {"ready", "no-changes"} /\ change.export = e /\ change.paths = paths
    OBVIOUS
  <2>4. others \subseteq disk.changes
    OBVIOUS
  <2> HIDE DEF change, others, paths
  <2>5. disk'.rec = disk.rec /\ disk'.changes = others \cup {change}
    BY <1>a, <2>1 DEF Task
  <2> QED
    BY <2>1, <2>2, <2>3, <2>4, <2>5 DEF DiskMoves, RecMoves, ChangeMoves, Final
<1>r. ASSUME call.pc \in InChange, NEW new \in Change, disk' = Recorded(call.task, call.change, new)
      PROVE  disk'.rec = disk.rec /\ disk'.changes = (disk.changes \ {call.change}) \cup {new}
  <2>1. call.change \in Change /\ call.task = disk
    BY <1>a, <1>r DEF CallOK, InChange, Task
  <2> QED
    BY <1>a, <1>r, <2>1, RecordedDoes
<1>c. ASSUME call.pc \in InChange PROVE call.change \in Change
  BY <1>a, <1>c DEF CallOK, Task
<1>7. ASSUME Unbranch PROVE DiskMoves
  <2> DEFINE new == [call.change EXCEPT !.status = "failed"]
  <2>1. disk' = Recorded(call.task, call.change, new) /\ call.pc \in InChange
    BY <1>7 DEF Unbranch, At, InChange
  <2>2. new \in Change
    BY <1>c, <2>1 DEF Change, ChangeStatus
  <2> QED
    BY <1>7, <1>r, <2>1, <2>2 DEF DiskMoves, RecMoves, ChangeMoves
<1>8. ASSUME RecordCommit PROVE DiskMoves
  <2> DEFINE new == [call.change EXCEPT !.status = "committed", !.commit = call.n]
  <2>1. disk' = Recorded(call.task, call.change, new) /\ call.pc \in InChange
    BY <1>8 DEF RecordCommit, At, InChange
  <2>2. new \in Change
    BY <1>a, <1>c, <2>1 DEF Change, ChangeStatus, Call
  <2> QED
    BY <1>8, <1>r, <2>1, <2>2 DEF DiskMoves, RecMoves, ChangeMoves
<1>9. ASSUME RecordRevert PROVE DiskMoves
  <2> DEFINE new == [call.change EXCEPT !.status = "reverted"]
  <2>1. disk' = Recorded(call.task, call.change, new) /\ call.pc \in InChange
    BY <1>9 DEF RecordRevert, At, InChange
  <2>2. new \in Change
    BY <1>c, <2>1 DEF Change, ChangeStatus
  <2> QED
    BY <1>9, <1>r, <2>1, <2>2 DEF DiskMoves, RecMoves, ChangeMoves
<1>10. ASSUME Recheck PROVE DiskMoves
  <2>1. disk'.rec = disk.rec /\ disk'.changes = disk.changes
    BY <1>10, <1>a DEF Recheck, Task
  <2> QED
    BY <2>1 DEF DiskMoves, RecMoves, ChangeMoves
<1>11. ASSUME NEW e \in Exports, NEW force \in BOOLEAN, RollBack(e, force) PROVE DiskMoves
  BY <1>11, <1>q DEF RollBack
<1>12. ASSUME BackUp \/ Write \/ WriteLog \/ Fails \/ Undo \/ Restore \/ Stamp PROVE DiskMoves
  BY <1>12, <1>q DEF BackUp, Write, WriteLog, Fails, Undo, Restore, Stamp
<1>13. ASSUME NEW x \in disk.changes, Branch(x) \/ Switch(x) PROVE DiskMoves
  BY <1>13, <1>q DEF Branch, Switch
<1>14. ASSUME MakeCommit \/ CommitFails \/ Revert PROVE DiskMoves
  BY <1>14, <1>q DEF MakeCommit, CommitFails, Revert
<1>15. ASSUME Crash \/ (\E t : ExportDirectly(t)) PROVE DiskMoves
  BY <1>15, <1>q DEF Crash, ExportDirectly
<1>16. ASSUME (\E p \in Paths : Edit(p)) \/ (\E b \in Branches : CheckOut(b)) \/ UNCHANGED vars
       PROVE  DiskMoves
  BY <1>16, <1>q DEF Edit, CheckOut, vars
<1> QED
  BY <1>2, <1>3, <1>4, <1>5, <1>6, <1>7, <1>8, <1>9, <1>10, <1>11, <1>12, <1>13,
     <1>14, <1>15, <1>16 DEF Next, Exporting, Changing

\* No step takes what a branch reaches out of reach of every branch: what is
\* deleted is a branch that has no commit of its own.
LEMMA TipsGrow ==
    ASSUME TypeInv, [Next]_vars, NEW b \in Branches, Tip(b) # None
    PROVE  \E c \in Branches : /\ repo'.tip[c] # None
                               /\ Tip(b).past \subseteq repo'.tip[c].past
                               /\ Tip(b).held \subseteq repo'.tip[c].held
<1>a. Types /\ CallOK /\ repo \in Repo /\ CheckedOut \in Commit /\ repo.at \in Branches
      /\ repo.tip \in [Branches -> Commit \cup {None}]
  BY TypeFacts DEF TypeInv, Repo
<1> DEFINE G == \E c \in Branches : /\ repo'.tip[c] # None
                                   /\ Tip(b).past \subseteq repo'.tip[c].past
                                   /\ Tip(b).held \subseteq repo'.tip[c].held
<1>q. ASSUME repo'.tip = repo.tip PROVE G
  BY <1>q DEF Tip
<1>c. ASSUME NEW tree \in Trees, repo.made < MaxCommits, repo' = Committed(tree) PROVE G
  <2>1. /\ \A c \in Branches \ {repo.at} : repo'.tip[c] = repo.tip[c]
        /\ repo'.tip[repo.at] \in Commit
        /\ CheckedOut.past \subseteq repo'.tip[repo.at].past
        /\ CheckedOut.held \subseteq repo'.tip[repo.at].held
    BY <1>a, <1>c, CommittedDoes DEF Tip
  <2>2. CASE b = repo.at
    BY <1>a, <2>1, <2>2, CommitFacts DEF CheckedOut
  <2>3. CASE b # repo.at
    BY <2>1, <2>3 DEF Tip
  <2> QED
    BY <2>2, <2>3
<1>1. ASSUME NEW x \in disk.changes, Branch(x) PROVE G
  <2>1. repo' = [repo EXCEPT !.at = x.branch, !.tip[x.branch] = CheckedOut] /\ Tip(x.branch) = None
    BY <1>1 DEF Branch
  <2>2. repo'.tip[b] = repo.tip[b]
    BY <1>a, <2>1 DEF Repo, Tip
  <2> QED
    BY <2>2 DEF Tip
<1>2. ASSUME MakeCommit PROVE G
  <2> DEFINE tree == [k \in Keys |-> IF k \in call.change.paths THEN work[k] ELSE CheckedOut.tree[k]]
  <2>1. repo.made < MaxCommits /\ repo' = Committed(tree)
    BY <1>2 DEF MakeCommit
  <2>2. work \in Trees /\ CheckedOut.tree \in Trees
    BY <1>a, CommitFacts DEF Types
  <2>3. DOMAIN tree = Keys /\ tree = [k \in Keys |-> tree[k]]
        /\ \A k \in Keys : tree[k] = work[k] \/ tree[k] = CheckedOut.tree[k]
    OBVIOUS
  <2> HIDE DEF tree
  <2> QED
    BY <1>c, <2>1, <2>2, <2>3, MixedTree
<1>3. ASSUME Unbranch PROVE G
  <2>1. /\ repo' = [repo EXCEPT !.at = call.from, !.tip[call.change.branch] = None]
        /\ At("unbranch")
    BY <1>3 DEF Unbranch
  <2>2. /\ call.from # call.change.branch /\ call.from \in Branches
        /\ Tip(call.change.branch) = Tip(call.from) /\ Tip(call.from) # None
    BY <1>a, <2>1 DEF CallOK, At, Types, Call
  <2>3. \A c \in Branches \ {call.change.branch} : repo'.tip[c] = repo.tip[c]
    BY <1>a, <2>1 DEF Repo
  <2> QED
    BY <2>2, <2>3 DEF Tip
<1>4. ASSUME Revert PROVE G
  <2>1. CASE repo' = repo
    BY <1>q, <2>1
  <2>2. CASE repo' = Committed(CheckedOut.parent) /\ repo.made < MaxCommits
    BY <1>a, <1>c, <2>2, CommitFacts
  <2> QED
    BY <1>4, <2>1, <2>2 DEF Revert
<1>5. ASSUME (\E x \in disk.changes : Switch(x)) \/ (\E c \in Branches : CheckOut(c)) PROVE G
  <2>1. repo'.tip = repo.tip
    BY <1>5, <1>a DEF Switch, CheckOut, Repo
  <2> QED
    BY <1>q, <2>1
<1>6. ASSUME repo' = repo PROVE G
  BY <1>6, <1>q
<1>7. ASSUME \E e \in Exports : \/ Prepare(e) \/ Execute(e) \/ \E f \in BOOLEAN : RollBack(e, f)
                                \/ \E c \in Branches : PrepareChange(e, c)
      PROVE  repo' = repo
  BY <1>7 DEF Prepare, Execute, RollBack, PrepareChange
<1>8. ASSUME \/ BackUp \/ Write \/ WriteLog \/ Completed \/ Fails \/ Undo \/ Undone \/ Restore
             \/ RolledBack \/ Stamp
      PROVE  repo' = repo
  BY <1>8 DEF BackUp, Write, WriteLog, Completed, Fails, Undo, Undone, Restore, RolledBack, Stamp
<1>9. ASSUME CommitFails \/ RecordCommit \/ RecordRevert \/ Crash \/ Recheck \/ UNCHANGED vars
      PROVE  repo' = repo
  BY <1>9 DEF CommitFails, RecordCommit, RecordRevert, Crash, Recheck, vars
<1>10. ASSUME (\E t : ExportDirectly(t)) \/ (\E p \in Paths : Edit(p)) PROVE repo' = repo
  BY <1>10 DEF ExportDirectly, Edit
<1> HIDE DEF G
<1>11. G
  BY <1>1, <1>2, <1>3, <1>4, <1>5, <1>6, <1>7, <1>8, <1>9, <1>10 DEF Next, Exporting, Changing
<1> QED
  BY <1>11 DEF G

\* A commit that a change set records is reachable from a branch, whatever
\* later change sets failed and cleaned up (GitChangeService.execute), for any
\* number of branches, commits and change sets.
THEOREM CommitsKept == Spec => []CommitsAreKept
<1>1. Init => TypeInv /\ CommitsAreKept
  <2>1. Init => CommitsAreKept
    BY DEF Init, CommitsAreKept
  <2> QED
    BY <2>1, InitTypeInv
<1>2. TypeInv /\ CommitsAreKept /\ [Next]_vars => (TypeInv /\ CommitsAreKept)'
  <2> SUFFICES ASSUME TypeInv, CommitsAreKept, [Next]_vars,
                      NEW x \in disk'.changes, x.status \in {"committed", "reverted"}
               PROVE  \E b \in Branches : repo'.tip[b] # None /\ x.commit \in repo'.tip[b].past
    BY StepTypeInv DEF CommitsAreKept, Tip
  <2>a. CallOK /\ call \in Call /\ disk \in Task
    BY TypeFacts DEF TypeInv
  <2>1. ChangeMoves(x)
    BY DiskStep DEF DiskMoves
  \* What a change set records was recorded before, or is the tip of the branch
  \* it has made.
  <2>2. \E b \in Branches : Tip(b) # None /\ x.commit \in Tip(b).past
    <3>1. CASE x \in disk.changes
      BY <3>1 DEF CommitsAreKept
    <3>2. CASE RecordCommit /\ x = [call.change EXCEPT !.status = "committed", !.commit = call.n]
      <4>1. call.change \in Change /\ call.n \in Tip(call.change.branch).past
            /\ repo.at = call.change.branch
        BY <2>a, <3>2 DEF RecordCommit, CallOK, At, InChange, Task
      <4>2. x.commit = call.n /\ call.change.branch \in Branches
        BY <3>2, <4>1 DEF Change
      <4>3. Tip(call.change.branch) # None
        BY <4>1, TypeFacts DEF TypeInv, Types, CheckedOut
      <4> QED
        BY <4>1, <4>2, <4>3
    <3>3. CASE RecordRevert /\ x = [call.change EXCEPT !.status = "reverted"]
      <4>1. /\ call.change \in disk.changes /\ call.change \in Change
            /\ call.change.status = "committed"
        BY <2>a, <3>3 DEF RecordRevert, CallOK, At, InChange, Task
      <4>2. x.commit = call.change.commit
        BY <3>3, <4>1 DEF Change
      <4> QED
        BY <4>1, <4>2 DEF CommitsAreKept
    <3>4. CASE Unbranch /\ x = [call.change EXCEPT !.status = "failed"]
      <4>1. call.change \in Change
        BY <2>a, <3>4 DEF Unbranch, CallOK, At, InChange, Task
      <4>2. x.status = "failed"
        BY <3>4, <4>1 DEF Change
      <4> QED
        BY <4>2
    <3> QED
      BY <2>1, <3>1, <3>2, <3>3, <3>4 DEF ChangeMoves
  <2> QED
    BY <2>2, TipsGrow
<1> QED
  BY <1>1, <1>2, PTL DEF Spec

(***************************************************************************)
(* Rolling back                                                            *)
(***************************************************************************)

\* The files that existed before are in the backups, and the others did not.
Right(e, existed) ==
    \A p \in PathsOf(e) : IF p \in existed THEN backup[e][p] = origin[e][p]
                          ELSE origin[e][p] = Absent

\* The items that are backed up at this point of an attempt.
Done == IF At("backup") THEN call.n - 1
        ELSE IF At("record") THEN Len(Items[call.export]) ELSE call.n

Attempting == call.pc \in {"backup", "write", "record", "undo"}

\* What an attempt has done to the file of its i-th item: it is backed up when
\* its turn is over, and changed only after that.
Tried(e, i) ==
    LET p == Items[e][i] IN
    /\ ~At("undo") /\ p \in call.existed => i <= Done
    /\ i <= Done => IF p \in call.existed THEN backup[e][p] = origin[e][p]
                    ELSE origin[e][p] = Absent
    /\ work[p] \in {origin[e][p], Content[e][p]}
    /\ \/ (At("backup") \/ At("undo")) /\ i > Done
       \/ At("write") /\ i >= Done
       => work[p] = origin[e][p]

AttemptInv == Attempting => \A i \in 1..Len(Items[call.export]) : Tried(call.export, i)

\* A log is right about an export that is final; a commit has no other log.
LogOK(e, log) == log # Absent => Final(e) /\ Right(e, log.existed)

LogInv ==
    /\ \A e \in Exports :
          /\ Final(e) /\ work[Log(e)] # Absent => Right(e, work[Log(e)].existed)
          /\ \A b \in Branches : Tip(b) # None => /\ LogOK(e, Tip(b).tree[Log(e)])
                                                  /\ LogOK(e, Tip(b).parent[Log(e)])
          /\ \A x \in disk.changes : Log(e) \in x.paths => Final(e)
    /\ At("record") => Right(call.export, work[Log(call.export)].existed)
    /\ At("restore") \/ At("stamp") => Right(call.export, call.existed)

\* A rollback has restored the files of the items behind it; the others are as
\* the export wrote them, unless it was forced.
PutBack(e, i) ==
    LET p == Items[e][i] IN
    IF i > call.n THEN work[p] = origin[e][p] ELSE work[p] = Content[e][p] \/ p \in forced

RestoreInv == At("restore") => \A i \in 1..Len(Items[call.export]) : PutBack(call.export, i)

RollbackInv == AttemptInv /\ LogInv /\ RestoreInv

\* What a file of the working tree is after a step, and where it comes from.
WorkMoves(k) ==
    \/ work'[k] = work[k]
    \/ \E e \in Exports : k = Out(e)
    \/ /\ WriteLog \/ Stamp
       /\ k = Log(call.export) /\ work'[k].existed = call.existed
    \/ /\ Write \/ Fails
       /\ At("write") /\ k = Item /\ work'[k] = Content[call.export][k]
    \/ /\ Undo \/ Restore
       /\ k = Item /\ work'[k] = IF k \in call.existed THEN backup[call.export][k] ELSE Absent
    \/ /\ Free /\ work[k] = CheckedOut.tree[k]
       /\ \E b \in Branches : Tip(b) # None /\ work'[k] = Tip(b).tree[k]
    \/ /\ At("revert") /\ CheckedOut.id = call.change.commit
       /\ work'[k] = CheckedOut.parent[k] /\ CheckedOut.parent[k] # CheckedOut.tree[k]
    \/ k \in Paths /\ Edit(k)

LEMMA WorkStep == ASSUME TypeInv, [Next]_vars, NEW k \in Keys PROVE WorkMoves(k)
<1>a. Types /\ CallOK /\ work \in Trees /\ call \in Call
  BY DEF TypeInv, Types
<1>b. DOMAIN work = Keys
  BY <1>a, TreeFits
<1>q. ASSUME work' = work PROVE WorkMoves(k)
  BY <1>q DEF WorkMoves
\* A step that writes one file.
<1>o. ASSUME NEW l \in Keys, NEW v, work' = [work EXCEPT ![l] = v]
      PROVE  work'[l] = v /\ (k # l => work'[k] = work[k])
  BY <1>b, <1>o
<1>1. ASSUME NEW e \in Exports, Execute(e) PROVE WorkMoves(k)
  <2>1. work' = work \/ \E v : work' = [work EXCEPT ![Out(e)] = v]
    BY <1>1 DEF Execute
  <2>2. k # Out(e) => work'[k] = work[k]
    BY <1>o, <2>1, KeyParts
  <2> QED
    BY <2>2 DEF WorkMoves
<1>i. ASSUME call.pc \in {"write", "undo", "restore"}, call.n > 0
      PROVE  Item \in Keys /\ call.export \in Exports
  <2>1. /\ call.export \in Exports /\ Len(Items[call.export]) \in Nat
        /\ call.n \in 1..Len(Items[call.export])
    BY <1>a, <1>i, ItemParts DEF CallOK, At, InExport
  <2> QED
    BY <2>1, ItemParts, KeyParts DEF Item
<1>w. ASSUME At("write") PROVE Item \in Keys
  <2>1. /\ call.export \in Exports /\ call.n \in 1..Len(Items[call.export])
    BY <1>a, <1>w DEF CallOK, At, InExport
  <2> QED
    BY <2>1, ItemParts, KeyParts DEF Item
<1>2. ASSUME Write PROVE WorkMoves(k)
  <2>1. At("write") /\ work' = [work EXCEPT ![Item] = Content[call.export][Item]]
    BY <1>2 DEF Write
  <2> QED
    BY <1>2, <1>o, <1>w, <2>1 DEF WorkMoves
<1>3. ASSUME WriteLog PROVE WorkMoves(k)
  <2> DEFINE v == [existed |-> call.existed, rolled |-> FALSE]
             w == [work EXCEPT ![Out(call.export)] = "whole"]
  <2>1. call.export \in Exports
    BY <1>3, <1>a DEF WriteLog, CallOK, At, InExport
  <2>2. work' = [w EXCEPT ![Log(call.export)] = v]
    BY <1>3 DEF WriteLog
  <2>3. v.existed = call.existed
    OBVIOUS
  <2> HIDE DEF v
  <2>4. /\ work'[Log(call.export)] = v
        /\ k \notin {Log(call.export), Out(call.export)} => work'[k] = work[k]
    BY <1>b, <2>1, <2>2, KeyParts
  <2> QED
    BY <1>3, <2>1, <2>3, <2>4 DEF WorkMoves
<1>4. ASSUME Fails PROVE WorkMoves(k)
  <2>1. \/ work' = work
        \/ At("write") /\ work' = [work EXCEPT ![Item] = Content[call.export][Item]]
    BY <1>4 DEF Fails, HalfWritten
  <2> QED
    BY <1>4, <1>o, <1>w, <2>1 DEF WorkMoves
<1>5. ASSUME Undo \/ Restore PROVE WorkMoves(k)
  <2>1. /\ At("undo") \/ At("restore")
        /\ call.n > 0
        /\ work' = Restored(work, call.export, Item, call.existed)
    BY <1>5 DEF Undo, Restore
  <2>2. Item \in Keys
    BY <1>5, <1>i DEF Undo, Restore, At
  <2>3. /\ work'[Item] = IF Item \in call.existed THEN backup[call.export][Item] ELSE Absent
        /\ k # Item => work'[k] = work[k]
    BY <1>b, <2>1, <2>2 DEF Restored
  <2> QED
    BY <1>5, <2>3 DEF WorkMoves
<1>6. ASSUME Undone \/ RolledBack PROVE WorkMoves(k)
  <2>1. call.export \in Exports /\ work' = [work EXCEPT ![Out(call.export)] = Absent]
    BY <1>6, <1>a DEF Undone, RolledBack, CallOK, At, InExport
  <2>2. k # Out(call.export) => work'[k] = work[k]
    BY <1>o, <2>1, KeyParts
  <2> QED
    BY <2>1, <2>2 DEF WorkMoves
<1>7. ASSUME Stamp PROVE WorkMoves(k)
  <2> DEFINE v == [existed |-> call.existed, rolled |-> TRUE]
  <2>1. call.export \in Exports
    BY <1>7, <1>a DEF Stamp, CallOK, At, InExport
  <2>2. work' = [work EXCEPT ![Log(call.export)] = v] /\ v.existed = call.existed
    BY <1>7 DEF Stamp
  <2> HIDE DEF v
  <2>3. work'[Log(call.export)] = v /\ (k # Log(call.export) => work'[k] = work[k])
    BY <1>o, <2>1, <2>2, KeyParts
  <2> QED
    BY <1>7, <2>2, <2>3 DEF WorkMoves
<1>8. ASSUME NEW target, ExportDirectly(target) PROVE WorkMoves(k)
  <2>1. work'[k] = IF \E e \in Exports : k = Out(e) /\ Target[e] = target THEN Absent ELSE work[k]
    BY <1>8 DEF ExportDirectly
  <2> QED
    BY <2>1 DEF WorkMoves
<1>9. ASSUME NEW b \in Branches, Tip(b) # None, Free, Switchable(Tip(b)), work' = Switched(Tip(b))
      PROVE  WorkMoves(k)
  <2>1. work'[k] = IF CheckedOut.tree[k] # Tip(b).tree[k] THEN Tip(b).tree[k] ELSE work[k]
    BY <1>9 DEF Switched
  <2>2. CheckedOut.tree[k] # Tip(b).tree[k] => work[k] = CheckedOut.tree[k]
    BY <1>9 DEF Switchable
  <2> QED
    BY <1>9, <2>1, <2>2 DEF WorkMoves
<1>10. ASSUME NEW x \in disk.changes, Switch(x) PROVE WorkMoves(k)
  <2>1. x.branch \in Branches
    BY <1>a DEF Types, Task, Change
  <2> QED
    BY <1>9, <1>10, <2>1 DEF Switch
<1>11. ASSUME NEW b \in Branches, CheckOut(b) PROVE WorkMoves(k)
  BY <1>9, <1>11 DEF CheckOut
<1>12. ASSUME Revert PROVE WorkMoves(k)
  <2>1. CASE work' = work
    BY <1>q, <2>1
  <2>2. CASE /\ CheckedOut.id = call.change.commit
             /\ work' = [l \in Keys |-> IF CheckedOut.parent[l] # CheckedOut.tree[l]
                                        THEN CheckedOut.parent[l] ELSE work[l]]
    <3>1. work'[k] = IF CheckedOut.parent[k] # CheckedOut.tree[k] THEN CheckedOut.parent[k] ELSE work[k]
      BY <2>2
    <3> QED
      BY <1>12, <2>2, <3>1 DEF WorkMoves, Revert
  <2> QED
    BY <1>12, <2>1, <2>2 DEF Revert
<1>13. ASSUME NEW p \in Paths, Edit(p) PROVE WorkMoves(k)
  <2>1. k # p => work'[k] = work[k]
    BY <1>13, <1>o, KeyParts DEF Edit
  <2> QED
    BY <1>13, <2>1 DEF WorkMoves
<1>14. ASSUME \/ BackUp \/ Completed \/ MakeCommit \/ CommitFails \/ Unbranch \/ RecordCommit
              \/ RecordRevert \/ Crash \/ Recheck \/ UNCHANGED vars
       PROVE  WorkMoves(k)
  BY <1>14, <1>q DEF BackUp, Completed, MakeCommit, CommitFails, Unbranch, RecordCommit,
                     RecordRevert, Crash, Recheck, vars
<1>15. ASSUME NEW e \in Exports,
              Prepare(e) \/ (\E f : RollBack(e, f)) \/ (\E b \in Branches : PrepareChange(e, b))
       PROVE  WorkMoves(k)
  BY <1>15, <1>q DEF Prepare, RollBack, PrepareChange
<1>16. ASSUME NEW x \in disk.changes, Branch(x) PROVE WorkMoves(k)
  BY <1>16, <1>q DEF Branch
<1> QED
  BY <1>1, <1>2, <1>3, <1>4, <1>5, <1>6, <1>7, <1>8, <1>10, <1>11, <1>12, <1>13, <1>14,
     <1>15, <1>16 DEF Next, Exporting, Changing

\* What a branch is after a step: gone, a branch that was, or one commit further.
NewCommit(b, tree) ==
    /\ b = repo.at /\ repo.made < MaxCommits /\ repo'.made = repo.made + 1
    /\ repo'.tip[b] \in Commit
    /\ repo'.tip[b].id = repo.made + 1 /\ repo'.tip[b].tree = tree
    /\ repo'.tip[b].parent = CheckedOut.tree
    /\ repo'.tip[b].held = CheckedOut.held \cup Files(tree)

Staged == [k \in Keys |-> IF k \in call.change.paths THEN work[k] ELSE CheckedOut.tree[k]]

TipMoves(b) ==
    \/ repo'.tip[b] = None
    \/ \E c \in Branches : repo'.tip[b] = Tip(c)
    \/ MakeCommit /\ NewCommit(b, Staged)
    \/ Revert /\ NewCommit(b, CheckedOut.parent)

LEMMA StagedType ==
    ASSUME Types
    PROVE  /\ Staged \in Trees
           /\ \A k \in Keys : Staged[k] = IF k \in call.change.paths THEN work[k]
                                          ELSE CheckedOut.tree[k]
<1>1. work \in Trees /\ CheckedOut.tree \in Trees
  BY TypeFacts, CommitFacts
<1>2. /\ DOMAIN Staged = Keys /\ Staged = [k \in Keys |-> Staged[k]]
      /\ \A k \in Keys : Staged[k] = IF k \in call.change.paths THEN work[k]
                                     ELSE CheckedOut.tree[k]
  BY DEF Staged
<1> QED
  BY <1>1, <1>2, MixedTree

LEMMA TipStep ==
    ASSUME TypeInv, [Next]_vars
    PROVE  /\ \A b \in Branches : TipMoves(b)
           /\ repo.made \in Nat /\ repo'.made \in {repo.made, repo.made + 1}
<1>a. Types /\ repo \in Repo /\ CheckedOut \in Commit /\ repo.at \in Branches
      /\ repo.tip \in [Branches -> Commit \cup {None}] /\ repo.made \in Nat
      /\ CheckedOut = Tip(repo.at)
  BY TypeFacts DEF TypeInv, Repo, CheckedOut
<1> DEFINE G == /\ \A b \in Branches : TipMoves(b)
                /\ repo.made \in Nat /\ repo'.made \in {repo.made, repo.made + 1}
<1>q. ASSUME repo'.tip = repo.tip, repo'.made = repo.made PROVE G
  BY <1>a, <1>q DEF TipMoves, Tip
<1>c. ASSUME NEW tree \in Trees, repo.made < MaxCommits, repo' = Committed(tree),
             (MakeCommit /\ tree = Staged) \/ (Revert /\ tree = CheckedOut.parent)
      PROVE  G
  <2>1. /\ \A c \in Branches \ {repo.at} : repo'.tip[c] = Tip(c)
        /\ repo'.made = repo.made + 1 /\ NewCommit(repo.at, tree)
    BY <1>a, <1>c, CommittedDoes DEF Tip, NewCommit
  <2>2. TipMoves(repo.at)
    BY <1>c, <2>1 DEF TipMoves
  <2>3. \A c \in Branches \ {repo.at} : TipMoves(c)
    BY <2>1 DEF TipMoves
  <2> QED
    BY <1>a, <2>1, <2>2, <2>3
<1>1. ASSUME NEW x \in disk.changes, Branch(x) PROVE G
  <2>1. repo' = [repo EXCEPT !.at = x.branch, !.tip[x.branch] = CheckedOut] /\ Tip(x.branch) = None
    BY <1>1 DEF Branch
  <2>2. /\ repo'.made = repo.made
        /\ \A b \in Branches : repo'.tip[b] \in {repo.tip[b], CheckedOut}
    BY <1>a, <2>1 DEF Repo
  <2> QED
    BY <1>a, <2>2 DEF Tip, TipMoves
<1>2. ASSUME MakeCommit PROVE G
  <2>1. repo.made < MaxCommits /\ repo' = Committed(Staged)
    BY <1>2 DEF MakeCommit, Staged
  <2> QED
    BY <1>a, <1>c, <1>2, <2>1, StagedType
<1>3. ASSUME Unbranch PROVE G
  <2>1. repo' = [repo EXCEPT !.at = call.from, !.tip[call.change.branch] = None]
    BY <1>3 DEF Unbranch
  <2>2. /\ repo'.made = repo.made
        /\ \A b \in Branches : repo'.tip[b] \in {repo.tip[b], None}
    BY <1>a, <2>1 DEF Repo
  <2> QED
    BY <1>a, <2>2 DEF Tip, TipMoves
<1>4. ASSUME Revert PROVE G
  <2>1. CASE repo' = repo
    BY <1>q, <2>1
  <2>2. CASE repo' = Committed(CheckedOut.parent) /\ repo.made < MaxCommits
    BY <1>a, <1>c, <1>4, <2>2, CommitFacts
  <2> QED
    BY <1>4, <2>1, <2>2 DEF Revert
<1>5. ASSUME (\E x \in disk.changes : Switch(x)) \/ (\E c \in Branches : CheckOut(c)) PROVE G
  <2>1. repo'.tip = repo.tip /\ repo'.made = repo.made
    BY <1>5, <1>a DEF Switch, CheckOut, Repo
  <2> QED
    BY <1>q, <2>1
<1>6. ASSUME repo' = repo PROVE G
  BY <1>6, <1>q
<1>7. ASSUME \E e \in Exports : \/ Prepare(e) \/ Execute(e) \/ \E f \in BOOLEAN : RollBack(e, f)
                                \/ \E c \in Branches : PrepareChange(e, c)
      PROVE  repo' = repo
  BY <1>7 DEF Prepare, Execute, RollBack, PrepareChange
<1>8. ASSUME \/ BackUp \/ Write \/ WriteLog \/ Completed \/ Fails \/ Undo \/ Undone \/ Restore
             \/ RolledBack \/ Stamp
      PROVE  repo' = repo
  BY <1>8 DEF BackUp, Write, WriteLog, Completed, Fails, Undo, Undone, Restore, RolledBack, Stamp
<1>9. ASSUME CommitFails \/ RecordCommit \/ RecordRevert \/ Crash \/ Recheck \/ UNCHANGED vars
      PROVE  repo' = repo
  BY <1>9 DEF CommitFails, RecordCommit, RecordRevert, Crash, Recheck, vars
<1>10. ASSUME (\E t : ExportDirectly(t)) \/ (\E p \in Paths : Edit(p)) PROVE repo' = repo
  BY <1>10 DEF ExportDirectly, Edit
<1> HIDE DEF G
<1>11. G
  BY <1>1, <1>2, <1>3, <1>4, <1>5, <1>6, <1>7, <1>8, <1>9, <1>10 DEF Next, Exporting, Changing
<1> QED
  BY <1>11 DEF G

\* An export that is final stays so, and its backups with what they are of.
LEMMA FinalStays ==
    ASSUME TypeInv, [Next]_vars, NEW e \in Exports, Final(e)
    PROVE  /\ Final(e)' /\ origin'[e] = origin[e]
           /\ \A p \in Paths : backup'[e][p] = backup[e][p]
<1>a. Types /\ CallOK
  BY DEF TypeInv
<1>1. Final(e)'
  <2>1. RecMoves(e)
    BY DiskStep DEF DiskMoves
  <2>2. ~(e = call.export /\ Undone)
    BY <1>a DEF Undone, CallOK, At, Final
  <2> QED
    BY <2>1, <2>2 DEF RecMoves, Final
<1>2. ASSUME NEW f \in Exports, Execute(f) PROVE origin'[e] = origin[e]
  <2>1. CASE origin' = origin
    BY <2>1
  <2>2. CASE /\ origin' = [origin EXCEPT ![f] = [p \in Paths |-> work[p]]]
             /\ Persist(disk, f, Planned(disk)).rec[f] = "ready"
    <3>1. f # e
      BY <1>a, <2>2, PersistDoes, PlannedIs DEF Final, Types
    <3> QED
      BY <1>a, <2>2, <3>1 DEF Types
  <2> QED
    BY <1>2, <2>1, <2>2 DEF Execute
<1>3. ASSUME BackUp PROVE \A p \in Paths : backup'[e][p] = backup[e][p]
  <2>1. call.export # e
    BY <1>3, <1>a DEF BackUp, CallOK, At, Final
  <2>2. backup' = backup \/ \E v : backup' = [backup EXCEPT ![call.export][Item] = v]
    BY <1>3 DEF BackUp
  <2> QED
    BY <1>a, <2>1, <2>2 DEF Types
<1>4. origin' = origin \/ \E f \in Exports : Execute(f)
  <2>1. ASSUME \/ BackUp \/ Write \/ WriteLog \/ Completed \/ Fails \/ Undo \/ Undone \/ Restore
               \/ RolledBack \/ Stamp
        PROVE  origin' = origin
    BY <2>1 DEF BackUp, Write, WriteLog, Completed, Fails, Undo, Undone, Restore, RolledBack,
                Stamp, Untouched
  <2>2. ASSUME Changing PROVE origin' = origin
    BY <2>2 DEF Changing, Branch, Switch, MakeCommit, CommitFails, Unbranch, RecordCommit,
                Revert, RecordRevert, Untouched
  <2>3. ASSUME \E f \in Exports : \/ Prepare(f) \/ \E force \in BOOLEAN : RollBack(f, force)
                                  \/ \E b \in Branches : PrepareChange(f, b)
        PROVE  origin' = origin
    BY <2>3 DEF Prepare, RollBack, PrepareChange, Untouched
  <2>4. ASSUME \/ (\E t : ExportDirectly(t)) \/ (\E p \in Paths : Edit(p))
               \/ (\E b \in Branches : CheckOut(b)) \/ Recheck \/ Crash \/ UNCHANGED vars
        PROVE  origin' = origin
    BY <2>4 DEF ExportDirectly, Edit, CheckOut, Recheck, Crash, Untouched, vars
  <2> QED
    BY <2>1, <2>2, <2>3, <2>4 DEF Next, Exporting
<1>5. backup' = backup \/ BackUp
  <2>1. ASSUME \/ Write \/ WriteLog \/ Completed \/ Fails \/ Undo \/ Undone \/ Restore
               \/ RolledBack \/ Stamp
        PROVE  backup' = backup
    BY <2>1 DEF Write, WriteLog, Completed, Fails, Undo, Undone, Restore, RolledBack, Stamp
  <2>2. ASSUME Changing PROVE backup' = backup
    BY <2>2 DEF Changing, Branch, Switch, MakeCommit, CommitFails, Unbranch, RecordCommit,
                Revert, RecordRevert
  <2>3. ASSUME \E f \in Exports : \/ Prepare(f) \/ Execute(f) \/ \E force \in BOOLEAN : RollBack(f, force)
                                  \/ \E b \in Branches : PrepareChange(f, b)
        PROVE  backup' = backup
    BY <2>3 DEF Prepare, Execute, RollBack, PrepareChange
  <2>4. ASSUME \/ (\E t : ExportDirectly(t)) \/ (\E p \in Paths : Edit(p))
               \/ (\E b \in Branches : CheckOut(b)) \/ Recheck \/ Crash \/ UNCHANGED vars
        PROVE  backup' = backup
    BY <2>4 DEF ExportDirectly, Edit, CheckOut, Recheck, Crash, vars
  <2> QED
    BY <2>1, <2>2, <2>3, <2>4 DEF Next, Exporting
<1> QED
  BY <1>1, <1>2, <1>3, <1>4, <1>5

\* The steps after which a call is in the middle of an export or a rollback.
LEMMA CallStep ==
    ASSUME TypeInv, [Next]_vars, call'.pc \in InExport
    PROVE  \/ UNCHANGED vars
           \/ \E e \in Exports : Execute(e)
           \/ BackUp \/ Write \/ WriteLog \/ Fails \/ Undo
           \/ \E e \in Exports, force \in BOOLEAN : RollBack(e, force)
           \/ Restore \/ RolledBack
<1>a. call \in Call
  BY TypeFacts DEF TypeInv
<1>1. ASSUME Completed \/ Undone \/ Stamp \/ Unbranch \/ RecordCommit \/ RecordRevert \/ Crash
      PROVE  FALSE
  BY <1>1, IdleType DEF Completed, Undone, Stamp, Unbranch, RecordCommit, RecordRevert, Crash,
                        Return, InExport
<1>2. ASSUME \/ \E e \in Exports : Prepare(e) \/ \E b \in Branches : PrepareChange(e, b)
             \/ (\E t : ExportDirectly(t)) \/ (\E p \in Paths : Edit(p))
             \/ (\E b \in Branches : CheckOut(b)) \/ Recheck
      PROVE  FALSE
  BY <1>2 DEF Prepare, PrepareChange, ExportDirectly, Edit, CheckOut, Recheck, Free, At, InExport
<1>3. ASSUME NEW x \in disk.changes, Branch(x) \/ Switch(x) PROVE FALSE
  BY <1>3, IdleType DEF Branch, Switch, InExport, Idle
<1>4. ASSUME MakeCommit \/ CommitFails PROVE FALSE
  <2>1. MakeCommit => call'.pc = "branch"
    BY <1>a DEF MakeCommit, Call
  <2>2. CommitFails => call'.pc = "unbranch"
    BY <1>a, MovesDoes DEF CommitFails
  <2> QED
    BY <1>4, <2>1, <2>2 DEF InExport
<1>5. ASSUME Revert PROVE FALSE
  BY <1>5, <1>a, MovesDoes, IdleType DEF Revert, Return, InExport
<1> QED
  BY <1>1, <1>2, <1>3, <1>4, <1>5 DEF Next, Exporting, Changing

LEMMA AttemptStep == TypeInv /\ AttemptInv /\ [Next]_vars => AttemptInv'
<1> SUFFICES ASSUME TypeInv, AttemptInv, [Next]_vars, Attempting',
                    NEW i \in 1..Len(Items[call'.export])
             PROVE  Tried(call.export, i)'
  BY DEF AttemptInv
<1>a. /\ Types /\ CallOK /\ call \in Call
      /\ backup \in [Exports -> [Paths -> File]] /\ origin \in [Exports -> [Paths -> File]]
  BY DEF TypeInv, Types
<1>k. \A p \in Paths : WorkMoves(p)
  BY WorkStep, KeyParts
\* What an attempt knows, its items being distinct.
<1>e. ASSUME Attempting
      PROVE  /\ call.export \in Exports /\ Len(Items[call.export]) \in Nat /\ call.n \in Nat
             /\ \A j \in 1..Len(Items[call.export]) :
                   /\ Tried(call.export, j) /\ Items[call.export][j] \in Paths
                   /\ \A k \in 1..Len(Items[call.export]) :
                         Items[call.export][j] = Items[call.export][k] => j = k
  BY <1>a, <1>e, ItemParts DEF AttemptInv, Attempting, CallOK, InExport, Call
<1>1. ASSUME UNCHANGED vars PROVE Tried(call.export, i)'
  <2>1. call' = call /\ work' = work /\ backup' = backup /\ origin' = origin /\ Attempting
    BY <1>1 DEF vars, Attempting
  <2> QED
    BY <1>e, <2>1 DEF Tried, Done, At
<1>2. ASSUME NEW e \in Exports, Execute(e) PROVE Tried(call.export, i)'
  <2>1. /\ call' = [Idle EXCEPT !.pc = "backup", !.task = Persist(disk, e, Planned(disk)),
                                !.export = e, !.n = 1]
        /\ origin' = [origin EXCEPT ![e] = [p \in Paths |-> work[p]]]
        /\ \E v : work' = [work EXCEPT ![Out(e)] = v]
    BY <1>2 DEF Execute, Attempting, Free, At
  <2>2. call'.pc = "backup" /\ call'.export = e /\ call'.n = 1 /\ call'.existed = {}
    BY <2>1 DEF Idle
  <2>3. Items[e][i] \in Paths
    BY <2>2, ItemParts
  <2>4. origin'[e][Items[e][i]] = work[Items[e][i]]
    BY <1>a, <2>1, <2>3
  <2>5. work'[Items[e][i]] = work[Items[e][i]]
    BY <2>1, <2>3, KeyParts
  <2>6. i \in Nat /\ i > 0
    BY <2>2, ItemParts
  <2> QED
    BY <2>2, <2>4, <2>5, <2>6 DEF Tried, Done, At
<1>3. ASSUME BackUp PROVE Tried(call.export, i)'
  <2> DEFINE e == call.export
             p == Items[e][i]
  <2>1. /\ At("backup") /\ HasItem /\ Attempting /\ UNCHANGED <<work, origin>>
        /\ backup' = IF work[Item] = Absent THEN backup
                     ELSE [backup EXCEPT ![e][Item] = work[Item]]
        /\ call' = [call EXCEPT !.pc = "write",
                                !.existed = IF work[Item] = Absent THEN @ ELSE @ \cup {Item}]
    BY <1>3 DEF BackUp, Untouched, Attempting, At
  <2>2. /\ call'.pc = "write" /\ call'.export = e /\ call'.n = call.n
        /\ call'.existed = IF work[Item] = Absent THEN call.existed ELSE call.existed \cup {Item}
    BY <1>a, <2>1 DEF Call
  <2>3. /\ e \in Exports /\ i \in 1..Len(Items[e]) /\ Tried(e, i) /\ p \in Paths
        /\ call.n \in 1..Len(Items[e]) /\ Item = Items[e][call.n] /\ Item \in Paths
        /\ p = Item <=> i = call.n
    <3>1. e \in Exports /\ i \in 1..Len(Items[e]) /\ Len(Items[e]) \in Nat
      BY <1>e, <2>1, <2>2
    <3>2. call.n \in 1..Len(Items[e])
      BY <1>a, <2>1, <3>1 DEF CallOK, HasItem
    <3> QED
      BY <1>e, <2>1, <3>1, <3>2 DEF Item
  <2>4. Done = call.n - 1 /\ Done' = call.n /\ i \in Nat /\ call.n \in Nat
    BY <2>1, <2>2, <2>3, <1>e DEF Done, At
  <2>5. CASE i = call.n
    <3>1. work[p] = origin[e][p] /\ p \notin call.existed
      BY <2>1, <2>3, <2>4, <2>5 DEF Tried, At
    <3>2. work[p] # Absent => backup'[e][p] = work[p]
      BY <1>a, <2>1, <2>3, <2>5
    <3>3. p \in call'.existed <=> work[p] # Absent
      BY <2>2, <2>3, <2>5, <3>1
    <3>4. work'[p] = origin'[e][p] /\ origin' = origin /\ work' = work
      BY <2>1, <3>1
    <3> QED
      BY <2>2, <2>4, <2>5, <3>1, <3>2, <3>3, <3>4 DEF Tried, At
  <2>6. CASE i # call.n
    <3>1. backup'[e][p] = backup[e][p] /\ (p \in call'.existed <=> p \in call.existed)
      BY <1>a, <2>1, <2>2, <2>3, <2>6
    <3> QED
      BY <2>1, <2>2, <2>3, <2>4, <2>6, <3>1 DEF Tried, At
  <2> QED
    BY <2>5, <2>6
<1>4. ASSUME Write PROVE Tried(call.export, i)'
  <2> DEFINE e == call.export
             p == Items[e][i]
  <2>1. /\ At("write") /\ Attempting /\ UNCHANGED <<backup, origin>>
        /\ call' = [call EXCEPT !.pc = "backup", !.n = @ + 1]
        /\ work' = [work EXCEPT ![Item] = Content[e][Item]]
    BY <1>4 DEF Write, Untouched, Attempting, At
  <2>2. /\ call'.pc = "backup" /\ call'.export = e /\ call'.n = call.n + 1
        /\ call'.existed = call.existed
    BY <1>a, <2>1 DEF Call
  <2>3. /\ e \in Exports /\ i \in 1..Len(Items[e]) /\ Tried(e, i) /\ p \in Paths
        /\ call.n \in Nat /\ i \in Nat /\ Item = Items[e][call.n]
        /\ p = Item <=> i = call.n
    <3>1. e \in Exports /\ i \in 1..Len(Items[e]) /\ Len(Items[e]) \in Nat
      BY <1>e, <2>1, <2>2
    <3>2. call.n \in 1..Len(Items[e])
      BY <1>a, <2>1 DEF CallOK
    <3> QED
      BY <1>e, <2>1, <3>1, <3>2 DEF Item
  <2>4. Done = call.n /\ Done' = call.n
    BY <2>1, <2>2, <2>3 DEF Done, At
  <2>5. work'[p] = IF i = call.n THEN Content[e][p] ELSE work[p]
    <3>1. p \in Keys /\ DOMAIN work = Keys
      BY <1>a, <2>3, KeyParts, TreeFits DEF Types
    <3> QED
      BY <2>1, <2>3, <3>1
  <2> QED
    BY <2>1, <2>2, <2>3, <2>4, <2>5 DEF Tried, At
<1>5. ASSUME WriteLog PROVE Tried(call.export, i)'
  <2> DEFINE e == call.export
             p == Items[e][i]
  <2>1. At("backup") /\ ~HasItem /\ Attempting /\ UNCHANGED <<backup, origin>> /\ Moves("record")
    BY <1>5 DEF WriteLog, Untouched, Attempting, At
  <2>2. /\ call'.pc = "record" /\ call'.export = e /\ call'.n = call.n
        /\ call'.existed = call.existed
    BY <1>a, <2>1, MovesDoes
  <2>3. /\ e \in Exports /\ i \in 1..Len(Items[e]) /\ Tried(e, i) /\ p \in Paths
        /\ call.n \in Nat /\ i \in Nat /\ Len(Items[e]) \in Nat
    BY <1>e, <2>1, <2>2
  <2>4. Done = Len(Items[e]) /\ Done' = Len(Items[e])
    <3>1. call.n \in 1..(Len(Items[e]) + 1) /\ ~(call.n <= Len(Items[e]))
      BY <1>a, <2>1 DEF CallOK, HasItem
    <3>2. call.n - 1 = Len(Items[e])
      BY <2>3, <3>1
    <3> QED
      BY <2>1, <2>2, <3>2 DEF Done, At
  <2>5. work'[p] = work[p]
    <3> DEFINE v == [existed |-> call.existed, rolled |-> FALSE]
               w == [work EXCEPT ![Out(e)] = "whole"]
    <3>1. work' = [w EXCEPT ![Log(e)] = v]
      BY <1>5 DEF WriteLog
    <3>2. p # Out(e) /\ p # Log(e) /\ p \in Keys /\ DOMAIN work = Keys
      BY <1>a, <2>3, KeyParts, TreeFits DEF Types
    <3> HIDE DEF v
    <3> QED
      BY <3>1, <3>2
  <2> QED
    BY <2>1, <2>2, <2>3, <2>4, <2>5 DEF Tried, At
<1>6. ASSUME Fails PROVE Tried(call.export, i)'
  <2> DEFINE e == call.export
             p == Items[e][i]
  <2>1. /\ At("write") \/ At("backup")
        /\ Attempting /\ UNCHANGED <<backup, origin>>
        /\ work' \in HalfWritten
        /\ call' = [call EXCEPT !.pc = "undo", !.n = IF At("write") THEN @ ELSE @ - 1]
    BY <1>6 DEF Fails, Untouched, Attempting, At
  <2>2. /\ (At("write") \/ At("backup")) /\ Attempting /\ UNCHANGED <<backup, origin>>
        /\ work' \in HalfWritten
        /\ call'.pc = "undo" /\ call'.export = e /\ call'.existed = call.existed
        /\ call'.n = IF At("write") THEN call.n ELSE call.n - 1
    BY <1>6, <1>a DEF Fails, Untouched, Attempting, At, Call
  <2>3. /\ e \in Exports /\ i \in 1..Len(Items[e]) /\ Tried(e, i) /\ p \in Paths
        /\ call.n \in Nat /\ i \in Nat /\ Len(Items[e]) \in Nat
    BY <1>e, <2>2
  <2>4. Done' = Done
    BY <2>2 DEF Done, At
  <2>5. CASE At("write")
    <3>1. call.n \in 1..Len(Items[e]) /\ Done = call.n /\ Item = Items[e][call.n]
      BY <1>a, <2>5 DEF CallOK, Done, At, Item
    <3>2. p = Item <=> i = call.n
      BY <1>e, <2>2, <2>3, <3>1
    <3>3. work' = work \/ work' = [work EXCEPT ![Item] = Content[e][Item]]
      BY <2>2 DEF HalfWritten
    <3>4. work'[p] = work[p] \/ (i = call.n /\ work'[p] = Content[e][p])
      <4>1. p \in Keys /\ DOMAIN work = Keys
        BY <1>a, <2>3, KeyParts, TreeFits DEF Types
      <4> QED
        BY <3>2, <3>3, <4>1
    <3> QED
      BY <2>2, <2>3, <2>4, <2>5, <3>1, <3>4 DEF Tried, At
  <2>6. CASE At("backup")
    <3>1. work' = work
      BY <2>2, <2>6 DEF HalfWritten, At
    <3> QED
      BY <2>2, <2>3, <2>4, <2>6, <3>1 DEF Tried, At
  <2> QED
    BY <2>2, <2>5, <2>6
<1>7. ASSUME Undo PROVE Tried(call.export, i)'
  <2> DEFINE e == call.export
             p == Items[e][i]
  <2>1. /\ At("undo") /\ call.n > 0 /\ Attempting /\ UNCHANGED <<backup, origin>>
        /\ work' = Restored(work, e, Item, call.existed)
        /\ call' = [call EXCEPT !.n = @ - 1]
    BY <1>7 DEF Undo, Untouched, Attempting, At
  <2>2. /\ call'.pc = "undo" /\ call'.export = e /\ call'.n = call.n - 1
        /\ call'.existed = call.existed
    BY <1>a, <2>1 DEF Call, At
  <2>3. /\ e \in Exports /\ i \in 1..Len(Items[e]) /\ Tried(e, i) /\ p \in Paths
        /\ call.n \in Nat /\ i \in Nat /\ Item = Items[e][call.n]
        /\ p = Item <=> i = call.n
    <3>1. e \in Exports /\ i \in 1..Len(Items[e]) /\ Len(Items[e]) \in Nat
      BY <1>e, <2>1, <2>2
    <3>2. call.n \in 1..Len(Items[e])
      BY <1>a, <2>1, <3>1 DEF CallOK
    <3> QED
      BY <1>e, <2>1, <3>1, <3>2 DEF Item
  <2>4. Done = call.n /\ Done' = call.n - 1
    BY <2>1, <2>2 DEF Done, At
  <2>5. work'[p] = IF i = call.n THEN (IF p \in call.existed THEN backup[e][p] ELSE Absent)
                   ELSE work[p]
    <3>1. p \in Keys /\ DOMAIN work = Keys
      BY <1>a, <2>3, KeyParts, TreeFits DEF Types
    <3> QED
      BY <2>1, <2>3, <3>1 DEF Restored
  <2> QED
    BY <2>1, <2>2, <2>3, <2>4, <2>5 DEF Tried, At
<1>8. call'.pc \in InExport /\ call'.pc \in {"backup", "write", "record", "undo"}
  BY DEF Attempting, InExport
<1>9. ASSUME (\E e \in Exports, force \in BOOLEAN : RollBack(e, force)) \/ Restore \/ RolledBack
      PROVE  FALSE
  <2>1. ASSUME NEW e \in Exports, NEW force \in BOOLEAN, RollBack(e, force) PROVE FALSE
    BY <1>8, <2>1 DEF RollBack, Idle
  <2>2. ASSUME Restore \/ RolledBack PROVE FALSE
    BY <1>8, <1>a, <2>2, MovesDoes DEF Restore, RolledBack, Call, At
  <2> QED
    BY <1>9, <2>1, <2>2
<1> QED
  BY <1>1, <1>2, <1>3, <1>4, <1>5, <1>6, <1>7, <1>8, <1>9, CallStep

\* Where those steps lead, and what the call keeps of its export.
LEMMA CallLeads ==
    ASSUME TypeInv, [Next]_vars
    PROVE  /\ (\E e \in Exports : Execute(e)) /\ call'.pc \in InExport => call'.pc = "backup"
           /\ BackUp => call'.pc = "write"
           /\ Write => call'.pc = "backup"
           /\ WriteLog => /\ call'.pc = "record" /\ call'.export = call.export
                          /\ call'.existed = call.existed
           /\ Fails \/ Undo => call'.pc = "undo"
           /\ \A e \in Exports, force \in BOOLEAN : RollBack(e, force) =>
                 /\ call'.pc = "restore" /\ call'.export = e /\ call'.n = Len(Items[e])
                 /\ call'.existed = work[Log(e)].existed
           /\ Restore => /\ call'.pc = "restore" /\ call'.export = call.export
                         /\ call'.existed = call.existed /\ call'.n = call.n - 1
           /\ RolledBack => /\ call'.pc = "stamp" /\ call'.export = call.export
                            /\ call'.existed = call.existed
<1>a. call \in Call
  BY TypeFacts DEF TypeInv
<1>1. ASSUME NEW e \in Exports, Execute(e), call'.pc \in InExport PROVE call'.pc = "backup"
  BY <1>1 DEF Execute, Free, At, InExport, Idle
<1>2. BackUp => call'.pc = "write"
  BY <1>a DEF BackUp, Call
<1>3. Write => call'.pc = "backup"
  BY <1>a DEF Write, Call
<1>4. WriteLog => /\ call'.pc = "record" /\ call'.export = call.export
                  /\ call'.existed = call.existed
  BY <1>a, MovesDoes DEF WriteLog
<1>5. Fails \/ Undo => call'.pc = "undo"
  BY <1>a DEF Fails, Undo, Call, At
<1>6. ASSUME NEW e \in Exports, NEW force \in BOOLEAN, RollBack(e, force)
      PROVE  /\ call'.pc = "restore" /\ call'.export = e /\ call'.n = Len(Items[e])
             /\ call'.existed = work[Log(e)].existed
  BY <1>6 DEF RollBack, Idle
<1>7. Restore => /\ call'.pc = "restore" /\ call'.export = call.export
                 /\ call'.existed = call.existed /\ call'.n = call.n - 1
  BY <1>a DEF Restore, Call, At
<1>8. RolledBack => /\ call'.pc = "stamp" /\ call'.export = call.export
                    /\ call'.existed = call.existed
  BY <1>a, MovesDoes DEF RolledBack
<1> QED
  BY <1>1, <1>2, <1>3, <1>4, <1>5, <1>6, <1>7, <1>8

\* Right after a step, about files that are known before it.
StillRight(e, existed) ==
    \A p \in PathsOf(e) : IF p \in existed THEN backup'[e][p] = origin'[e][p]
                          ELSE origin'[e][p] = Absent

LEMMA LogStep == TypeInv /\ AttemptInv /\ LogInv /\ [Next]_vars => LogInv'
<1> SUFFICES ASSUME TypeInv, AttemptInv, LogInv, [Next]_vars PROVE LogInv'
  OBVIOUS
<1>a. /\ Types /\ CallOK /\ call \in Call /\ disk \in Task /\ repo.at \in Branches
      /\ CheckedOut = Tip(repo.at) /\ CheckedOut # None
  BY TypeFacts DEF TypeInv, Types, Repo, CheckedOut
<1>r. ASSUME NEW e \in Exports, Final(e)
      PROVE  \A existed : Right(e, existed) => StillRight(e, existed)
  BY <1>r, FinalStays, ItemParts DEF Right, StillRight
<1>l. ASSUME NEW e \in Exports
      PROVE  \A log : LogOK(e, log) /\ log # Absent => Final(e)' /\ StillRight(e, log.existed)
  BY <1>r, FinalStays DEF LogOK
<1>t. ASSUME NEW e \in Exports
      PROVE  LogOK(e, CheckedOut.tree[Log(e)]) /\ LogOK(e, CheckedOut.parent[Log(e)])
  BY <1>a DEF LogInv
\* Only the log of the export a call works on is written.
<1>w. ASSUME NEW e \in Exports
      PROVE  \/ work'[Log(e)] = work[Log(e)]
             \/ WriteLog /\ e = call.export
             \/ Stamp /\ e = call.export /\ work'[Log(e)].existed = call.existed
             \/ LogOK(e, work'[Log(e)])
  <2>1. Log(e) \in Keys /\ Log(e) \notin Paths /\ \A f \in Exports : Log(e) # Out(f)
    BY KeyParts
  <2>2. WorkMoves(Log(e))
    BY <2>1, WorkStep
  <2>3. ASSUME ((Write \/ Fails) /\ At("write")) \/ Undo \/ Restore, Log(e) = Item PROVE FALSE
    <3>1. /\ call.export \in Exports /\ Len(Items[call.export]) \in Nat
          /\ call.n \in 1..Len(Items[call.export])
      BY <1>a, <2>3, ItemParts DEF CallOK, At, InExport, Undo, Restore
    <3> QED
      BY <2>1, <2>3, <3>1, ItemParts DEF Item
  <2>4. ASSUME WriteLog \/ Stamp, Log(e) = Log(call.export) PROVE e = call.export
    BY <1>a, <2>4, KeyParts DEF CallOK, At, InExport, WriteLog, Stamp
  <2>5. ASSUME NEW b \in Branches, Tip(b) # None, work'[Log(e)] = Tip(b).tree[Log(e)]
        PROVE  LogOK(e, work'[Log(e)])
    BY <2>5 DEF LogInv
  <2> QED
    BY <1>t, <2>1, <2>2, <2>3, <2>4, <2>5 DEF WorkMoves
<1>1. ASSUME NEW e \in Exports, Final(e)', work'[Log(e)] # Absent
      PROVE  StillRight(e, work'[Log(e)].existed)
  <2>1. CASE Final(e)
    <3>1. ~WriteLog \/ e # call.export
      BY <1>a, <2>1 DEF WriteLog, CallOK, At, Final
    <3>2. CASE work'[Log(e)] = work[Log(e)]
      <4>1. Right(e, work[Log(e)].existed)
        BY <1>1, <2>1, <3>2 DEF LogInv
      <4> QED
        BY <2>1, <3>2, <4>1, <1>r
    <3>3. CASE Stamp /\ e = call.export /\ work'[Log(e)].existed = call.existed
      <4>1. Right(e, call.existed)
        BY <3>3 DEF LogInv, Stamp
      <4> QED
        BY <2>1, <3>3, <4>1, <1>r
    <3>4. CASE LogOK(e, work'[Log(e)])
      BY <1>1, <1>l, <3>4
    <3> QED
      BY <1>w, <3>1, <3>2, <3>3, <3>4
  <2>2. CASE ~Final(e)
    <3>1. Completed /\ e = call.export
      <4>1. RecMoves(e)
        BY DiskStep DEF DiskMoves
      <4>2. RolledBack => Final(call.export)
        BY <1>a DEF RolledBack, CallOK, At, Final
      <4> QED
        BY <1>1, <2>2, <4>1, <4>2 DEF RecMoves, Final
    <3>2. Right(e, work[Log(e)].existed)
      BY <3>1 DEF LogInv, Completed
    <3>3. UNCHANGED <<work, backup, origin>>
      BY <3>1 DEF Completed, Untouched
    <3> QED
      BY <3>2, <3>3 DEF Right, StillRight
  <2> QED
    BY <2>1, <2>2
<1>2. ASSUME NEW e \in Exports, NEW b \in Branches, repo'.tip[b] # None
      PROVE  /\ repo'.tip[b].tree[Log(e)] # Absent =>
                    Final(e)' /\ StillRight(e, repo'.tip[b].tree[Log(e)].existed)
             /\ repo'.tip[b].parent[Log(e)] # Absent =>
                    Final(e)' /\ StillRight(e, repo'.tip[b].parent[Log(e)].existed)
  <2> DEFINE new == repo'.tip[b]
  <2>1. LogOK(e, new.tree[Log(e)]) /\ LogOK(e, new.parent[Log(e)])
    <3>1. CASE \E c \in Branches : new = Tip(c)
      BY <1>2, <3>1 DEF LogInv
    <3>2. CASE MakeCommit /\ NewCommit(b, Staged)
      <4>1. call.change \in disk.changes
        BY <1>a, <3>2 DEF MakeCommit, CallOK, At, InChange
      <4>2. Log(e) \in call.change.paths => LogOK(e, work[Log(e)])
        BY <4>1 DEF LogInv, LogOK
      <4>3. LogOK(e, Staged[Log(e)])
        BY <1>a, <1>t, <4>2, StagedType, KeyParts
      <4> QED
        BY <1>t, <3>2, <4>3 DEF NewCommit
    <3>3. CASE Revert /\ NewCommit(b, CheckedOut.parent)
      BY <1>t, <3>3 DEF NewCommit
    <3> QED
      BY <1>2, <3>1, <3>2, <3>3, TipStep DEF TipMoves
  <2> QED
    BY <1>l, <2>1
<1>3. ASSUME NEW e \in Exports, NEW x \in disk'.changes, Log(e) \in x.paths PROVE Final(e)'
  <2>1. ChangeMoves(x)
    BY DiskStep DEF DiskMoves
  <2>2. Unbranch \/ RecordCommit \/ RecordRevert =>
            call.change \in disk.changes /\ call.change \in Change
    BY <1>a DEF Unbranch, RecordCommit, RecordRevert, CallOK, At, InChange, Task
  <2>3. x \in disk.changes \/ Final(e) \/ (call.change \in disk.changes /\ x.paths = call.change.paths)
    BY <1>3, <2>1, <2>2 DEF ChangeMoves, Change
  <2>4. Final(e)
    BY <1>3, <2>3 DEF LogInv
  <2> QED
    BY <2>4, FinalStays
<1>4. ASSUME call'.pc = "record" PROVE Right(call.export, work[Log(call.export)].existed)'
  <2>1. UNCHANGED vars \/ WriteLog
    BY <1>4, CallStep, CallLeads DEF InExport
  <2>2. CASE UNCHANGED vars
    BY <1>4, <2>2 DEF vars, LogInv, At, Right
  <2>3. CASE WriteLog
    <3> DEFINE e == call.export
    <3>1. /\ At("backup") /\ ~HasItem /\ UNCHANGED <<backup, origin>> /\ call'.export = e
      BY <2>3, CallLeads DEF WriteLog, Untouched
    <3>2. e \in Exports /\ Len(Items[e]) \in Nat /\ Log(e) \in Keys
          /\ \A i \in 1..Len(Items[e]) : Tried(e, i)
      BY <1>a, <3>1, ItemParts, KeyParts DEF CallOK, At, InExport, AttemptInv, Attempting
    <3>3. Done = Len(Items[e])
      <4>1. call.n \in 1..(Len(Items[e]) + 1) /\ ~(call.n <= Len(Items[e]))
        BY <1>a, <3>1 DEF CallOK, HasItem
      <4>2. call.n - 1 = Len(Items[e])
        BY <3>2, <4>1
      <4> QED
        BY <3>1, <4>2 DEF Done
    <3>4. Right(e, call.existed)
      <4>1. ASSUME NEW p \in PathsOf(e)
            PROVE  IF p \in call.existed THEN backup[e][p] = origin[e][p] ELSE origin[e][p] = Absent
        <5>1. PICK i \in 1..Len(Items[e]) : p = Items[e][i]
          BY <3>2, ItemParts
        <5>2. i <= Done /\ Tried(e, i)
          BY <3>2, <3>3
        <5> QED
          BY <5>1, <5>2 DEF Tried
      <4> QED
        BY <4>1 DEF Right
    <3>5. work'[Log(e)].existed = call.existed
      <4> DEFINE v == [existed |-> call.existed, rolled |-> FALSE]
                 w == [work EXCEPT ![Out(e)] = "whole"]
      <4>1. work' = [w EXCEPT ![Log(e)] = v]
        BY <2>3 DEF WriteLog
      <4>2. v.existed = call.existed /\ DOMAIN work = Keys
        BY <1>a, TreeFits DEF Types
      <4> HIDE DEF v
      <4> QED
        BY <3>2, <4>1, <4>2
    <3> QED
      BY <3>1, <3>4, <3>5 DEF Right
  <2> QED
    BY <2>1, <2>2, <2>3
<1>5. ASSUME call'.pc \in {"restore", "stamp"} PROVE Right(call.export, call.existed)'
  <2>1. \/ UNCHANGED vars \/ Restore \/ RolledBack
        \/ \E e \in Exports, force \in BOOLEAN : RollBack(e, force)
    BY <1>5, CallStep, CallLeads DEF InExport
  <2>2. CASE UNCHANGED vars
    BY <1>5, <2>2 DEF vars, LogInv, At, Right
  <2>3. CASE Restore \/ RolledBack
    <3>1. /\ Right(call.export, call.existed) /\ UNCHANGED <<backup, origin>>
      BY <2>3 DEF LogInv, Restore, RolledBack, Untouched
    <3>2. call'.export = call.export /\ call'.existed = call.existed
      BY <2>3, CallLeads
    <3> QED
      BY <3>1, <3>2 DEF Right
  <2>4. ASSUME NEW e \in Exports, NEW force \in BOOLEAN, RollBack(e, force)
        PROVE  Right(call.export, call.existed)'
    <3>1. /\ Right(e, work[Log(e)].existed) /\ UNCHANGED <<backup, origin>>
      BY <2>4 DEF LogInv, RollBack, Final
    <3>2. call'.export = e /\ call'.existed = work[Log(e)].existed
      BY <2>4, CallLeads
    <3> QED
      BY <3>1, <3>2 DEF Right
  <2> QED
    BY <2>1, <2>2, <2>3, <2>4
<1>6. \A e \in Exports :
        /\ Final(e)' /\ work'[Log(e)] # Absent => Right(e, work[Log(e)].existed)'
        /\ \A b \in Branches : Tip(b)' # None => /\ LogOK(e, Tip(b).tree[Log(e)])'
                                                 /\ LogOK(e, Tip(b).parent[Log(e)])'
        /\ \A x \in disk'.changes : Log(e) \in x.paths => Final(e)'
  BY <1>1, <1>2, <1>3 DEF LogOK, Right, StillRight, Tip
<1> QED
  BY <1>4, <1>5, <1>6 DEF LogInv, At

LEMMA RestoreStep == TypeInv /\ LogInv /\ RestoreInv /\ [Next]_vars => RestoreInv'
<1> SUFFICES ASSUME TypeInv, LogInv, RestoreInv, [Next]_vars, call'.pc = "restore",
                    NEW i \in 1..Len(Items[call'.export])
             PROVE  PutBack(call.export, i)'
  BY DEF RestoreInv, At
<1>a. /\ Types /\ CallOK /\ call \in Call
  BY DEF TypeInv, Types
<1>1. \/ UNCHANGED vars \/ Restore \/ \E e \in Exports, force \in BOOLEAN : RollBack(e, force)
  BY CallStep, CallLeads DEF InExport
<1>2. CASE UNCHANGED vars
  BY <1>2 DEF vars, RestoreInv, At, PutBack
<1>3. CASE Restore
  <2> DEFINE e == call.export
             p == Items[e][i]
  <2>1. /\ At("restore") /\ call.n > 0 /\ UNCHANGED <<backup, origin, forced>>
        /\ work' = Restored(work, e, Item, call.existed)
        /\ call'.export = e /\ call'.n = call.n - 1
    BY <1>3, CallLeads DEF Restore, Untouched
  <2>2. /\ e \in Exports /\ Len(Items[e]) \in Nat /\ i \in 1..Len(Items[e])
        /\ call.n \in 1..Len(Items[e])
    BY <1>a, <2>1, ItemParts DEF CallOK, At, InExport
  <2>3. /\ p \in PathsOf(e) /\ p \in Keys /\ PutBack(e, i) /\ Item = Items[e][call.n]
        /\ p = Item <=> i = call.n
    BY <2>1, <2>2, ItemParts, KeyParts DEF RestoreInv, Item
  <2>4. work'[p] = IF i = call.n THEN (IF p \in call.existed THEN backup[e][p] ELSE Absent)
                   ELSE work[p]
    <3>1. DOMAIN work = Keys
      BY <1>a, TreeFits DEF Types
    <3> QED
      BY <2>1, <2>3, <3>1 DEF Restored
  <2>5. IF p \in call.existed THEN backup[e][p] = origin[e][p] ELSE origin[e][p] = Absent
    BY <2>1, <2>3 DEF LogInv, Right
  <2>6. i > call'.n <=> (i > call.n \/ i = call.n)
    BY <2>1, <2>2
  <2> QED
    BY <2>1, <2>3, <2>4, <2>5, <2>6 DEF PutBack
<1>4. ASSUME NEW e \in Exports, NEW force \in BOOLEAN, RollBack(e, force)
      PROVE  PutBack(call.export, i)'
  <2> DEFINE p == Items[e][i]
  <2>1. call'.export = e /\ call'.n = Len(Items[e])
    BY <1>4, CallLeads
  <2>2. p \in PathsOf(e) /\ ~(i > call'.n)
    BY <2>1, ItemParts
  <2>3. work' = work /\ (work[p] = Content[e][p] \/ p \in forced')
    BY <1>4, <2>2 DEF RollBack, Conflicts
  <2> QED
    BY <2>1, <2>2, <2>3 DEF PutBack
<1> QED
  BY <1>1, <1>2, <1>3, <1>4

LEMMA RollbackInit == Init => RollbackInv
<1> SUFFICES ASSUME Init PROVE RollbackInv
  OBVIOUS
<1>1. call = Idle /\ Idle.pc = "idle" /\ disk.changes = {}
      /\ \A e \in Exports : disk.rec[e] = "none"
  BY IdleType DEF Init
<1>2. PICK there \in Starts : work = [k \in Keys |-> IF k \in there THEN Before ELSE Absent]
  BY DEF Init
<1>3. \A e \in Exports : work[Log(e)] = Absent
  BY <1>2, KeyParts, DeliveryAssumption
<1>4. PICK tracked \in SUBSET {p \in Paths : work[p] # Absent} :
        LET tree == [k \in Keys |-> IF k \in tracked THEN work[k] ELSE Absent] IN
        repo = [at |-> Main, made |-> 0,
                tip |-> [b \in Branches |->
                            IF b = Main THEN [id |-> 0, tree |-> tree, parent |-> tree, past |-> {0},
                                              held |-> Files(tree)]
                            ELSE None]]
  BY DEF Init
<1> DEFINE tree == [k \in Keys |-> IF k \in tracked THEN work[k] ELSE Absent]
           first == [id |-> 0, tree |-> tree, parent |-> tree, past |-> {0}, held |-> Files(tree)]
<1>5. \A e \in Exports : tree[Log(e)] = Absent
  BY KeyParts
<1>6. first.tree = tree /\ first.parent = tree
  OBVIOUS
<1>7. repo.tip = [b \in Branches |-> IF b = Main THEN first ELSE None]
  BY <1>4
<1> HIDE DEF tree, first
<1>8. \A e \in Exports : \A b \in Branches : Tip(b) # None =>
          Tip(b).tree[Log(e)] = Absent /\ Tip(b).parent[Log(e)] = Absent
  BY <1>5, <1>6, <1>7 DEF Tip
<1> QED
  BY <1>1, <1>3, <1>8 DEF RollbackInv, AttemptInv, LogInv, RestoreInv, LogOK, Attempting, At, Final

LEMMA RollbackStep == TypeInv /\ RollbackInv /\ [Next]_vars => RollbackInv'
BY AttemptStep, LogStep, RestoreStep DEF RollbackInv

\* A record that becomes one of an undone export leaves the files as they were.
LEMMA UndoneRestores ==
    ASSUME TypeInv, RollbackInv, [Next]_vars, NEW e \in Exports, call.export = e, ~IsUndone(e),
           IsUndone(e)', NEW p \in PathsOf(e)
    PROVE  work'[p] = origin[e][p]
<1>a. /\ Types /\ CallOK /\ call \in Call
  BY DEF TypeInv, Types
<1>1. PICK i \in 1..Len(Items[e]) : p = Items[e][i]
  BY ItemParts
<1>2. Undone \/ RolledBack
  <2>1. RecMoves(e)
    BY DiskStep DEF DiskMoves
  <2> QED
    BY <2>1 DEF RecMoves, IsUndone
<1>3. work[p] = origin[e][p]
  <2>1. call.n = 0 /\ i \in Nat /\ i > 0
    BY <1>2, ItemParts DEF Undone, RolledBack
  <2>2. CASE Undone
    <3>1. Tried(e, i) /\ i > Done
      BY <1>2, <2>1, <2>2 DEF RollbackInv, AttemptInv, Attempting, Undone, At, Done
    <3> QED
      BY <1>1, <2>2, <3>1 DEF Tried, Undone
  <2>3. CASE RolledBack
    <3>1. PutBack(e, i)
      BY <2>3 DEF RollbackInv, RestoreInv, RolledBack
    <3> QED
      BY <1>1, <2>1, <3>1 DEF PutBack
  <2> QED
    BY <1>2, <2>2, <2>3
<1>4. work'[p] = work[p]
  <2>1. work' = [work EXCEPT ![Out(e)] = Absent]
    BY <1>2 DEF Undone, RolledBack
  <2>2. p \in Paths /\ p # Out(e)
    BY ItemParts, KeyParts
  <2> QED
    BY <2>1, <2>2
<1> QED
  BY <1>3, <1>4

\* An export that is recorded as failed or rolled back has left its files as
\* they were when its last attempt began (GatedExportService.execute and
\* rollback), for any exports, edits, commits and crashes in between.
THEOREM RollbacksRestore == Spec => RollbackRestores
<1>1. Init => TypeInv /\ RollbackInv
  BY InitTypeInv, RollbackInit
<1>2. TypeInv /\ RollbackInv /\ [Next]_vars => (TypeInv /\ RollbackInv)'
  BY StepTypeInv, RollbackStep
<1>3. TypeInv /\ RollbackInv /\ [Next]_vars =>
          [\A e \in Exports : call.export = e /\ ~IsUndone(e) /\ IsUndone(e)' =>
               \A p \in PathsOf(e) : work'[p] = origin[e][p]]_vars
  BY UndoneRestores
<1> QED
  BY <1>1, <1>2, <1>3, PTL DEF Spec, RollbackRestores

(***************************************************************************)
(* What the users had                                                      *)
(***************************************************************************)

\* A commit changes these paths and no others.
Within(commit, paths) == \A k \in Keys \ paths : commit.tree[k] = commit.parent[k]

\* The commit of a change set is within its paths, and these are clean when it
\* is reverted; every commit knows what it holds.
CommitInv ==
    /\ \A x \in disk.changes : x.status \in {"committed", "reverted"} => x.commit <= repo.made
    /\ \A b \in Branches : Tip(b) # None =>
          /\ Tip(b).id <= repo.made
          /\ Files(Tip(b).tree) \subseteq Tip(b).held
          /\ \A x \in disk.changes :
                x.status = "committed" /\ x.commit = Tip(b).id => Within(Tip(b), x.paths)
    /\ At("branch") =>
          /\ call.n <= repo.made
          /\ \A b \in Branches : Tip(b) # None /\ Tip(b).id = call.n =>
                                    Within(Tip(b), call.change.paths)
    /\ At("revert") => \A k \in call.change.paths : work[k] = CheckedOut.tree[k]

LEMMA ChangeStep ==
    ASSUME TypeInv, [Next]_vars
    PROVE  /\ call'.pc = "branch" => UNCHANGED vars \/ (MakeCommit /\ call'.n = repo.made + 1
                                                      /\ call'.change = call.change)
           /\ call'.pc = "revert" => \/ UNCHANGED vars
                                     \/ \E x \in disk.changes : Switch(x) /\ call'.change = x
<1> SUFFICES ASSUME call'.pc \in {"branch", "revert"}
             PROVE  \/ UNCHANGED vars
                    \/ /\ MakeCommit /\ call'.pc = "branch" /\ call'.n = repo.made + 1
                       /\ call'.change = call.change
                    \/ \E x \in disk.changes : Switch(x) /\ call'.pc = "revert" /\ call'.change = x
  OBVIOUS
<1>a. call \in Call
  BY TypeFacts DEF TypeInv
<1>1. ASSUME Completed \/ Undone \/ Stamp \/ Unbranch \/ RecordCommit \/ RecordRevert \/ Crash
      PROVE  FALSE
  BY <1>1, IdleType DEF Completed, Undone, Stamp, Unbranch, RecordCommit, RecordRevert, Crash,
                        Return
<1>2. ASSUME \/ \E e \in Exports : Prepare(e) \/ \E b \in Branches : PrepareChange(e, b)
             \/ (\E t : ExportDirectly(t)) \/ (\E p \in Paths : Edit(p))
             \/ (\E b \in Branches : CheckOut(b)) \/ Recheck
      PROVE  FALSE
  BY <1>2 DEF Prepare, PrepareChange, ExportDirectly, Edit, CheckOut, Recheck, Free, At
<1>3. ASSUME NEW e \in Exports, Execute(e) PROVE FALSE
  BY <1>3 DEF Execute, Free, At, Idle
<1>4. ASSUME BackUp \/ Write \/ WriteLog \/ Fails \/ Undo \/ Restore \/ RolledBack PROVE FALSE
  BY <1>4, CallLeads
<1>5. ASSUME NEW e \in Exports, NEW force \in BOOLEAN, RollBack(e, force) PROVE FALSE
  BY <1>5, CallLeads
<1>6. ASSUME NEW x \in disk.changes, Branch(x) PROVE FALSE
  BY <1>6 DEF Branch, Idle
<1>7. ASSUME CommitFails PROVE FALSE
  BY <1>7, <1>a, MovesDoes DEF CommitFails
<1>8. ASSUME Revert PROVE FALSE
  BY <1>8, <1>a, MovesDoes, IdleType DEF Revert, Return
<1>9. ASSUME MakeCommit PROVE call'.pc = "branch" /\ call'.n = repo.made + 1
                              /\ call'.change = call.change
  BY <1>9, <1>a DEF MakeCommit, Call
<1>10. ASSUME NEW x \in disk.changes, Switch(x) PROVE call'.pc = "revert" /\ call'.change = x
  BY <1>10 DEF Switch, Idle
<1> QED
  BY <1>1, <1>2, <1>3, <1>4, <1>5, <1>6, <1>7, <1>8, <1>9, <1>10 DEF Next, Exporting, Changing

LEMMA CommitStep == TypeInv /\ CommitInv /\ [Next]_vars => CommitInv'
<1> SUFFICES ASSUME TypeInv, CommitInv, [Next]_vars PROVE CommitInv'
  OBVIOUS
<1>a. /\ Types /\ CallOK /\ call \in Call /\ disk \in Task /\ repo.at \in Branches
      /\ CheckedOut = Tip(repo.at) /\ CheckedOut # None /\ CheckedOut \in Commit
  BY TypeFacts DEF TypeInv, Types, Repo, CheckedOut
<1>m. /\ repo.made \in Nat /\ repo'.made \in {repo.made, repo.made + 1}
      /\ \A b \in Branches : TipMoves(b)
  BY TipStep
<1>n. \A b \in Branches : Tip(b) # None => Tip(b).id \in Nat
  BY TypeFacts, CommitFacts DEF TypeInv
\* A change set that is recorded was so before, or is recorded by this step.
<1>x. ASSUME NEW x \in disk'.changes, x.status \in {"committed", "reverted"}
      PROVE  /\ x \in Change
             /\ \/ x \in disk.changes
                \/ /\ RecordCommit /\ At("branch")
                   /\ x.commit = call.n /\ x.paths = call.change.paths
                \/ x.status = "reverted" /\ \E y \in disk.changes :
                       y.status = "committed" /\ x.commit = y.commit
  <2>1. ChangeMoves(x)
    BY DiskStep DEF DiskMoves
  <2>2. Unbranch \/ RecordCommit \/ RecordRevert =>
            call.change \in disk.changes /\ call.change \in Change
    BY <1>a DEF Unbranch, RecordCommit, RecordRevert, CallOK, At, InChange, Task
  <2>3. x \in Change
    BY StepTypeInv DEF TypeInv, Types, Task
  <2>4. CASE Unbranch /\ x = [call.change EXCEPT !.status = "failed"]
    BY <1>x, <2>2, <2>4 DEF Change
  <2>5. CASE RecordCommit /\ x = [call.change EXCEPT !.status = "committed", !.commit = call.n]
    BY <2>2, <2>3, <2>5 DEF Change, RecordCommit
  <2>6. CASE RecordRevert /\ x = [call.change EXCEPT !.status = "reverted"]
    <3>1. call.change.status = "committed"
      BY <1>a, <2>6 DEF RecordRevert, CallOK, At
    <3> QED
      BY <2>2, <2>3, <2>6, <3>1 DEF Change
  <2> QED
    BY <1>x, <2>1, <2>3, <2>4, <2>5, <2>6 DEF ChangeMoves
<1>1. ASSUME NEW x \in disk'.changes, x.status \in {"committed", "reverted"}
      PROVE  x.commit <= repo'.made /\ x.commit \in Nat
  <2>1. x.commit \in Nat
    BY <1>x, <1>1 DEF Change
  <2>2. x.commit <= repo.made
    BY <1>x, <1>1 DEF CommitInv
  <2> QED
    BY <1>m, <2>1, <2>2
<1>2. ASSUME NEW b \in Branches, repo'.tip[b] # None
      PROVE  /\ repo'.tip[b].id <= repo'.made
             /\ Files(repo'.tip[b].tree) \subseteq repo'.tip[b].held
             /\ \A x \in disk'.changes :
                   x.status = "committed" /\ x.commit = repo'.tip[b].id =>
                       Within(repo'.tip[b], x.paths)
  <2>1. CASE \E c \in Branches : repo'.tip[b] = Tip(c)
    <3>1. PICK c \in Branches : repo'.tip[b] = Tip(c)
      BY <2>1
    <3>2. Tip(c) # None /\ Tip(c).id \in Nat /\ Tip(c).id <= repo.made
          /\ Files(Tip(c).tree) \subseteq Tip(c).held
      BY <1>2, <1>n, <3>1 DEF CommitInv
    <3>3. ASSUME NEW x \in disk'.changes, x.status = "committed", x.commit = Tip(c).id
          PROVE  Within(Tip(c), x.paths)
      BY <1>x, <3>2, <3>3 DEF CommitInv
    <3>4. Tip(c).id <= repo'.made
      BY <1>m, <3>2
    <3> QED
      BY <3>1, <3>2, <3>3, <3>4
  <2>2. ASSUME NEW tree, NewCommit(b, tree), MakeCommit \/ Revert
        PROVE  /\ repo'.tip[b].id <= repo'.made
               /\ Files(repo'.tip[b].tree) \subseteq repo'.tip[b].held
               /\ \A x \in disk'.changes :
                     x.status = "committed" => x.commit # repo'.tip[b].id
    <3>1. disk' = disk
      BY <2>2 DEF MakeCommit, Revert
    <3>2. \A x \in disk'.changes : x.status = "committed" => x.commit <= repo.made /\ x.commit \in Nat
      BY <1>a, <3>1 DEF CommitInv, Task, Change
    <3> QED
      BY <1>m, <2>2, <3>2 DEF NewCommit
  <2> QED
    BY <1>2, <1>m, <2>1, <2>2 DEF TipMoves
<1>3. ASSUME call'.pc = "branch"
      PROVE  /\ call'.n <= repo'.made
             /\ \A b \in Branches : repo'.tip[b] # None /\ repo'.tip[b].id = call'.n =>
                                       Within(repo'.tip[b], call'.change.paths)
  <2>1. CASE UNCHANGED vars
    BY <1>3, <2>1 DEF vars, CommitInv, At, Tip
  <2>2. CASE MakeCommit /\ call'.n = repo.made + 1 /\ call'.change = call.change
    <3>1. repo'.made = repo.made + 1
      <4>1. repo.made < MaxCommits /\ repo' = Committed(Staged)
        BY <2>2 DEF MakeCommit, Staged
      <4> QED
        BY <1>a, <4>1, StagedType, CommittedDoes
    <3>2. ASSUME NEW b \in Branches, repo'.tip[b] # None, repo'.tip[b].id = call'.n
          PROVE  Within(repo'.tip[b], call.change.paths)
      <4>1. CASE \E c \in Branches : repo'.tip[b] = Tip(c)
        <5>1. PICK c \in Branches : repo'.tip[b] = Tip(c)
          BY <4>1
        <5>2. Tip(c).id \in Nat /\ Tip(c).id <= repo.made
          BY <1>n, <3>2, <5>1 DEF CommitInv
        <5> QED
          BY <1>m, <2>2, <3>2, <5>1, <5>2
      <4>2. CASE NewCommit(b, Staged)
        BY <1>a, <4>2, StagedType DEF NewCommit, Within
      <4>3. ~Revert
        BY <2>2 DEF MakeCommit, Revert, At
      <4> QED
        BY <1>m, <3>2, <4>1, <4>2, <4>3 DEF TipMoves
    <3> QED
      BY <1>m, <2>2, <3>1, <3>2
  <2> QED
    BY <1>3, <2>1, <2>2, ChangeStep
<1>4. ASSUME call'.pc = "revert"
      PROVE  \A k \in call'.change.paths : work'[k] = CheckedOut'.tree[k]
  <2>1. CASE UNCHANGED vars
    BY <1>4, <2>1 DEF vars, CommitInv, At, CheckedOut, Tip
  <2>2. ASSUME NEW x \in disk.changes, Switch(x), call'.change = x
        PROVE  \A k \in x.paths : work'[k] = CheckedOut'.tree[k]
    <3>1. /\ Dirty(work, CheckedOut, x.paths) = {} /\ Tip(x.branch) # None
          /\ work' = Switched(Tip(x.branch)) /\ repo' = [repo EXCEPT !.at = x.branch]
      BY <2>2 DEF Switch
    <3>2. x.branch \in Branches /\ x.paths \subseteq Keys
      BY <1>a DEF Task, Change
    <3>3. CheckedOut' = Tip(x.branch)
      BY <1>a, <3>1 DEF CheckedOut, Tip, Types, Repo
    <3>4. \A k \in x.paths : work[k] = CheckedOut.tree[k]
      BY <3>1 DEF Dirty
    <3>5. \A k \in x.paths : work'[k] = IF CheckedOut.tree[k] # Tip(x.branch).tree[k]
                                        THEN Tip(x.branch).tree[k] ELSE work[k]
      BY <3>1, <3>2 DEF Switched
    <3> QED
      BY <3>3, <3>4, <3>5
  <2> QED
    BY <1>4, <2>1, <2>2, ChangeStep
<1>5. /\ \A x \in disk'.changes : x.status \in {"committed", "reverted"} => x.commit <= repo'.made
      /\ \A b \in Branches : repo'.tip[b] # None =>
            /\ repo'.tip[b].id <= repo'.made
            /\ Files(repo'.tip[b].tree) \subseteq repo'.tip[b].held
            /\ \A x \in disk'.changes : x.status = "committed" /\ x.commit = repo'.tip[b].id =>
                                           Within(repo'.tip[b], x.paths)
  BY <1>1, <1>2
<1> QED
  BY <1>3, <1>4, <1>5 DEF CommitInv, At, Tip, Within, Files

LEMMA CommitInit == Init => CommitInv
<1> SUFFICES ASSUME Init PROVE CommitInv
  OBVIOUS
<1>1. call.pc = "idle" /\ disk.changes = {}
  BY IdleType DEF Init
<1>2. PICK tracked \in SUBSET {p \in Paths : work[p] # Absent} :
        LET tree == [k \in Keys |-> IF k \in tracked THEN work[k] ELSE Absent] IN
        repo = [at |-> Main, made |-> 0,
                tip |-> [b \in Branches |->
                            IF b = Main THEN [id |-> 0, tree |-> tree, parent |-> tree, past |-> {0},
                                              held |-> Files(tree)]
                            ELSE None]]
  BY DEF Init
<1> DEFINE tree == [k \in Keys |-> IF k \in tracked THEN work[k] ELSE Absent]
           first == [id |-> 0, tree |-> tree, parent |-> tree, past |-> {0}, held |-> Files(tree)]
<1>3. first.id = 0 /\ first.tree = tree /\ first.held = Files(tree)
  OBVIOUS
<1>4. repo.tip = [b \in Branches |-> IF b = Main THEN first ELSE None] /\ repo.made = 0
  BY <1>2
<1> HIDE DEF tree, first
<1>5. \A b \in Branches : Tip(b) # None => Tip(b).id <= repo.made
                                           /\ Files(Tip(b).tree) \subseteq Tip(b).held
  BY <1>3, <1>4 DEF Tip
<1> QED
  BY <1>1, <1>5 DEF CommitInv, At

\* What a user had in a file is there, or in a place that lasts, or an attempt
\* in progress began with it.
Lasts(p) ==
    \/ mine[p] = Absent \/ p \in forced
    \/ \E e \in Exports : <<e, p>> \in torn \/ Content[e][p] = mine[p]
    \/ \E e \in Exports : Final(e) /\ backup[e][p] = mine[p]
    \/ \E b \in Branches : Tip(b) # None /\ <<p, mine[p]>> \in Tip(b).held

Begun(p) ==
    Attempting /\ p \in PathsOf(call.export) /\ origin[call.export][p] = mine[p]

KeptInv == \A p \in Paths : work[p] = mine[p] \/ Lasts(p) \/ Begun(p)

\* What becomes of an attempt.
LEMMA AttemptLeads ==
    ASSUME TypeInv, Attempting, [Next]_vars
    PROVE  \/ Attempting' /\ call'.export = call.export /\ origin' = origin
           \/ Completed \/ Undone \/ Crash
<1>a. call \in Call /\ call.pc \in {"backup", "write", "record", "undo"}
  BY TypeFacts DEF TypeInv, Attempting
<1>1. ASSUME BackUp \/ Write \/ WriteLog \/ Fails \/ Undo
      PROVE  Attempting' /\ call'.export = call.export /\ origin' = origin
  <2>1. origin' = origin
    BY <1>1 DEF BackUp, Write, WriteLog, Fails, Undo, Untouched
  <2>2. call'.pc \in {"backup", "write", "record", "undo"}
    BY <1>1, CallLeads
  <2>3. call'.export = call.export
    BY <1>1, <1>a, MovesDoes DEF BackUp, Write, WriteLog, Fails, Undo, Call
  <2> QED
    BY <2>1, <2>2, <2>3 DEF Attempting
<1>2. ASSUME UNCHANGED vars PROVE Attempting' /\ call'.export = call.export /\ origin' = origin
  BY <1>2 DEF vars, Attempting
<1>3. ASSUME \/ \E e \in Exports : \/ Prepare(e) \/ Execute(e) \/ \E f \in BOOLEAN : RollBack(e, f)
                                   \/ \E b \in Branches : PrepareChange(e, b)
             \/ (\E t : ExportDirectly(t)) \/ (\E p \in Paths : Edit(p))
             \/ (\E b \in Branches : CheckOut(b)) \/ Recheck
      PROVE  FALSE
  BY <1>3, <1>a DEF Prepare, Execute, RollBack, PrepareChange, ExportDirectly, Edit, CheckOut,
                    Recheck, Free, At
<1>4. ASSUME Restore \/ RolledBack \/ Stamp \/ Changing PROVE FALSE
  BY <1>4, <1>a DEF Restore, RolledBack, Stamp, Changing, Branch, Switch, MakeCommit, CommitFails,
                    Unbranch, RecordCommit, Revert, RecordRevert, Free, At
<1> QED
  BY <1>1, <1>2, <1>3, <1>4 DEF Next, Exporting

\* What the users and the crashes have done is not forgotten, but by an edit.
LEMMA HistoryStep ==
    ASSUME TypeInv, [Next]_vars
    PROVE  /\ torn \subseteq torn'
           /\ \A p \in Paths : Edit(p) \/ (mine'[p] = mine[p] /\ (p \in forced => p \in forced'))
<1>a. mine \in [Paths -> File]
  BY TypeFacts DEF TypeInv
<1>q. ASSUME UNCHANGED <<mine, torn>>, forced \subseteq forced'
      PROVE  /\ torn \subseteq torn'
             /\ \A p \in Paths : mine'[p] = mine[p] /\ (p \in forced => p \in forced')
  BY <1>q
<1>1. ASSUME NEW p \in Paths, Edit(p)
      PROVE  /\ torn \subseteq torn'
             /\ \A q \in Paths : q # p => mine'[q] = mine[q] /\ (q \in forced => q \in forced')
  BY <1>1, <1>a DEF Edit
<1>2. ASSUME Untouched PROVE UNCHANGED <<mine, torn>> /\ forced \subseteq forced'
  BY <1>2 DEF Untouched
<1>3. ASSUME NEW e \in Exports, Execute(e) \/ \E f : RollBack(e, f)
      PROVE  UNCHANGED <<mine, torn>> /\ forced \subseteq forced'
  BY <1>3 DEF Execute, RollBack
<1>4. ASSUME Crash
      PROVE  /\ torn \subseteq torn'
             /\ \A p \in Paths : mine'[p] = mine[p] /\ (p \in forced => p \in forced')
  BY <1>4 DEF Crash
<1>5. ASSUME \/ BackUp \/ Write \/ WriteLog \/ Completed \/ Fails \/ Undo \/ Undone \/ Restore
             \/ RolledBack \/ Stamp \/ Changing \/ Recheck
      PROVE  Untouched
  BY <1>5 DEF BackUp, Write, WriteLog, Completed, Fails, Undo, Undone, Restore, RolledBack, Stamp,
              Changing, Branch, Switch, MakeCommit, CommitFails, Unbranch, RecordCommit, Revert,
              RecordRevert, Recheck
<1>6. ASSUME \/ \E e \in Exports : Prepare(e) \/ \E b \in Branches : PrepareChange(e, b)
             \/ (\E t : ExportDirectly(t)) \/ (\E b \in Branches : CheckOut(b))
      PROVE  Untouched
  BY <1>6 DEF Prepare, PrepareChange, ExportDirectly, CheckOut
<1>7. ASSUME UNCHANGED vars PROVE UNCHANGED <<mine, torn>> /\ forced \subseteq forced'
  BY <1>7 DEF vars
<1> QED
  BY <1>q, <1>1, <1>2, <1>3, <1>4, <1>5, <1>6, <1>7 DEF Next, Exporting

LEMMA KeptStep ==
    TypeInv /\ RollbackInv /\ CommitInv /\ KeptInv /\ [Next]_vars => KeptInv'
<1> SUFFICES ASSUME TypeInv, RollbackInv, CommitInv, KeptInv, [Next]_vars, NEW p \in Paths
             PROVE  (work[p] = mine[p] \/ Lasts(p) \/ Begun(p))'
  BY DEF KeptInv
<1>a. /\ Types /\ CallOK /\ call \in Call /\ disk \in Task /\ repo.at \in Branches
      /\ CheckedOut = Tip(repo.at) /\ CheckedOut # None /\ CheckedOut \in Commit /\ p \in Keys
  BY TypeFacts, KeyParts DEF TypeInv, Types, Repo, CheckedOut
<1>e. CASE Edit(p)
  <2>1. work'[p] = Edited /\ mine'[p] = Edited
    BY <1>a, <1>e, TreeFits DEF Edit, Types
  <2> QED
    BY <2>1
<1>f. CASE ~Edit(p)
  <2>h. mine'[p] = mine[p] /\ (p \in forced => p \in forced') /\ torn \subseteq torn'
    BY <1>f, HistoryStep
  \* What lasts does so after the step.
  <2>l. ASSUME Lasts(p) PROVE Lasts(p)'
    <3>1. CASE \E e \in Exports : Final(e) /\ backup[e][p] = mine[p]
      <4>1. \E e \in Exports : Final(e)' /\ backup'[e][p] = mine[p]
        BY <3>1, FinalStays
      <4> QED
        BY <2>h, <4>1 DEF Lasts
    <3>2. CASE \E b \in Branches : Tip(b) # None /\ <<p, mine[p]>> \in Tip(b).held
      <4>1. \E b \in Branches : repo'.tip[b] # None /\ <<p, mine[p]>> \in repo'.tip[b].held
        BY <3>2, TipsGrow
      <4> QED
        BY <2>h, <4>1 DEF Lasts, Tip
    <3>3. CASE \/ mine[p] = Absent \/ p \in forced
               \/ \E e \in Exports : <<e, p>> \in torn \/ Content[e][p] = mine[p]
      BY <2>h, <3>3 DEF Lasts
    <3> QED
      BY <2>l, <3>1, <3>2, <3>3 DEF Lasts
  \* A file that a commit has lasts.
  <2>t. ASSUME NEW b \in Branches, Tip(b) # None, Tip(b).tree[p] = mine[p] PROVE Lasts(p)
    <3>1. <<p, mine[p]>> \in Files(Tip(b).tree) /\ Files(Tip(b).tree) \subseteq Tip(b).held
      BY <2>t DEF Files, CommitInv
    <3> QED
      BY <2>t, <3>1 DEF Lasts
  <2>1. CASE Lasts(p)
    BY <2>l, <2>1
  <2>2. CASE Begun(p)
    <3>e. PICK e \in Exports : e = call.export
      BY <1>a, <2>2 DEF Begun, CallOK, InExport, Attempting
    <3>1. Attempting /\ p \in PathsOf(e) /\ origin[e][p] = mine[p]
      BY <2>2, <3>e DEF Begun
    <3>2. /\ disk.rec[e] = "ready" /\ call.task = disk
          /\ \A i \in 1..Len(Items[e]) : Tried(e, i)
      BY <1>a, <3>e, <3>1 DEF CallOK, InExport, Attempting, RollbackInv, AttemptInv
    <3>3. PICK i \in 1..Len(Items[e]) : p = Items[e][i]
      BY <3>1, ItemParts
    <3>4. CASE Attempting' /\ call'.export = call.export /\ origin' = origin
      BY <2>h, <3>e, <3>1, <3>4 DEF Begun, PathsOf
    <3>5. CASE Completed
      <4>1. i <= Done /\ UNCHANGED <<backup, forced, mine>>
        BY <3>e, <3>5, ItemParts DEF Completed, Done, At, Untouched
      <4>2. origin[e][p] = Absent \/ backup'[e][p] = mine[p]
        BY <3>1, <3>2, <3>3, <4>1 DEF Tried
      <4>3. Final(e)'
        <5>1. disk' = Persist(disk, e, "completed")
          BY <3>e, <3>2, <3>5 DEF Completed
        <5> QED
          BY <1>a, <5>1, EndRecord DEF Final
      <4> QED
        BY <2>h, <3>1, <4>2, <4>3 DEF Lasts
    <3>6. CASE Undone
      <4>1. ~IsUndone(e)
        BY <3>2 DEF IsUndone
      <4>2. IsUndone(e)'
        <5>1. disk' = Persist(disk, e, "failed")
          BY <3>e, <3>2, <3>6 DEF Undone
        <5> QED
          BY <1>a, <5>1, EndRecord DEF IsUndone
      <4>3. work'[p] = origin[e][p]
        BY <3>e, <3>1, <4>1, <4>2, UndoneRestores
      <4> QED
        BY <2>h, <3>1, <4>3
    <3>7. CASE Crash
      <4>1. /\ work' = work /\ torn' = torn \cup {<<e, q>> : q \in {r \in PathsOf(e) : work[r] # origin[e][r]}}
        BY <3>e, <3>1, <3>7 DEF Crash, Attempting, At
      <4>2. work[p] # origin[e][p] => <<e, p>> \in torn'
        BY <3>1, <4>1
      <4> QED
        BY <2>h, <3>1, <4>1, <4>2 DEF Lasts
    <3> QED
      BY <3>1, <3>4, <3>5, <3>6, <3>7, AttemptLeads
  <2>3. CASE work[p] = mine[p]
    <3>k. WorkMoves(p)
      BY <1>a, WorkStep
    <3>1. CASE work'[p] = work[p]
      BY <2>h, <2>3, <3>1
    \* An attempt overwrites what it began with, or what it wrote itself.
    <3>2. ASSUME ((Write \/ Fails) /\ At("write")) \/ Undo, p = Item PROVE Lasts(p) \/ Begun(p)
      <4> DEFINE e == call.export
      <4>1. /\ Attempting /\ e \in Exports /\ Len(Items[e]) \in Nat
            /\ call.n \in 1..Len(Items[e])
        BY <1>a, <3>2, ItemParts DEF CallOK, At, InExport, Undo, Attempting
      <4>2. p = Items[e][call.n] /\ p \in PathsOf(e) /\ Tried(e, call.n)
        BY <3>2, <4>1, ItemParts DEF Item, RollbackInv, AttemptInv
      <4>3. work[p] \in {origin[e][p], Content[e][p]}
        BY <4>2 DEF Tried
      <4> QED
        BY <2>3, <4>1, <4>2, <4>3 DEF Begun, Lasts
    <3>3. ASSUME Restore, p = Item PROVE Lasts(p)
      <4> DEFINE e == call.export
      <4>1. At("restore") /\ e \in Exports /\ Len(Items[e]) \in Nat /\ call.n \in 1..Len(Items[e])
        BY <1>a, <3>3, ItemParts DEF CallOK, At, InExport, Restore
      <4>2. p = Items[e][call.n] /\ PutBack(e, call.n)
        BY <3>3, <4>1 DEF Item, RollbackInv, RestoreInv
      <4>3. work[p] = Content[e][p] \/ p \in forced
        BY <4>1, <4>2 DEF PutBack
      <4> QED
        BY <2>3, <4>1, <4>3 DEF Lasts
    <3>4. ASSUME work[p] = CheckedOut.tree[p] PROVE Lasts(p)
      BY <1>a, <2>3, <2>t, <3>4
    <3>5. ASSUME At("revert"), CheckedOut.id = call.change.commit,
                 CheckedOut.parent[p] # CheckedOut.tree[p]
          PROVE  Lasts(p)
      <4>1. call.change \in disk.changes /\ call.change.status = "committed"
        BY <1>a, <3>5 DEF CallOK, At, InChange
      <4>2. Within(CheckedOut, call.change.paths)
        BY <1>a, <3>5, <4>1 DEF CommitInv
      <4>3. p \in call.change.paths
        BY <1>a, <3>5, <4>2 DEF Within
      <4>4. work[p] = CheckedOut.tree[p]
        BY <3>5, <4>3 DEF CommitInv
      <4> QED
        BY <3>4, <4>4
    <3>6. \A e \in Exports : p # Out(e)
      BY KeyParts
    <3>7. ASSUME WriteLog \/ Stamp PROVE p # Log(call.export)
      BY <1>a, <3>7, KeyParts DEF WriteLog, Stamp, CallOK, At, InExport
    <3>8. work'[p] = work[p] \/ Lasts(p) \/ Begun(p)
      BY <1>f, <3>k, <3>2, <3>3, <3>4, <3>5, <3>6, <3>7 DEF WorkMoves
    <3> QED
      BY <2>1, <2>2, <3>1, <3>8
  <2> QED
    BY <2>1, <2>2, <2>3 DEF KeptInv
<1> QED
  BY <1>e, <1>f

\* What a user had in a project file is still in the file, in a backup or in a
\* commit that a branch has, or is what an export writes there itself, unless
\* somebody forced a rollback over it or an attempt died that had written the
\* file (backup, rollback's conflicts, git's refusals), for any exports, any
\* branches and any number of edits, commits and crashes.
THEOREM NothingLost == Spec => []NothingIsLost
<1> DEFINE Inv == TypeInv /\ RollbackInv /\ CommitInv /\ KeptInv
<1>1. Init => Inv
  <2>1. Init => KeptInv
    BY DEF Init, KeptInv
  <2> QED
    BY <2>1, InitTypeInv, RollbackInit, CommitInit
<1>2. Inv /\ [Next]_vars => Inv'
  BY StepTypeInv, RollbackStep, CommitStep, KeptStep
<1>3. Inv => NothingIsLost
  <2> SUFFICES ASSUME Inv, NEW p \in Paths
               PROVE  \/ mine[p] = Absent \/ work[p] = mine[p] \/ p \in forced
                      \/ \E e \in Exports : <<e, p>> \in torn \/ Content[e][p] = mine[p]
                      \/ \E e \in Exports : backup[e][p] = mine[p]
                      \/ \E b \in Branches : Tip(b) # None /\ <<p, mine[p]>> \in Tip(b).held
    BY DEF NothingIsLost
  <2>1. CASE Begun(p)
    \* An attempt has the file in its backup, or has not changed it.
    <3> DEFINE e == call.export
    <3>1. Attempting /\ p \in PathsOf(e) /\ origin[e][p] = mine[p]
      BY <2>1 DEF Begun
    <3>2. e \in Exports /\ call.n \in Nat /\ Len(Items[e]) \in Nat
          /\ \A i \in 1..Len(Items[e]) : Tried(e, i)
      BY <3>1, ItemParts
         DEF TypeInv, Types, Call, CallOK, InExport, Attempting, RollbackInv, AttemptInv
    <3>3. PICK i \in 1..Len(Items[e]) : p = Items[e][i]
      BY <3>1, <3>2, ItemParts
    <3>4. i \in Nat /\ Tried(e, i)
      BY <3>2
    <3>5. CASE i <= Done
      BY <3>1, <3>2, <3>3, <3>4, <3>5 DEF Tried
    <3>6. CASE ~(i <= Done)
      <4>1. ~At("record")
        BY <3>2, <3>6 DEF Done, At
      <4>2. i > Done
        BY <3>2, <3>4, <3>6, <4>1 DEF Done
      <4>3. work[p] = origin[e][p]
        BY <3>1, <3>2, <3>3, <3>4, <4>1, <4>2 DEF Tried, Attempting, At, Done
      <4> QED
        BY <3>1, <4>3
    <3> QED
      BY <3>5, <3>6
  <2>2. CASE work[p] = mine[p] \/ Lasts(p)
    BY <2>2 DEF Lasts
  <2> QED
    BY <2>1, <2>2 DEF KeptInv
<1> QED
  BY <1>1, <1>2, <1>3, PTL DEF Spec
=============================================================================
