------------------------ MODULE TaskProductionProofs ------------------------
(***************************************************************************)
(* Proofs about TaskProduction, for all artifacts, plans and bounds and for*)
(* any number of calls in progress.                                        *)
(*                                                                         *)
(* The task file is overwritten with copies of any age.  What makes its    *)
(* invariants hold nevertheless is that they are facts about one task,     *)
(* which every copy keeps: Sound is kept by each operation on a task, and  *)
(* the task file and every copy is sound.                                  *)
(***************************************************************************)
EXTENDS TaskProduction, FiniteSetTheorems, TLAPS

\* The gate of a stored report.
Gated(t) ==
    /\ t.qaPassed => t.approval = "approved"
    /\ t.gate => t.qaPassed /\ Reviewed(t)

\* What has given way, to whom, and what allowed it; a revision has a source.
Lineage(t) ==
    /\ \A a \in Registry(t) : t.arts[a].qa = "passed" => a \in t.passedEver
    /\ \A a \in Registry(t) : t.arts[a].linked => JobOf[a] \in Plans
    /\ \A a \in Registry(t) : t.arts[a].by # None => Earned(t, a, t.arts[a].by)
    /\ Registry(t) # {} => Active(t) # {}
    /\ \A p \in Plans : HasJob(t, p) \/ p \in t.approvedEver => SourceOf[p] \in Registry(t)

\* A task has one handoff that waits while it waits for it, none while tools
\* may be asked, and one at most when it is cancelled.
Waits(t) ==
    /\ t.status \in {"completed", "waiting-for-tool"} => t.waiting = {}
    /\ t.status = "waiting-for-tool-result" => \E h : t.waiting = {h}
    /\ t.status = "cancelled" => t.waiting = {} \/ \E h : t.waiting = {h}

\* Every revision that is worked on, or was, has been approved.
Approved(t, j) == j \in {Main} \cup t.approvedEver

Approvals(t) ==
    /\ \A p \in Plans : t.decision[p] = "approved" => p \in t.approvedEver
    /\ \A a \in Registry(t) : Approved(t, JobOf[a])
    /\ \A h \in t.waiting : Approved(t, h[2])

Sound(t) == t \in Task /\ Gated(t) /\ Lineage(t) /\ Waits(t) /\ Approvals(t)

\* A call and the copy it works on.
SoundCall(call) ==
    /\ call \in Call
    /\ call.pc \in {"run", "mark", "link", "look"} => Sound(call.task)
    /\ call.pc = "run" => /\ call.task.status \in {"completed", "waiting-for-tool"}
                          /\ Approved(call.task, call.job)
                          /\ call.job \in Jobs
    /\ call.pc \in {"mark", "link"} => call.job \in Plans \cap call.task.approvedEver
    /\ call.pc \in {"review", "load", "look", "cleanup", "abort", "record"}
            => call.art \in Artifacts
    /\ call.pc = "look" => call.art \in Registry(call.task)
    /\ call.pc \in {"load", "look", "cleanup", "abort", "record"} /\ call.job # None
            => call.job = JobOf[call.art] /\ call.job \in Plans
    /\ call.pc \in {"cleanup", "abort", "record"} => call.job # None

IInv ==
    /\ Sound(disk)
    /\ caller \in [Callers -> Call]
    /\ \A c \in Callers : SoundCall(caller[c])

-----------------------------------------------------------------------------
(* Operations on a task *)

\* An artifact of the registry is a record.
LEMMA RegistryType ==
    ASSUME NEW t \in Task
    PROVE  /\ Registry(t) \subseteq Artifacts
           /\ \A a \in Registry(t) : t.arts[a] \in Artifact
           /\ Cardinality(Registry(t)) \in Nat
<1>1. Registry(t) \subseteq Artifacts /\ \A a \in Registry(t) : t.arts[a] \in Artifact
    BY DEF Registry, Task
<1>2. IsFiniteSet(Registry(t))
    BY <1>1, JobAssumption, FS_Subset
<1> QED BY <1>1, <1>2, FS_CardinalityType

\* A change of other fields: what Sound says of a task depends on few.
Same(t, u) ==
    /\ u.arts = t.arts /\ u.decision = t.decision
    /\ u.approvedEver = t.approvedEver /\ u.passedEver = t.passedEver
    /\ \A p \in Plans : HasJob(u, p) => HasJob(t, p) \/ p \in t.approvedEver

\* What is true of the parts of a task stays true while those parts stay.
LEMMA SameIsSound ==
    ASSUME NEW t, NEW u, Same(t, u)
    PROVE  /\ Lineage(t) => Lineage(u)
           /\ Approvals(t) /\ u.waiting = t.waiting => Approvals(u)
           /\ Waits(t) /\ u.waiting = t.waiting /\ u.status = t.status => Waits(u)
           /\ Gated(t) /\ u.gate = t.gate /\ u.qaPassed = t.qaPassed
                       /\ u.approval = t.approval => Gated(u)
<1>1. Registry(u) = Registry(t)
    BY DEF Same, Registry
<1>2. Active(u) = Active(t)
    BY <1>1 DEF Same, Active
<1>3. Reviewed(u) = Reviewed(t)
    BY <1>2 DEF Same, Reviewed
<1>4. Lineage(t) => Lineage(u)
    BY <1>1, <1>2 DEF Lineage, Same, Earned
<1>5. Approvals(t) /\ u.waiting = t.waiting => Approvals(u)
    BY <1>1 DEF Approvals, Same, Approved
<1>6. Waits(t) /\ u.waiting = t.waiting /\ u.status = t.status => Waits(u)
    BY DEF Waits
<1>7. Gated(t) /\ u.gate = t.gate /\ u.qaPassed = t.qaPassed
               /\ u.approval = t.approval => Gated(u)
    BY <1>3 DEF Gated
<1> QED BY <1>4, <1>5, <1>6, <1>7

\* A report built anew closes the gate.
LEMMA RefreshSound ==
    ASSUME NEW t \in Task, Lineage(t), Waits(t), Approvals(t)
    PROVE  Sound(Refresh(t)) /\ Refresh(t).status = t.status
           /\ Refresh(t).approvedEver = t.approvedEver
<1> DEFINE u == Refresh(t)
<1>1. u \in Task
    BY DEF Refresh, Task
<1>2. /\ Same(t, u) /\ u.waiting = t.waiting /\ u.status = t.status
      /\ u.approval = t.approval /\ u.gate = FALSE
      /\ u.qaPassed = (t.approval = "approved" /\ t.injected = {})
    BY DEF Refresh, Task, Same, HasJob
<1>3. Gated(u)
    BY <1>2 DEF Gated
<1> QED BY <1>1, <1>2, <1>3, SameIsSound DEF Sound, Same

\* A gate that follows the artifacts is current.
LEMMA AggregateSound ==
    ASSUME NEW t \in Task, Lineage(t), Waits(t), Approvals(t),
           t.qaPassed => t.approval = "approved"
    PROVE  Sound(Aggregate(t))
<1> DEFINE u == Aggregate(t)
<1>1. u \in Task
    BY DEF Aggregate, Task, Reviewed
<1>2. /\ Same(t, u) /\ u.waiting = t.waiting /\ u.status = t.status
      /\ u.approval = t.approval /\ u.qaPassed = t.qaPassed
      /\ u.gate = (t.qaPassed /\ Reviewed(t))
    BY DEF Aggregate, Task, Same, HasJob
<1>3. Reviewed(u) = Reviewed(t)
    BY <1>2 DEF Same, Reviewed, Active, Registry
<1>4. Gated(u)
    BY <1>2, <1>3 DEF Gated
<1> QED BY <1>1, <1>2, <1>4, SameIsSound DEF Sound

\* Registering adds one unseen, active artifact, or nothing.
LEMMA RegisterSound ==
    ASSUME NEW t \in Task, Lineage(t), Approvals(t),
           NEW a \in Artifacts, Approved(t, JobOf[a])
    PROVE  LET u == Register(t, a) IN
           /\ u \in Task /\ Lineage(u) /\ Approvals(u)
           /\ u.waiting = t.waiting /\ u.approvedEver = t.approvedEver
           /\ Registry(u) = Registry(t) \cup {a}
<1> DEFINE u == Register(t, a)
           new == [status |-> "registered", qa |-> "unseen", linked |-> FALSE,
                   by |-> None, no |-> Cardinality(Registry(t)) + 1]
<1>1. CASE a \in Registry(t)
    BY <1>1 DEF Register
<1>2. CASE a \notin Registry(t)
    <2>1. new \in Artifact
        BY RegistryType DEF Artifact, Verdict
    <2>2. u = [t EXCEPT !.arts[a] = new]
        BY <1>2 DEF Register
    <2>3. /\ t \in Task /\ t.arts \in [Artifacts -> Artifact \cup {None}]
          /\ u.arts = [t.arts EXCEPT ![a] = new]
          /\ u.arts \in [Artifacts -> Artifact \cup {None}]
        BY <2>1, <2>2 DEF Task
    <2>4. u \in Task
        BY <2>2, <2>3 DEF Task
    <2>5. /\ u.decision = t.decision /\ u.approvedEver = t.approvedEver
          /\ u.passedEver = t.passedEver /\ u.waiting = t.waiting /\ u.plan = t.plan
        BY <2>2, <2>3 DEF Task
    <2>6. Registry(u) = Registry(t) \cup {a}
        BY <2>1, <2>3, NoneAssumption DEF Registry
    <2>7. u.arts[a] = new /\ \A b \in Registry(t) : u.arts[b] = t.arts[b]
        BY <1>2, <2>3, RegistryType
    <2>8. a \in Active(u)
        BY <2>6, <2>7 DEF Active
    <2>9. Lineage(u)
        BY <2>5, <2>6, <2>7, <2>8 DEF Lineage, Earned, HasJob
    <2>10. Approvals(u)
        BY <2>5, <2>6 DEF Approvals, Approved
    <2> QED BY <2>4, <2>5, <2>6, <2>9, <2>10
<1> QED BY <1>1, <1>2

\* A result is accepted: the task is completed and the gate closed.
LEMMA AcceptSound ==
    ASSUME NEW t \in Task, Lineage(t), Approvals(t), t.waiting = {},
           NEW a \in Artifacts, Approved(t, JobOf[a])
    PROVE  Sound(Accept(t, a)) /\ Accept(t, a).approvedEver = t.approvedEver
<1> DEFINE r == Register(t, a)
           u == [r EXCEPT !.status = "completed"]
<1>1. /\ r \in Task /\ Lineage(r) /\ Approvals(r)
      /\ r.waiting = t.waiting /\ r.approvedEver = t.approvedEver
    BY RegisterSound
<1> HIDE DEF r
<1>2. /\ u \in Task /\ Same(r, u) /\ u.waiting = r.waiting /\ u.status = "completed"
    BY <1>1 DEF Task, TaskStatus, Same, HasJob
<1>3. Lineage(u) /\ Approvals(u)
    BY <1>1, <1>2, SameIsSound
<1>4. Waits(u)
    BY <1>1, <1>2 DEF Waits
<1>5. Sound(Refresh(u)) /\ Refresh(u).approvedEver = u.approvedEver
    BY <1>2, <1>3, <1>4, RefreshSound
<1> QED BY <1>1, <1>2, <1>5 DEF Accept, r, Same

\* One artifact gives way to another that earned it.
LEMMA ReplaceSound ==
    ASSUME NEW t \in Task, Lineage(t), Waits(t), Approvals(t),
           t.qaPassed => t.approval = "approved",
           NEW old \in Registry(t), NEW new \in Registry(t), Earned(t, old, new)
    PROVE  Sound(Aggregate(Replace(t, old, new)))
<1> DEFINE u == Replace(t, old, new)
           x == [t.arts[old] EXCEPT !.status = "stale", !.by = new]
           half == [t.arts EXCEPT ![old] = x]
           y == [half[new] EXCEPT !.status = "registered"]
<1>1. /\ old \in Artifacts /\ new \in Artifacts
      /\ t.arts \in [Artifacts -> Artifact \cup {None}]
      /\ \A a \in Registry(t) : t.arts[a] \in Artifact
    BY RegistryType DEF Task
<1>2. x \in Artifact /\ x.qa = t.arts[old].qa /\ x.linked = t.arts[old].linked /\ x.by = new
    BY <1>1 DEF Artifact
<1>3. half[new] \in Artifact
    BY <1>1, <1>2
<1>4. /\ y \in Artifact /\ y.status = "registered" /\ y.qa = half[new].qa
      /\ y.linked = half[new].linked /\ y.by = half[new].by
    BY <1>3 DEF Artifact
<1>5. u.arts = [half EXCEPT ![new] = y]
    BY <1>1 DEF Replace, Task
<1>6. u.arts \in [Artifacts -> Artifact \cup {None}]
    BY <1>1, <1>2, <1>4, <1>5
<1>7. /\ u \in Task
      /\ u.decision = t.decision /\ u.approvedEver = t.approvedEver
      /\ u.passedEver = t.passedEver /\ u.waiting = t.waiting
      /\ u.plan = t.plan /\ u.status = t.status
      /\ u.qaPassed = t.qaPassed /\ u.approval = t.approval
    <2>1. u = [t EXCEPT !.arts = [half EXCEPT ![new] = y]]
        BY <1>1 DEF Replace, Task
    <2>2. u = [t EXCEPT !.arts = u.arts]
        BY <1>5, <2>1
    <2> HIDE DEF half, x, y, u
    <2> QED BY <1>6, <2>2 DEF Task
<1>8. Registry(u) = Registry(t)
    BY <1>1, <1>2, <1>4, <1>5, <1>6, NoneAssumption DEF Registry
<1>9. \A a \in Registry(t) :
         /\ u.arts[a].qa = t.arts[a].qa /\ u.arts[a].linked = t.arts[a].linked
         /\ u.arts[a].by = IF a = old THEN new ELSE t.arts[a].by
    <2> TAKE a \in Registry(t)
    <2>1. /\ half[a] \in Artifact /\ half[a].qa = t.arts[a].qa
          /\ half[a].linked = t.arts[a].linked
          /\ half[a].by = IF a = old THEN new ELSE t.arts[a].by
        <3>1. CASE a = old
            BY <1>1, <1>2, <3>1
        <3>2. CASE a # old
            BY <1>1, <3>2
        <3> QED BY <3>1, <3>2
    <2> HIDE DEF x, y, u
    <2>2. half \in [Artifacts -> Artifact \cup {None}] /\ a \in Artifacts
        BY <1>1, <1>2, RegistryType
    <2> HIDE DEF half
    <2>3. u.arts[a] = IF a = new THEN y ELSE half[a]
        BY <1>5, <2>2
    <2> QED BY <1>4, <2>1, <2>3
<1>10. new \in Active(u)
    BY <1>1, <1>4, <1>5, <1>8 DEF Active
<1>11. Lineage(u)
    BY <1>7, <1>8, <1>9, <1>10 DEF Lineage, Earned, HasJob
<1>12. Approvals(u) /\ Waits(u)
    BY <1>7, <1>8 DEF Approvals, Approved, Waits
<1> QED BY <1>7, <1>11, <1>12, AggregateSound

\* What a review writes into the task it was loaded with.
LEMMA ReviewSound ==
    ASSUME NEW t, Sound(t), NEW a \in Registry(t), NEW eyes,
           NEW u \in Judged(t, a, eyes)
    PROVE  Sound(Aggregate(u))
<1> DEFINE qa(v) == [t EXCEPT !.arts[a].qa = v, !.reviews = @ + 1,
                              !.passedEver = IF v = "passed" THEN @ \cup {a} ELSE @]
<1>1. t \in Task /\ a \in Artifacts /\ t.arts \in [Artifacts -> Artifact \cup {None}]
      /\ \A b \in Registry(t) : t.arts[b] \in Artifact
    BY RegistryType DEF Sound, Task
<1>2. ASSUME NEW v \in Verdict
      PROVE  /\ qa(v) \in Task /\ Lineage(qa(v)) /\ Waits(qa(v)) /\ Approvals(qa(v))
             /\ qa(v).qaPassed => qa(v).approval = "approved"
    <2> DEFINE x == [t.arts[a] EXCEPT !.qa = v]
               w == qa(v)
    <2>1. /\ x \in Artifact /\ x.qa = v /\ x.linked = t.arts[a].linked
          /\ x.by = t.arts[a].by /\ x.status = t.arts[a].status
        BY <1>1, <1>2 DEF Artifact, Verdict
    <2>2. /\ w.arts = [t.arts EXCEPT ![a] = x]
          /\ w.passedEver = IF v = "passed" THEN t.passedEver \cup {a} ELSE t.passedEver
          /\ w.decision = t.decision /\ w.approvedEver = t.approvedEver
          /\ w.waiting = t.waiting /\ w.status = t.status /\ w.plan = t.plan
          /\ w.qaPassed = t.qaPassed /\ w.approval = t.approval
        BY <1>1 DEF Task
    <2>3. w \in Task
        <3>1. w = [t EXCEPT !.arts = [t.arts EXCEPT ![a] = x], !.reviews = t.reviews + 1,
                            !.passedEver = IF v = "passed" THEN t.passedEver \cup {a}
                                           ELSE t.passedEver]
            BY <1>1 DEF Task
        <3>2. [t.arts EXCEPT ![a] = x] \in [Artifacts -> Artifact \cup {None}]
            BY <1>1, <2>1
        <3> DEFINE arts == [t.arts EXCEPT ![a] = x]
                   ever == IF v = "passed" THEN t.passedEver \cup {a} ELSE t.passedEver
        <3>3. ever \in SUBSET Artifacts /\ t.reviews + 1 \in Nat
            BY <1>1 DEF Task
        <3>4. w = [t EXCEPT !.arts = arts, !.reviews = t.reviews + 1, !.passedEver = ever]
            BY <3>1
        <3> HIDE DEF w, x, arts, ever
        <3> QED BY <1>1, <3>2, <3>3, <3>4 DEF Task, arts
    <2> HIDE DEF w
    <2>4. Registry(w) = Registry(t)
        BY <1>1, <2>1, <2>2, NoneAssumption DEF Registry
    <2>5. \A b \in Registry(t) :
             /\ w.arts[b].qa = IF b = a THEN v ELSE t.arts[b].qa
             /\ w.arts[b].linked = t.arts[b].linked
             /\ w.arts[b].by = t.arts[b].by
             /\ w.arts[b].status = t.arts[b].status
        BY <1>1, <2>1, <2>2
    <2>6. Active(w) = Active(t)
        BY <2>4, <2>5 DEF Active
    <2>7. Lineage(w)
        BY <2>2, <2>4, <2>5, <2>6 DEF Lineage, Earned, Sound, HasJob
    <2>8. Approvals(w) /\ Waits(w)
        BY <2>2, <2>4 DEF Approvals, Approved, Waits, Sound
    <2>9. w.qaPassed => w.approval = "approved"
        BY <2>2 DEF Sound, Gated
    <2> QED BY <2>3, <2>7, <2>8, <2>9 DEF w
<1>3. ASSUME NEW w \in Task, Lineage(w), Waits(w), Approvals(w),
             w.qaPassed => w.approval = "approved", NEW p \in Plans
      PROVE  Sound(Aggregate(Propose(w, p)))
    <2> DEFINE z == Propose(w, p)
    <2>1. /\ z \in Task /\ Same(w, z) /\ z.waiting = w.waiting /\ z.status = w.status
          /\ z.qaPassed = w.qaPassed /\ z.approval = w.approval
        BY <1>3 DEF Propose, Task, Same, PlanStatus, HasJob
    <2>2. Lineage(z) /\ Waits(z) /\ Approvals(z)
        BY <1>3, <2>1, SameIsSound
    <2> QED BY <1>3, <2>1, <2>2, AggregateSound
<1>4. \/ \E v \in Verdict : u = qa(v)
      \/ \E v \in Verdict, p \in Plans : u = Propose(qa(v), p)
    BY DEF Judged, Findings, Verdict
<1> HIDE DEF qa
<1>5. CASE \E v \in Verdict : u = qa(v)
    BY <1>2, <1>5, AggregateSound
<1>6. CASE \E v \in Verdict, p \in Plans : u = Propose(qa(v), p)
    BY <1>2, <1>3, <1>6
<1> QED BY <1>4, <1>5, <1>6

\* An answered handoff is the only one, and its result is accepted.
LEMMA AnswerSound ==
    ASSUME Sound(disk), NEW h \in disk.waiting, NEW a \in Artifacts, JobOf[a] = h[2]
    PROVE  /\ Sound(Answer(h, a)) /\ Answer(h, a).approvedEver = disk.approvedEver
           /\ h[2] \in Jobs /\ Approved(disk, h[2])
<1> DEFINE u == [disk EXCEPT !.waiting = @ \ {h}]
<1>1. disk.waiting = {h}
    BY DEF Sound, Waits, Task, TaskStatus
<1>2. u \in Task /\ Same(disk, u) /\ u.waiting = {}
    BY <1>1 DEF Sound, Task, Same, HasJob
<1>3. Lineage(u) /\ Approvals(disk)
    BY <1>2, SameIsSound DEF Sound
<1>4. Approvals(u)
    BY <1>2, <1>3 DEF Approvals, Same, Approved, Registry
<1>5. Approved(disk, h[2]) /\ u.approvedEver = disk.approvedEver
    BY <1>2, <1>3 DEF Approvals, Same
<1>6. Approved(u, JobOf[a])
    BY <1>5 DEF Approved
<1>7. h[2] \in Jobs
    BY JobAssumption
<1> HIDE DEF u
<1>8. Sound(Accept(u, a)) /\ Accept(u, a).approvedEver = u.approvedEver
    BY <1>2, <1>3, <1>4, <1>6, AcceptSound
<1> QED BY <1>5, <1>7, <1>8 DEF Answer, u

\* What may be executed was approved, and nothing is waited for.
LEMMA ExecutableSound ==
    ASSUME NEW t, Sound(t), NEW j \in Jobs, Executable(t, j)
    PROVE  /\ Approved(t, j) /\ t.waiting = {}
           /\ t.status \in {"completed", "waiting-for-tool"}
BY DEF Executable, Sound, Approvals, Approved, Waits, Jobs

\* An attempt is counted, nothing else.
LEMMA AttemptedSound ==
    ASSUME NEW t, Sound(t)
    PROVE  /\ Sound(Attempted(t)) /\ Attempted(t).status = t.status
           /\ Attempted(t).approvedEver = t.approvedEver
           /\ Attempted(t).waiting = t.waiting
<1> DEFINE u == Attempted(t)
<1>1. /\ u \in Task /\ Same(t, u) /\ u.waiting = t.waiting /\ u.status = t.status
      /\ u.gate = t.gate /\ u.qaPassed = t.qaPassed /\ u.approval = t.approval
    BY DEF Sound, Task, Attempted, Same, HasJob
<1> QED BY <1>1, SameIsSound DEF Sound, Same

\* A task that waits for a tool or for the result of an approved job.
LEMMA PreparedSound ==
    ASSUME NEW t, Sound(t), NEW j \in Jobs, Executable(t, j), NEW u \in Prepared(t, j)
    PROVE  Sound(u) /\ u.approvedEver = t.approvedEver
<1> DEFINE w == Attempted(t)
           tool == [t EXCEPT !.status = "waiting-for-tool"]
           result == [w EXCEPT !.status = "waiting-for-tool-result",
                               !.waiting = @ \cup {<<t.attempts + 1, j>>}]
<1>1. Approved(t, j) /\ t.waiting = {}
    BY ExecutableSound
<1>2. Sound(tool) /\ tool.approvedEver = t.approvedEver
    <2>1. /\ tool \in Task /\ Same(t, tool) /\ tool.waiting = t.waiting
          /\ tool.gate = t.gate /\ tool.qaPassed = t.qaPassed
          /\ tool.approval = t.approval /\ tool.status = "waiting-for-tool"
        BY DEF Sound, Task, TaskStatus, Same, HasJob
    <2>2. Waits(tool)
        BY <1>1, <2>1 DEF Waits
    <2> QED BY <2>1, <2>2, SameIsSound DEF Sound, Same
<1>3. Sound(result) /\ result.approvedEver = t.approvedEver
    <2>1. Sound(w) /\ w.waiting = {} /\ w.approvedEver = t.approvedEver
        BY <1>1, AttemptedSound
    <2> DEFINE h == {<<t.attempts + 1, j>>}
    <2>2. h \in SUBSET (Nat \X Jobs)
        BY DEF Sound, Task
    <2> HIDE DEF w
    <2>3. result = [w EXCEPT !.status = "waiting-for-tool-result", !.waiting = h]
        BY <2>1
    <2> HIDE DEF h, result
    <2>4. /\ result \in Task /\ Same(w, result) /\ result.waiting = h
          /\ result.gate = w.gate /\ result.qaPassed = w.qaPassed
          /\ result.approval = w.approval /\ result.status = "waiting-for-tool-result"
        BY <2>1, <2>2, <2>3 DEF Sound, Task, TaskStatus, Same, HasJob
    <2>5. Waits(result)
        BY <2>4 DEF Waits, h
    <2>6. Lineage(result) /\ Gated(result)
        BY <2>1, <2>4, SameIsSound DEF Sound
    <2>7. Approvals(result)
        BY <1>1, <2>1, <2>4 DEF Sound, Approvals, Same, Approved, Registry, h
    <2> QED BY <2>1, <2>4, <2>5, <2>6, <2>7 DEF Sound, Same
<1> QED BY <1>2, <1>3 DEF Prepared

\* The job of a revision whose source is known changes its status.
LEMMA PlanSound ==
    ASSUME NEW t, Sound(t), NEW p \in Plans, NEW v \in PlanStatus,
           HasJob(t, p) \/ p \in t.approvedEver \/ SourceOf[p] \in Registry(t)
    PROVE  LET u == [t EXCEPT !.plan[p] = v] IN
           /\ Sound(u) /\ Registry(u) = Registry(t) /\ u.approvedEver = t.approvedEver
           /\ u.passedEver = t.passedEver /\ u.arts = t.arts
<1> DEFINE u == [t EXCEPT !.plan[p] = v]
<1>1. /\ u \in Task /\ u.arts = t.arts /\ u.decision = t.decision
      /\ u.approvedEver = t.approvedEver /\ u.passedEver = t.passedEver
      /\ u.waiting = t.waiting /\ u.status = t.status /\ u.gate = t.gate
      /\ u.qaPassed = t.qaPassed /\ u.approval = t.approval
      /\ u.plan = [t.plan EXCEPT ![p] = v]
    BY DEF Sound, Task
<1> HIDE DEF u
<1>2. Registry(u) = Registry(t) /\ Active(u) = Active(t)
    BY <1>1 DEF Registry, Active
<1>3. SourceOf[p] \in Registry(t)
    BY DEF Sound, Lineage
<1>4. \A q \in Plans \ {p} : HasJob(u, q) = HasJob(t, q)
    BY <1>1 DEF HasJob, Sound, Task
<1>5. Lineage(u)
    BY <1>1, <1>2, <1>3, <1>4 DEF Sound, Lineage, Earned
<1>6. Approvals(u) /\ Waits(u) /\ Gated(u)
    BY <1>1, <1>2 DEF Sound, Approvals, Approved, Waits, Gated, Reviewed
<1> QED BY <1>1, <1>2, <1>5, <1>6 DEF Sound, u

\* A result of a revision job gets its link.
LEMMA LinkSound ==
    ASSUME NEW t, Sound(t), NEW a \in Registry(t), JobOf[a] \in Plans
    PROVE  Sound([t EXCEPT !.arts[a].linked = TRUE, !.plan[JobOf[a]] = "review-pending"])
<1> DEFINE p == JobOf[a]
           x == [t.arts[a] EXCEPT !.linked = TRUE]
           w == [t EXCEPT !.arts[a].linked = TRUE]
           u == [t EXCEPT !.arts[a].linked = TRUE, !.plan[p] = "review-pending"]
<1>1. /\ t \in Task /\ t.arts \in [Artifacts -> Artifact \cup {None}]
      /\ a \in Artifacts /\ \A b \in Registry(t) : t.arts[b] \in Artifact
    BY RegistryType DEF Sound, Task
<1>2. /\ x \in Artifact /\ x.qa = t.arts[a].qa /\ x.by = t.arts[a].by
      /\ x.status = t.arts[a].status
    BY <1>1 DEF Artifact
<1>3. /\ w = [t EXCEPT !.arts = [t.arts EXCEPT ![a] = x]]
      /\ u = [w EXCEPT !.plan[p] = "review-pending"]
    BY <1>1 DEF Task
<1>4. /\ w.arts = [t.arts EXCEPT ![a] = x] /\ w.plan = t.plan
      /\ w.decision = t.decision /\ w.approvedEver = t.approvedEver
      /\ w.passedEver = t.passedEver /\ w.waiting = t.waiting /\ w.status = t.status
      /\ w.gate = t.gate /\ w.qaPassed = t.qaPassed /\ w.approval = t.approval
    BY <1>1, <1>3 DEF Task
<1> HIDE DEF w, u, x
<1>5. [t.arts EXCEPT ![a] = x] \in [Artifacts -> Artifact \cup {None}]
    BY <1>1, <1>2
<1>6. w \in Task
    BY <1>1, <1>3, <1>5 DEF Task
<1>7. Registry(w) = Registry(t)
    BY <1>1, <1>2, <1>4, NoneAssumption DEF Registry
<1>8. \A b \in Registry(t) :
         /\ w.arts[b].qa = t.arts[b].qa /\ w.arts[b].by = t.arts[b].by
         /\ w.arts[b].status = t.arts[b].status
         /\ b # a => w.arts[b].linked = t.arts[b].linked
    BY <1>1, <1>2, <1>4, RegistryType
<1>9. Active(w) = Active(t)
    BY <1>7, <1>8 DEF Active
<1>10. Lineage(w)
    BY <1>4, <1>7, <1>8, <1>9 DEF Sound, Lineage, Earned, HasJob
<1>11. Reviewed(w) = Reviewed(t)
    BY <1>8, <1>9 DEF Reviewed, Active
<1>12. Approvals(w) /\ Waits(w) /\ Gated(w)
    BY <1>4, <1>7, <1>11 DEF Sound, Approvals, Approved, Waits, Gated
<1>13. Sound(w) /\ p \in w.approvedEver
    BY <1>4, <1>6, <1>10, <1>12, JobAssumption DEF Sound, Approvals, Approved
<1>14. "review-pending" \in PlanStatus
    BY DEF PlanStatus
<1> QED BY <1>3, <1>13, <1>14, PlanSound DEF u

-----------------------------------------------------------------------------
(* Steps *)

\* A call that is over has no copy.
LEMMA IdleSound == SoundCall(Idle)
BY DEF SoundCall, Idle, Call

\* A step of a call that saves a sound task and goes on soundly.
LEMMA GoesSound ==
    ASSUME IInv, NEW c \in Callers, NEW call, SoundCall(call), Goes(c, call),
           Sound(disk')
    PROVE  IInv'
<1>1. \A d \in Callers : caller'[d] = IF d = c THEN call ELSE caller[d]
    BY DEF IInv, Goes
<1>2. caller' \in [Callers -> Call]
    BY DEF IInv, Goes, SoundCall
<1>3. \A d \in Callers : SoundCall(caller'[d])
    BY <1>1 DEF IInv
<1> QED BY <1>2, <1>3 DEF IInv

\* A call that returns leaves a sound file behind.
LEMMA ReturnSound ==
    ASSUME IInv, NEW c \in Callers, Return(c), Sound(disk')
    PROVE  IInv'
BY GoesSound, IdleSound DEF Return

\* A copy from which the call goes on with another phase.
LEMMA CopySound ==
    ASSUME NEW t, Sound(t), NEW j \in Jobs
    PROVE  /\ j \in Plans \cap t.approvedEver =>
                /\ SoundCall([Idle EXCEPT !.pc = "mark", !.task = t, !.job = j])
                /\ SoundCall([Idle EXCEPT !.pc = "link", !.task = t, !.job = j])
           /\ Approved(t, j) /\ t.status \in {"completed", "waiting-for-tool"} =>
                SoundCall([Idle EXCEPT !.pc = "run", !.task = t, !.job = j])
<1>1. t \in Task
    BY DEF Sound
<1>2. ASSUME NEW pc \in {"mark", "link", "run"}
      PROVE  LET call == [Idle EXCEPT !.pc = pc, !.task = t, !.job = j] IN
             call \in Call /\ call.pc = pc /\ call.task = t /\ call.job = j
    BY <1>1, <1>2 DEF Idle, Call
<1> QED BY <1>2 DEF SoundCall

\* The result of a job is saved.
LEMMA AcceptedSound ==
    ASSUME IInv, NEW c \in Callers, NEW j \in Jobs, NEW t, Sound(t),
           Approved(t, j), Accepted(c, j, t)
    PROVE  IInv'
<1>1. Sound(disk')
    BY DEF Accepted, Save
<1>2. CASE j = Main
    BY <1>1, <1>2, ReturnSound DEF Accepted
<1>3. CASE j # Main
    <2>1. j \in Plans \cap t.approvedEver
        BY <1>3 DEF Jobs, Approved
    <2> QED BY <1>1, <1>3, <2>1, CopySound, GoesSound DEF Accepted
<1> QED BY <1>2, <1>3

\* Steps that touch no call.
LEMMA QuickSound ==
    ASSUME IInv, Sound(disk'), UNCHANGED caller
    PROVE  IInv'
BY DEF IInv

\* A decision about the production refreshes the report.
LEMMA DecideStep ==
    ASSUME IInv, NEW d \in {"approved", "refused"}, Decide(d)
    PROVE  IInv'
<1> DEFINE u == [disk EXCEPT !.approval = d, !.decisions = @ + 1]
<1>1. /\ Sound(disk) /\ u \in Task /\ Same(disk, u) /\ u.waiting = disk.waiting
      /\ u.status = disk.status
    <2>1. Sound(disk) /\ disk \in Task
        BY DEF IInv, Sound
    <2> DEFINE n == disk.decisions + 1
    <2>2. n \in Nat
        BY <2>1 DEF Task
    <2>3. u = [disk EXCEPT !.approval = d, !.decisions = n]
        OBVIOUS
    <2> HIDE DEF n, u
    <2>4. u \in Task
        BY <2>1, <2>2, <2>3 DEF Task
    <2> QED BY <2>1, <2>3, <2>4 DEF Task, Same, HasJob
<1>2. Lineage(u) /\ Waits(u) /\ Approvals(u)
    BY <1>1, SameIsSound DEF Sound
<1> HIDE DEF u
<1>3. Sound(Refresh(u))
    BY <1>1, <1>2, RefreshSound
<1> QED BY <1>3, QuickSound DEF Decide, Save, u

\* A cancelled task may keep its handoff waiting.
LEMMA CancelWaitStep == ASSUME IInv, CancelWait PROVE IInv'
<1> DEFINE u == [disk EXCEPT !.status = "cancelled"]
<1>1. /\ Sound(disk) /\ u \in Task /\ Same(disk, u) /\ u.waiting = disk.waiting
      /\ u.status = "cancelled" /\ u.gate = disk.gate
      /\ u.qaPassed = disk.qaPassed /\ u.approval = disk.approval
    BY DEF IInv, Sound, Task, TaskStatus, Same, HasJob
<1>2. Waits(u)
    BY <1>1 DEF CancelWait, Sound, Waits
<1>3. Sound(u)
    BY <1>1, <1>2, SameIsSound DEF Sound
<1> QED BY <1>3, QuickSound DEF CancelWait, Save

\* A revision job is created for a plan whose source is active.
LEMMA CreateRevisionJobStep ==
    ASSUME IInv, NEW p \in Plans, CreateRevisionJob(p)
    PROVE  IInv'
<1>1. Sound(disk) /\ SourceOf[p] \in Registry(disk) /\ "approval-pending" \in PlanStatus
    BY DEF IInv, CreateRevisionJob, Revisable, Active, PlanStatus
<1>2. Sound([disk EXCEPT !.plan[p] = "approval-pending"])
    BY <1>1, PlanSound
<1> QED BY <1>2, QuickSound DEF CreateRevisionJob, Save

\* A decision about a revision, and the history of it.
LEMMA DecideRevisionStep ==
    ASSUME IInv, NEW p \in Plans, NEW d \in {"approved", "refused"}, DecideRevision(p, d)
    PROVE  IInv'
<1> DEFINE v == IF d = "approved" THEN "ready" ELSE "refused"
           w == [disk EXCEPT !.plan[p] = v]
           ever == IF d = "approved" THEN w.approvedEver \cup {p} ELSE w.approvedEver
           u == [w EXCEPT !.decisions = @ + 1, !.decision[p] = d, !.approvedEver = ever]
<1>1. Sound(w) /\ SourceOf[p] \in Registry(w)
    <2>1. Sound(disk) /\ HasJob(disk, p) /\ v \in PlanStatus
        BY DEF IInv, DecideRevision, PlanStatus
    <2>2. SourceOf[p] \in Registry(disk)
        BY <2>1 DEF Sound, Lineage
    <2> QED BY <2>1, <2>2, PlanSound
<1>2. disk' = u
    <2>1. disk \in Task /\ w.approvedEver = disk.approvedEver
        BY DEF IInv, Sound, Task
    <2>2. disk' = [disk EXCEPT !.decisions = @ + 1, !.decision[p] = d, !.plan[p] = v,
                               !.approvedEver = ever]
        BY <2>1 DEF DecideRevision, Save
    <2> HIDE DEF ever, v
    <2> QED BY <2>1, <2>2 DEF Task
<1> HIDE DEF w
<1>3. /\ u \in Task /\ u.arts = w.arts /\ u.passedEver = w.passedEver
      /\ u.plan = w.plan /\ u.waiting = w.waiting /\ u.status = w.status
      /\ u.gate = w.gate /\ u.qaPassed = w.qaPassed /\ u.approval = w.approval
      /\ u.decision = [w.decision EXCEPT ![p] = d] /\ u.approvedEver = ever
    <2>1. w \in Task /\ ever \in SUBSET Plans /\ w.decisions + 1 \in Nat
          /\ [w.decision EXCEPT ![p] = d] \in [Plans -> {"none", "approved", "refused"}]
        BY <1>1 DEF Sound, Task
    <2> HIDE DEF ever
    <2> QED BY <2>1 DEF Task
<1> HIDE DEF u
<1>4. Registry(u) = Registry(w) /\ Active(u) = Active(w)
    BY <1>3 DEF Registry, Active
<1>5. w.approvedEver \subseteq u.approvedEver
    BY <1>3
<1>6. Lineage(u)
    BY <1>1, <1>3, <1>4 DEF Sound, Lineage, Earned, HasJob
<1>7. Approvals(u)
    <2>1. \A q \in Plans : u.decision[q] = "approved" => q \in u.approvedEver
        BY <1>1, <1>3 DEF Sound, Approvals, Task
    <2> QED BY <1>1, <1>3, <1>4, <1>5, <2>1 DEF Sound, Approvals, Approved
<1>8. Gated(u) /\ Waits(u)
    BY <1>1, <1>3, <1>4 DEF Sound, Gated, Reviewed, Waits
<1>9. Sound(disk')
    BY <1>2, <1>3, <1>6, <1>7, <1>8 DEF Sound
<1> QED BY <1>9, QuickSound DEF DecideRevision

\* A supersession by hand stays within one job.
LEMMA SupersedeStep ==
    ASSUME IInv, NEW old \in Artifacts, NEW new \in Artifacts, Supersede(old, new)
    PROVE  IInv'
<1>1. /\ Sound(disk) /\ old \in Registry(disk) /\ new \in Registry(disk)
      /\ Earned(disk, old, new)
    BY DEF IInv, Supersede, Earned
<1>2. Sound(Aggregate(Replace(disk, old, new)))
    BY <1>1, ReplaceSound DEF Sound, Gated
<1> QED BY <1>2, QuickSound DEF Supersede, Save

\* The task waits for a tool, or for the result of one handoff.
LEMMA PrepareMainStep == ASSUME IInv, PrepareMain PROVE IInv'
<1>1. Sound(disk) /\ Main \in Jobs /\ Executable(disk, Main)
    BY DEF IInv, PrepareMain, Jobs
<1>2. Sound(disk')
    BY <1>1, PreparedSound DEF PrepareMain, Save
<1> QED BY <1>2, QuickSound DEF PrepareMain

\* A failed preparation only counts the attempt.
LEMMA HandoffFailsStep ==
    ASSUME IInv, NEW j \in Jobs, HandoffFails(j)
    PROVE  IInv'
BY AttemptedSound, QuickSound DEF IInv, HandoffFails, Save

\* A result of the prompt job is accepted, whatever the status.
LEMMA SubmitMainStep ==
    ASSUME IInv, NEW h \in disk.waiting, NEW a \in Artifacts, SubmitMain(h, a)
    PROVE  IInv'
<1>1. Sound(disk) /\ JobOf[a] = h[2]
    BY DEF IInv, SubmitMain
<1>2. Sound(disk')
    BY <1>1, AnswerSound DEF SubmitMain, Save
<1> QED BY <1>2, QuickSound DEF SubmitMain

\* The first save of a revision that waits; the copy goes on to be marked.
LEMMA PrepareRevisionStep ==
    ASSUME IInv, NEW c \in Callers, NEW p \in Plans, PrepareRevision(c, p)
    PROVE  IInv'
<1>1. Sound(disk) /\ p \in Jobs /\ p # Main /\ Executable(disk, p)
    BY JobAssumption DEF IInv, PrepareRevision, Jobs
<1>2. p \in disk.approvedEver
    BY <1>1, ExecutableSound DEF Approved
<1>3. PICK t \in Prepared(disk, p) :
         Save(t) /\ Goes(c, [Idle EXCEPT !.pc = "mark", !.task = t, !.job = p])
    BY DEF PrepareRevision
<1>4. Sound(t) /\ p \in Plans \cap t.approvedEver
    BY <1>1, <1>2, PreparedSound
<1> QED BY <1>1, <1>3, <1>4, CopySound, GoesSound DEF Save

\* The copy that a tool will answer into is the task as it was saved.
LEMMA ExecuteStep ==
    ASSUME IInv, NEW c \in Callers, NEW j \in Jobs, Execute(c, j)
    PROVE  IInv'
<1>1. Sound(disk) /\ Executable(disk, j)
    BY DEF IInv, Execute
<1>2. /\ Approved(disk, j) /\ disk.status \in {"completed", "waiting-for-tool"}
    BY <1>1, ExecutableSound
<1> DEFINE t == Attempted(disk)
<1>3. Sound(t) /\ Approved(t, j) /\ t.status \in {"completed", "waiting-for-tool"}
    BY <1>1, <1>2, AttemptedSound DEF Approved
<1>4. disk' = t /\ Goes(c, [Idle EXCEPT !.pc = "run", !.task = t, !.job = j])
    BY DEF Execute, Save
<1> HIDE DEF t
<1> QED BY <1>3, <1>4, CopySound, GoesSound

\* A result of a revision is accepted, and then linked.
LEMMA SubmitRevisionStep ==
    ASSUME IInv, NEW c \in Callers, NEW h \in disk.waiting, NEW a \in Artifacts,
           SubmitRevision(c, h, a)
    PROVE  IInv'
<1>1. Sound(disk) /\ JobOf[a] = h[2] /\ Accepted(c, h[2], Answer(h, a))
    BY DEF IInv, SubmitRevision
<1>2. /\ Sound(Answer(h, a)) /\ h[2] \in Jobs /\ Approved(Answer(h, a), h[2])
    BY <1>1, AnswerSound DEF Approved
<1> QED BY <1>1, <1>2, AcceptedSound

\* A review begins for an artifact of the registry.
LEMMA StartReviewStep ==
    ASSUME IInv, NEW c \in Callers, NEW a \in Artifacts, Reviewable(disk, a),
           NEW eyes \in BOOLEAN, StartReview(c, a, eyes)
    PROVE  IInv'
<1> DEFINE linked == disk.arts[a].linked
           inject == linked /\ JobOf[a] \notin disk.injected
           u == [disk EXCEPT !.injected = @ \cup {JobOf[a]}]
           call == [Idle EXCEPT !.pc = "load", !.job = IF linked THEN JobOf[a] ELSE None,
                                !.art = a, !.eyes = eyes, !.injects = inject]
<1>1. Sound(disk) /\ disk \in Task /\ a \in Registry(disk)
    BY DEF IInv, Sound, Reviewable
<1>2. linked \in BOOLEAN /\ (linked => JobOf[a] \in Plans)
    BY <1>1, RegistryType DEF Sound, Lineage, Artifact
<1>3. linked => Sound(u)
    <2> HAVE linked
    <2>1. /\ u \in Task /\ u.plan = disk.plan /\ u.waiting = disk.waiting
          /\ u.status = disk.status /\ u.gate = disk.gate /\ u.approval = disk.approval
          /\ u.qaPassed = disk.qaPassed
        BY <1>1, <1>2 DEF Task
    <2>2. Same(disk, u)
        BY <1>1, <2>1 DEF Task, Same, HasJob
    <2> HIDE DEF u
    <2> QED BY <1>1, <2>1, <2>2, SameIsSound DEF Sound
<1>4. Sound(disk')
    BY <1>1, <1>3 DEF StartReview, Save
<1>5. /\ call \in Call /\ call.pc = "load" /\ call.art = a
      /\ call.job = IF linked THEN JobOf[a] ELSE None
    BY <1>2 DEF Idle, Call, Jobs
<1>6. Goes(c, call)
    BY DEF StartReview
<1> HIDE DEF call
<1>7. SoundCall(call)
    BY <1>2, <1>5 DEF SoundCall
<1> QED BY <1>4, <1>6, <1>7, GoesSound

\* A review of an artifact whose job can be found.
LEMMA ReviewStep ==
    ASSUME IInv, NEW c \in Callers, NEW a \in Artifacts, Review(c, a)
    PROVE  IInv'
BY StartReviewStep DEF Review

\* The second save of a revision that waits.
LEMMA MarkStep == ASSUME IInv, NEW c \in Callers, Mark(c) PROVE IInv'
<1>1. Sound(caller[c].task) /\ caller[c].job \in Plans \cap caller[c].task.approvedEver
    BY DEF IInv, SoundCall, Mark, At
<1>2. Sound([caller[c].task EXCEPT !.plan[caller[c].job] = "waiting"])
    BY <1>1, PlanSound DEF PlanStatus
<1> QED BY <1>2, ReturnSound DEF Mark, Save

\* The result of a tool is saved with the copy from before it ran.
LEMMA FinishStep ==
    ASSUME IInv, NEW c \in Callers, NEW a \in Artifacts, Finish(c, a)
    PROVE  IInv'
<1> DEFINE t == caller[c].task
           j == caller[c].job
<1>1. /\ Sound(t) /\ t.status \in {"completed", "waiting-for-tool"}
      /\ Approved(t, j) /\ j \in Jobs /\ JobOf[a] = j
    BY DEF IInv, SoundCall, Finish, At
<1>2. t.waiting = {}
    BY <1>1 DEF Sound, Waits
<1>3. Sound(Accept(t, a)) /\ Approved(Accept(t, a), j)
    BY <1>1, <1>2, AcceptSound DEF Sound, Approved
<1> QED BY <1>1, <1>3, AcceptedSound DEF Finish

\* A failed tool saves the copy from before it ran.
LEMMA ToolFailsStep == ASSUME IInv, NEW c \in Callers, ToolFails(c) PROVE IInv'
<1>1. Sound(caller[c].task)
    BY DEF IInv, SoundCall, ToolFails, At
<1> QED BY <1>1, ReturnSound DEF ToolFails, Save

\* The newest result of a revision job gets its link, if there is one.
LEMMA LinkStep == ASSUME IInv, NEW c \in Callers, Link(c) PROVE IInv'
<1> DEFINE t == caller[c].task
           j == caller[c].job
<1>1. Sound(t) /\ j \in Plans /\ Sound(disk)
    BY DEF IInv, SoundCall, Link, At
<1>2. CASE Unlinked(t, j) = {}
    BY <1>1, <1>2, ReturnSound DEF Link
<1>3. CASE Unlinked(t, j) # {}
    <2>1. PICK a \in Newest(t, j) :
             /\ Save([t EXCEPT !.arts[a].linked = TRUE, !.plan[j] = "review-pending"])
             /\ Goes(c, [Idle EXCEPT !.pc = "review", !.art = a])
        BY <1>3 DEF Link
    <2>2. a \in Registry(t) /\ JobOf[a] = j /\ a \in Artifacts
        BY <1>1, RegistryType DEF Newest, Unlinked, Sound
    <2>3. Sound(disk')
        BY <1>1, <2>1, <2>2, LinkSound DEF Save
    <2>4. SoundCall([Idle EXCEPT !.pc = "review", !.art = a])
        BY <2>2 DEF SoundCall, Idle, Call
    <2> QED BY <2>1, <2>3, <2>4, GoesSound
<1> QED BY <1>2, <1>3

\* The review after a linked result, of whatever the task has become.
LEMMA FirstReviewStep ==
    ASSUME IInv, NEW c \in Callers, FirstReview(c)
    PROVE  IInv'
<1>1. caller[c].art \in Artifacts /\ Sound(disk)
    BY DEF IInv, SoundCall, FirstReview, At
<1>2. CASE Reviewable(disk, caller[c].art)
    BY <1>1, <1>2, StartReviewStep DEF FirstReview
<1>3. CASE ~Reviewable(disk, caller[c].art)
    BY <1>1, <1>3, ReturnSound DEF FirstReview
<1> QED BY <1>2, <1>3

\* A review of a replacement goes on after the base class.
LEMMA AfterBaseStep ==
    ASSUME IInv, NEW c \in Callers, caller[c].pc \in {"load", "look"},
           NEW pc \in {"cleanup", "abort"}, AfterBase(c, pc), Sound(disk')
    PROVE  IInv'
<1> DEFINE call == [caller[c] EXCEPT !.pc = pc, !.task = None]
<1>1. CASE caller[c].job = None
    BY <1>1, ReturnSound DEF AfterBase
<1>2. CASE caller[c].job # None
    <2>1. SoundCall(caller[c]) /\ caller[c] \in Call
        BY DEF IInv
    <2>2. /\ call \in Call /\ call.pc = pc /\ call.art = caller[c].art
          /\ call.job = caller[c].job
        BY <2>1 DEF Call
    <2>3. Goes(c, call)
        BY <1>2 DEF AfterBase
    <2> HIDE DEF call
    <2>4. SoundCall(call)
        BY <1>2, <2>1, <2>2 DEF SoundCall
    <2> QED BY <2>3, <2>4, GoesSound
<1> QED BY <1>1, <1>2

\* The copy of a review is the task as it is loaded.
LEMMA LoadStep == ASSUME IInv, NEW c \in Callers, Load(c) PROVE IInv'
<1> DEFINE a == caller[c].art
           call == [caller[c] EXCEPT !.pc = "look", !.task = disk]
<1>1. /\ SoundCall(caller[c]) /\ caller[c] \in Call /\ caller[c].pc = "load"
      /\ Sound(disk) /\ disk' = disk /\ disk \in Task
    BY DEF IInv, Load, At, Sound
<1>2. CASE a \in Registry(disk) /\ JobOf[a] \in {Main} \cup disk.injected
    <2>1. /\ call \in Call /\ call.pc = "look" /\ call.art = a /\ call.task = disk
          /\ call.job = caller[c].job
        BY <1>1 DEF Call
    <2>2. Goes(c, call)
        BY <1>2 DEF Load
    <2> HIDE DEF call
    <2>3. SoundCall(call)
        BY <1>1, <1>2, <2>1 DEF SoundCall
    <2> QED BY <1>1, <2>2, <2>3, GoesSound
<1>3. CASE ~(a \in Registry(disk) /\ JobOf[a] \in {Main} \cup disk.injected)
    BY <1>1, <1>3, AfterBaseStep DEF Load
<1> QED BY <1>2, <1>3

\* A review is saved with the copy from before its inspector looked.
LEMMA EndReviewStep == ASSUME IInv, NEW c \in Callers, EndReview(c) PROVE IInv'
<1>1. /\ caller[c].pc = "look" /\ Sound(caller[c].task)
      /\ caller[c].art \in Registry(caller[c].task)
    BY DEF IInv, SoundCall, EndReview, At
<1>2. Sound(disk')
    BY <1>1, ReviewSound DEF EndReview, Save
<1> QED BY <1>1, <1>2, AfterBaseStep DEF EndReview

\* An inspector that raises saves nothing.
LEMMA InspectorRaisesStep ==
    ASSUME IInv, NEW c \in Callers, InspectorRaises(c)
    PROVE  IInv'
<1>1. caller[c].pc = "look" /\ Sound(disk')
    BY DEF IInv, InspectorRaises, At
<1> QED BY <1>1, AfterBaseStep DEF InspectorRaises

\* The job is taken out of the prompt.
LEMMA CleanupStep == ASSUME IInv, NEW c \in Callers, Cleanup(c) PROVE IInv'
<1> DEFINE u == [disk EXCEPT !.injected = @ \ {caller[c].job}]
           call == [caller[c] EXCEPT !.pc = "record"]
<1>1. Sound(u)
    <2>1. Sound(disk) /\ disk \in Task
        BY DEF IInv, Sound
    <2>2. /\ u \in Task /\ u.plan = disk.plan /\ u.waiting = disk.waiting
          /\ u.status = disk.status /\ u.gate = disk.gate /\ u.approval = disk.approval
          /\ u.qaPassed = disk.qaPassed
        BY <2>1 DEF Task
    <2>3. Same(disk, u)
        BY <2>1, <2>2 DEF Task, Same, HasJob
    <2> HIDE DEF u
    <2> QED BY <2>1, <2>2, <2>3, SameIsSound DEF Sound
<1>2. Sound(disk')
    BY <1>1 DEF IInv, Cleanup, Save
<1>3. SoundCall(caller[c]) /\ caller[c] \in Call /\ caller[c].pc \in {"cleanup", "abort"}
    BY DEF IInv, Cleanup
<1>4. /\ call \in Call /\ call.pc = "record" /\ call.art = caller[c].art
      /\ call.job = caller[c].job
    BY <1>3 DEF Call
<1>5. Return(c) \/ Goes(c, call)
    BY DEF Cleanup
<1> HIDE DEF call
<1>6. SoundCall(call)
    BY <1>3, <1>4 DEF SoundCall
<1> QED BY <1>2, <1>5, <1>6, ReturnSound, GoesSound

\* A passed review lets the replacement take its approved source's place.
LEMMA RecordStep == ASSUME IInv, NEW c \in Callers, Record(c) PROVE IInv'
<1> DEFINE a == caller[c].art
           p == caller[c].job
           v == disk.arts[a].qa
           w == IF v = "not-run" THEN "review-pending" ELSE v
           t == [disk EXCEPT !.plan[p] = w]
           stored == Linked(disk, a) /\ v # "unseen"
<1>1. Sound(disk) /\ disk \in Task /\ a \in Artifacts /\ p = JobOf[a] /\ p \in Plans
    BY DEF IInv, Sound, SoundCall, Record, At
<1>2. CASE stored
    <2>1. a \in Registry(disk) /\ v \in Verdict
        BY <1>1, <1>2, RegistryType DEF Linked, Artifact
    <2>2. p \in disk.approvedEver /\ w \in PlanStatus
        BY <1>1, <2>1, JobAssumption DEF Sound, Approvals, Approved, Verdict, PlanStatus
    <2>3. /\ Sound(t) /\ Registry(t) = Registry(disk) /\ p \in t.approvedEver
          /\ t.passedEver = disk.passedEver
        BY <1>1, <2>2, PlanSound
    <2>4. SourceOf[p] \in Registry(t)
        BY <1>1, <2>3 DEF Sound, Lineage
    <2>5. v = "passed" => Earned(t, SourceOf[p], a)
        BY <1>1, <2>1, <2>3 DEF Sound, Lineage, Earned
    <2> HIDE DEF t
    <2>6. Sound(Aggregate(t))
        BY <2>3, AggregateSound DEF Sound, Gated
    <2>7. v = "passed" => Sound(Aggregate(Replace(t, SourceOf[p], a)))
        BY <2>1, <2>3, <2>4, <2>5, ReplaceSound DEF Sound, Gated
    <2>8. Sound(disk')
        BY <1>2, <2>6, <2>7 DEF Record, Save, t
    <2> QED BY <2>8, ReturnSound DEF Record
<1>3. CASE ~stored
    BY <1>1, <1>3, ReturnSound DEF Record, Save
<1> QED BY <1>2, <1>3

\* A call dies and leaves the file as it is.
LEMMA CrashStep == ASSUME IInv, NEW c \in Callers, Crash(c) PROVE IInv'
BY ReturnSound DEF IInv, Crash

\* A planned task without results is sound.
LEMMA InvInit == Init => IInv
<1> SUFFICES ASSUME Init PROVE IInv
    OBVIOUS
<1>1. disk = Planned /\ Planned \in Task
    BY DEF Init, Planned, Task, TaskStatus, PlanStatus
<1>2. Registry(Planned) = {}
    BY DEF Registry, Planned
<1>3. Gated(Planned) /\ Lineage(Planned) /\ Waits(Planned) /\ Approvals(Planned)
    BY <1>2 DEF Gated, Lineage, Waits, Approvals, Planned, HasJob
<1>4. caller \in [Callers -> Call] /\ \A c \in Callers : SoundCall(caller[c])
    BY IdleSound DEF Init, SoundCall
<1> QED BY <1>1, <1>3, <1>4 DEF IInv, Sound

\* Every step keeps the task file and all copies sound.
LEMMA InvStep == IInv /\ [Next]_vars => IInv'
<1> SUFFICES ASSUME IInv, [Next]_vars PROVE IInv'
    OBVIOUS
<1>1. CASE Quick
    BY <1>1, DecideStep, CancelWaitStep, CreateRevisionJobStep, DecideRevisionStep,
       SupersedeStep, PrepareMainStep, HandoffFailsStep, SubmitMainStep DEF Quick
<1>2. ASSUME NEW c \in Callers, Begin(c) PROVE IInv'
    BY <1>2, PrepareRevisionStep, ExecuteStep, SubmitRevisionStep, ReviewStep DEF Begin
<1>3. ASSUME NEW c \in Callers, Proceed(c) PROVE IInv'
    BY <1>3, MarkStep, FinishStep, ToolFailsStep, LinkStep, FirstReviewStep, LoadStep,
       EndReviewStep, InspectorRaisesStep, CleanupStep, RecordStep DEF Proceed
<1>4. CASE UNCHANGED vars
    BY <1>4 DEF IInv, vars
<1> QED BY <1>1, <1>2, <1>3, <1>4, CrashStep DEF Next

-----------------------------------------------------------------------------
(* Theorems *)

\* The inductive invariant: the task file and every copy of it are sound.
THEOREM Invariant == Spec => []IInv
BY InvInit, InvStep, PTL DEF Spec

\* The task file and the calls keep their types.
THEOREM TypeCorrect == Spec => []TypeOK
<1>1. IInv => TypeOK
    BY DEF IInv, TypeOK, Sound
<1> QED BY <1>1, Invariant, PTL

\* Whatever copy is saved last, the export gate is open only for an approved
\* production whose active artifacts have all passed.
THEOREM GateStaysCurrent == Spec => []GateIsCurrent
<1>1. IInv => GateIsCurrent
    BY DEF IInv, Sound, Gated, GateIsCurrent
<1> QED BY <1>1, Invariant, PTL

\* A source gives way only to an approved revision that passed a review.
THEOREM SupersessionIsEarned == Spec => []SupersededAfterPass
<1>1. IInv => SupersededAfterPass
    BY DEF IInv, Sound, Lineage, SupersededAfterPass
<1> QED BY <1>1, Invariant, PTL

\* Supersession never leaves a task without an active artifact.
THEOREM AlwaysActive == Spec => []SomethingStaysActive
<1>1. IInv => SomethingStaysActive
    BY DEF IInv, Sound, Lineage, SomethingStaysActive
<1> QED BY <1>1, Invariant, PTL

\* A task that waits for a result has the one handoff that can bring it.
THEOREM AlwaysAnswerable == Spec => []WaitingIsAnswerable
<1>1. IInv => WaitingIsAnswerable
    <2> SUFFICES ASSUME IInv, disk.status = "waiting-for-tool-result"
                 PROVE  Cardinality(disk.waiting) = 1
        BY DEF WaitingIsAnswerable
    <2>1. PICK h : disk.waiting = {h}
        BY DEF IInv, Sound, Waits
    <2> QED BY <2>1, FS_Singleton
<1> QED BY <1>1, Invariant, PTL

\* No result, and no handoff, of a revision that was never approved.
THEOREM OnlyApprovedRevisions == Spec => []RevisionsWereApproved
<1>1. IInv => RevisionsWereApproved
    BY DEF IInv, Sound, Approvals, Approved, RevisionsWereApproved
<1> QED BY <1>1, Invariant, PTL
=============================================================================
