------------------------ MODULE WorkflowEngineProofs ------------------------
(***************************************************************************)
(* Proofs about WorkflowEngine, for every set of workflow graphs.          *)
(*                                                                         *)
(* Type correctness is not inductive: ChildReturns pops a frame and writes *)
(* the one below, which exists only because every pending subworkflow call *)
(* of the interpreter has a frame of its own.  Nested says that; it is the *)
(* relation between the two stacks of the engine.                          *)
(*                                                                         *)
(* That a checkpoint is sound needs more of that relation: ChainInv places *)
(* every activation in the frame it runs in and says how much of its work  *)
(* that frame has recorded, StoreInv says that frames know what the ones   *)
(* below know and that the checkpoint knows it all.  OutputInv adds the    *)
(* statuses of the stack, FlatInv what holds of runs that call no          *)
(* subworkflow, where an announced status and a recorded node are final.   *)
(***************************************************************************)
EXTENDS WorkflowEngine, SequenceTheorems, TLAPS

(***************************************************************************)
(* Sequences                                                               *)
(***************************************************************************)

\* What Last and Front return for a nonempty sequence.
LEMMA LastFront ==
    ASSUME NEW S, NEW s \in Seq(S), s # <<>>
    PROVE  /\ Last(s) \in S
           /\ Len(s) \in Nat \ {0}
           /\ Front(s) \in Seq(S)
           /\ Len(Front(s)) = Len(s) - 1
           /\ \A i \in 1..(Len(s) - 1) : Front(s)[i] = s[i]
<1>1. Len(s) \in Nat \ {0}
  OBVIOUS
<1>2. Last(s) \in S
  BY <1>1 DEF Last
<1>3. /\ Front(s) \in Seq(S)
      /\ Len(Front(s)) = Len(s) - 1
      /\ \A i \in 1..(Len(s) - 1) : Front(s)[i] = s[i]
  <2>1. 1 \in Int /\ Len(s) - 1 \in Int /\ \A i \in 1..(Len(s) - 1) : s[i] \in S
    BY <1>1
  <2> DEFINE m == Len(s) - 1
             q == SubSeq(s, 1, m)
  <2>2. q \in Seq(S) /\ Len(q) = IF 1 <= m THEN m - 1 + 1 ELSE 0
    BY <2>1, SubSeqProperties
  <2>3. \A i \in 1..(m - 1 + 1) : q[i] = s[1 + i - 1]
    BY <2>1, SubSeqProperties
  <2>4. Front(s) = q
    BY DEF Front
  <2> HIDE DEF q
  <2>5. m \in Nat /\ m - 1 + 1 = m
    BY <1>1
  <2>6. Len(q) = m
    <3> HIDE DEF m
    <3> QED BY <2>2, <2>5
  <2>7. \A i \in 1..m : q[i] = s[i]
    <3> HIDE DEF m
    <3>1. \A i \in 1..m : q[i] = s[1 + i - 1] /\ 1 + i - 1 = i
      BY <2>3, <2>5
    <3> QED BY <3>1
  <2> QED BY <2>2, <2>4, <2>6, <2>7
<1> QED BY <1>1, <1>2, <1>3

\* Replacing the last element of a sequence, and appending after that.
LEMMA ReplaceLast ==
    ASSUME NEW S, NEW s \in Seq(S), s # <<>>, NEW e \in S, NEW f \in S
    PROVE  /\ [s EXCEPT ![Len(s)] = e] \in Seq(S)
           /\ Len([s EXCEPT ![Len(s)] = e]) = Len(s)
           /\ [s EXCEPT ![Len(s)] = e] # <<>>
           /\ \A i \in 1..(Len(s) - 1) : [s EXCEPT ![Len(s)] = e][i] = s[i]
           /\ [s EXCEPT ![Len(s)] = e][Len(s)] = e
           /\ Append([s EXCEPT ![Len(s)] = e], f) \in Seq(S)
           /\ Len(Append([s EXCEPT ![Len(s)] = e], f)) = Len(s) + 1
<1>1. Len(s) \in Nat \ {0}
  OBVIOUS
<1> DEFINE r == [s EXCEPT ![Len(s)] = e]
<1>2. /\ r \in Seq(S) /\ Len(r) = Len(s)
      /\ \A j \in 1..Len(s) : r[j] = IF j = Len(s) THEN e ELSE s[j]
  BY <1>1, ExceptSeq
<1>3. Append(r, f) \in Seq(S) /\ Len(Append(r, f)) = Len(s) + 1
  <2> HIDE DEF r
  <2> QED BY <1>2, AppendProperties
<1>4. r # <<>> /\ r[Len(s)] = e /\ \A i \in 1..(Len(s) - 1) : r[i] = s[i]
  <2> HIDE DEF r
  <2> QED BY <1>1, <1>2
<1> QED BY <1>2, <1>3, <1>4

(***************************************************************************)
(* The inductive invariant                                                 *)
(***************************************************************************)

\* An assignment of frames to activations: never above the stack, ascending,
\* and strictly so after an activation that waits for a child.
Levels(d, cs, n) ==
    \A i \in 1..Len(cs) :
        /\ cs[i].phase = "child" => d[i] < n
        /\ \A j \in (i + 1)..Len(cs) :
              /\ d[i] <= d[j]
              /\ cs[i].phase = "child" => d[i] < d[j]

Nested(cs, n) == \E d \in [1..Len(cs) -> 1..n] : Levels(d, cs, n)

RunOK ==
    /\ definition \in Workflows
    /\ frames \in Seq(Frame) /\ Len(frames) <= MaxDepth
    /\ outputs \in SUBSET Names /\ error \in BOOLEAN

InterpreterOK ==
    /\ executing \in BOOLEAN /\ raising \in BOOLEAN
    /\ calls \in Seq(Activation)
    /\ executing => frames # <<>>
    /\ Nested(calls, Len(frames))

SavedOK ==
    /\ saved \in [frames : Seq(Frame), outputs : SUBSET Names, error : BOOLEAN]
    /\ Len(saved.frames) <= MaxDepth
    /\ recorded \in SUBSET Nodes

HistoryOK ==
    /\ crashes \in 0..MaxCrashes
    /\ awaiting \in BOOLEAN
    /\ ended \in Terminal \cup {"none"}

IInv == RunOK /\ InterpreterOK /\ SavedOK /\ HistoryOK

\* The activation on top goes on, in a phase that is not a call of a child.
LEMMA NestedPhase ==
    ASSUME NEW cs \in Seq(Activation), cs # <<>>, NEW n \in Nat, Nested(cs, n),
           NEW c \in Activation, c.phase # "child"
    PROVE  Nested([cs EXCEPT ![Len(cs)] = c], n)
<1>1. PICK d \in [1..Len(cs) -> 1..n] : Levels(d, cs, n)
  BY DEF Nested
<1> DEFINE ds == [cs EXCEPT ![Len(cs)] = c]
<1>2. ds \in Seq(Activation) /\ Len(ds) = Len(cs) /\ Len(cs) \in Nat
      /\ ds[Len(cs)] = c /\ \A i \in 1..(Len(cs) - 1) : ds[i] = cs[i]
  BY ReplaceLast
<1>3. Levels(d, ds, n)
  <2> HIDE DEF ds
  <2> SUFFICES ASSUME NEW i \in 1..Len(ds)
               PROVE  /\ ds[i].phase = "child" => d[i] < n
                      /\ \A j \in (i + 1)..Len(ds) :
                            /\ d[i] <= d[j]
                            /\ ds[i].phase = "child" => d[i] < d[j]
    BY DEF Levels
  <2>1. CASE i = Len(cs)
    BY <1>2, <2>1
  <2>2. CASE i # Len(cs)
    <3>1. i \in 1..(Len(cs) - 1) /\ ds[i] = cs[i]
      BY <1>2, <2>2
    <3> QED BY <1>1, <1>2, <3>1 DEF Levels
  <2> QED BY <2>1, <2>2
<1> QED BY <1>2, <1>3 DEF Nested

\* An activation invokes another one; the frame it runs in is the top one.
LEMMA NestedInvoke ==
    ASSUME NEW cs \in Seq(Activation), cs # <<>>, NEW n \in Nat, Nested(cs, n),
           NEW c \in Activation, NEW v \in Activation, v.phase # "child",
           NEW m \in {n, n + 1}, c.phase = "child" => m = n + 1 \/ Last(cs).phase = "child"
    PROVE  Nested(Append([cs EXCEPT ![Len(cs)] = c], v), m)
<1>1. PICK d \in [1..Len(cs) -> 1..n] : Levels(d, cs, n)
  BY DEF Nested
<1> DEFINE ds == Append([cs EXCEPT ![Len(cs)] = c], v)
           l == Len(cs)
           e == [i \in 1..(l + 1) |-> IF i = l + 1 THEN m ELSE d[i]]
<1>2. /\ l \in Nat \ {0} /\ Len(ds) = l + 1
      /\ \A i \in 1..(l - 1) : ds[i] = cs[i]
      /\ ds[l] = c /\ ds[l + 1] = v
  <2>1. Len(cs) \in Nat \ {0}
    BY LastFront
  <2> QED BY <2>1, ReplaceLast
<1>3. n \in Nat \ {0} /\ d[l] \in 1..n
  BY <1>1, <1>2
<1>4. e \in [1..Len(ds) -> 1..m]
  <2> HIDE DEF ds
  <2> QED BY <1>1, <1>2, <1>3
<1>5. Levels(e, ds, m)
  <2> HIDE DEF ds
  <2> SUFFICES ASSUME NEW i \in 1..Len(ds)
               PROVE  /\ ds[i].phase = "child" => e[i] < m
                      /\ \A j \in (i + 1)..Len(ds) :
                            /\ e[i] <= e[j]
                            /\ ds[i].phase = "child" => e[i] < e[j]
    BY DEF Levels
  <2>1. CASE i = l + 1
    BY <1>2, <2>1
  <2>2. CASE i = l
    <3>1. c.phase = "child" => d[l] < m
      BY <1>1, <1>2, <1>3 DEF Levels, Last
    <3> QED BY <1>2, <1>3, <2>2, <3>1
  <2>3. CASE i < l
    <3>1. i \in 1..(l - 1) /\ ds[i] = cs[i] /\ e[i] = d[i] /\ d[i] \in 1..n
      BY <1>1, <1>2, <2>3
    <3>2. /\ cs[i].phase = "child" => d[i] < n
          /\ \A j \in (i + 1)..l : d[i] <= d[j] /\ (cs[i].phase = "child" => d[i] < d[j])
      BY <1>1, <1>2, <3>1 DEF Levels
    <3>3. ASSUME NEW j \in (i + 1)..Len(ds)
          PROVE  e[i] <= e[j] /\ (ds[i].phase = "child" => e[i] < e[j])
      <4>1. CASE j = l + 1
        BY <1>2, <3>1, <3>2, <4>1
      <4>2. CASE j # l + 1
        <5>1. j \in (i + 1)..l /\ e[j] = d[j]
          BY <1>2, <4>2
        <5> QED BY <3>1, <3>2, <5>1
      <4> QED BY <4>1, <4>2
    <3> QED BY <1>2, <3>1, <3>2, <3>3
  <2>4. i = l + 1 \/ i = l \/ i < l
    BY <1>2
  <2> QED BY <2>1, <2>2, <2>3, <2>4
<1> QED BY <1>4, <1>5 DEF Nested

\* An activation returns or is left by an exception.
LEMMA NestedReturn ==
    ASSUME NEW cs \in Seq(Activation), cs # <<>>, NEW n \in Nat, Nested(cs, n)
    PROVE  /\ Nested(Front(cs), n)
           /\ Last(cs).phase = "child" => n > 1 /\ Nested(Front(cs), n - 1)
<1>1. PICK d \in [1..Len(cs) -> 1..n] : Levels(d, cs, n)
  BY DEF Nested
<1> DEFINE l == Len(cs)
           ds == Front(cs)
           e == [i \in 1..(l - 1) |-> d[i]]
<1>2. /\ l \in Nat \ {0} /\ Len(ds) = l - 1
      /\ \A i \in 1..(l - 1) : ds[i] = cs[i]
  BY LastFront
<1>3. d[l] \in 1..n
  BY <1>1, <1>2
<1>4. \A i \in 1..(l - 1) :
        /\ e[i] = d[i] /\ d[i] \in 1..n /\ d[i] <= d[l]
        /\ ds[i].phase = "child" => d[i] < d[l] /\ d[i] < n
  <2> HIDE DEF ds
  <2> TAKE i \in 1..(l - 1)
  <2>1. e[i] = d[i] /\ d[i] \in 1..n /\ ds[i] = cs[i]
    BY <1>1, <1>2
  <2>2. /\ i \in 1..Len(cs) /\ l \in (i + 1)..Len(cs)
    BY <1>2
  <2>3. /\ d[i] <= d[l]
        /\ cs[i].phase = "child" => d[i] < d[l] /\ d[i] < n
    BY <1>1, <2>2 DEF Levels
  <2> QED BY <2>1, <2>3
<1>5. \A i \in 1..(l - 1) : \A j \in (i + 1)..(l - 1) :
        e[i] <= e[j] /\ (ds[i].phase = "child" => e[i] < e[j])
  BY <1>1, <1>2 DEF Levels
<1>6. Nested(Front(cs), n)
  <2>1. e \in [1..Len(ds) -> 1..n]
    BY <1>2, <1>4
  <2>2. Levels(e, ds, n)
    <3> HIDE DEF ds, e
    <3> QED BY <1>2, <1>4, <1>5 DEF Levels
  <2> QED BY <2>1, <2>2 DEF Nested
<1>7. ASSUME Last(cs).phase = "child"
      PROVE  n > 1 /\ Nested(Front(cs), n - 1)
  <2>1. d[l] < n
    BY <1>1, <1>2, <1>7 DEF Levels, Last
  <2>2. e \in [1..Len(ds) -> 1..(n - 1)]
    BY <1>2, <1>3, <1>4, <2>1
  <2>3. Levels(e, ds, n - 1)
    <3> HIDE DEF ds, e
    <3> QED BY <1>2, <1>3, <1>4, <1>5, <2>1 DEF Levels
  <2> QED BY <1>3, <2>1, <2>2, <2>3 DEF Nested
<1> QED BY <1>6, <1>7
(***************************************************************************)
(* What the operators of the model do to the two stacks                    *)
(***************************************************************************)

\* The statuses are the states the lifecycle table lists.
LEMMA Statuses ==
    Status = {"pending", "running", "waiting_for_child", "waiting_for_tool",
              "waiting_for_approval", "reviewing", "revising", "failed",
              "completed", "cancelled"}
BY DEF Status, Allowed

\* The frame of a new run or of a child.
LEMMA NewFrameType ==
    ASSUME NEW w \in Workflows, NEW st \in Status,
           NEW done \in SUBSET Key, NEW vals \in SUBSET Names
    PROVE  NewFrame(w, st, done, vals) \in Frame
BY GraphAssumption, BoundAssumption DEF NewFrame, Frame

\* The top frame is a frame, and replacing it keeps the depth of the stack.
LEMMA TopFrame ==
    ASSUME RunOK, frames # <<>>
    PROVE  /\ Top \in Frame
           /\ Len(frames) \in Nat \ {0}
BY LastFront DEF RunOK, Top

\* Assigning the top frame leaves the depth of the stack as it is.
LEMMA SetTopStep ==
    ASSUME RunOK, frames # <<>>, NEW f \in Frame, SetTop(f)
    PROVE  frames' \in Seq(Frame) /\ Len(frames') = Len(frames) /\ frames' # <<>>
BY ReplaceLast DEF RunOK, SetTop

\* A transition leaves the depth of the stack as it is.
LEMMA GoToStep ==
    ASSUME RunOK, frames # <<>>, NEW st \in Status, GoTo(st)
    PROVE  frames' \in Seq(Frame) /\ Len(frames') = Len(frames) /\ frames' # <<>>
<1>1. Top \in Frame
  BY TopFrame
<1>2. [Top EXCEPT !.status = st] \in Frame
  BY <1>1 DEF Frame
<1> QED BY <1>2, SetTopStep DEF GoTo

\* A checkpoint of a well-formed run is well-formed.
LEMMA CheckpointStep ==
    ASSUME RunOK', SavedOK, Checkpoint
    PROVE  SavedOK'
BY DEF RunOK, SavedOK, Checkpoint, NodesIn

\* Without a checkpoint the stored run is as it was.
LEMMA NoCheckpointStep ==
    ASSUME SavedOK, NoCheckpointTaken
    PROVE  SavedOK'
BY DEF SavedOK, NoCheckpointTaken

\* fail(), whether or not its transition is allowed.
LEMMA FailRunStep ==
    ASSUME RunOK, SavedOK, frames # <<>>, FailRun, definition' = definition
    PROVE  RunOK' /\ SavedOK' /\ Len(frames') = Len(frames)
<1>1. CASE GoTo("failed") /\ Checkpoint
  <2>1. frames' \in Seq(Frame) /\ Len(frames') = Len(frames)
    BY <1>1, GoToStep, Statuses
  <2>2. RunOK'
    BY <2>1 DEF RunOK, FailRun
  <2> QED BY <1>1, <2>1, <2>2, CheckpointStep
<1>2. CASE UNCHANGED frames /\ NoCheckpointTaken
  BY <1>2, NoCheckpointStep DEF RunOK, FailRun
<1> QED BY <1>1, <1>2 DEF FailRun

\* The interpreter's stack: the current activation goes on, returns, or invokes
\* one of its children.
LEMMA CurrentCall ==
    ASSUME InterpreterOK, calls # <<>>
    PROVE  Call \in Activation
BY LastFront DEF InterpreterOK, Call

\* An activation that moves to another phase keeps the stacks matched.
LEMMA PhaseStep ==
    ASSUME InterpreterOK, calls # <<>>, frames \in Seq(Frame),
           NEW p \in Phases \ {"child"}, Phase(p)
    PROVE  calls' \in Seq(Activation) /\ Nested(calls', Len(frames))
<1> DEFINE c == [Call EXCEPT !.phase = p]
<1>1. c \in Activation /\ c.phase # "child"
  BY CurrentCall DEF Activation
<1>2. calls' = [calls EXCEPT ![Len(calls)] = c]
  BY DEF Phase, SetCall
<1> HIDE DEF c
<1>3. calls' \in Seq(Activation)
  BY <1>1, <1>2, ReplaceLast DEF InterpreterOK
<1>4. Nested(calls', Len(frames))
  <2>1. calls \in Seq(Activation) /\ Len(frames) \in Nat /\ Nested(calls, Len(frames))
    BY DEF InterpreterOK
  <2>2. Nested([calls EXCEPT ![Len(calls)] = c], Len(frames))
    BY <1>1, <2>1, NestedPhase
  <2> QED BY <1>2, <2>2
<1> QED BY <1>3, <1>4

\* An activation that returns keeps the stacks matched.
LEMMA ReturnStep ==
    ASSUME InterpreterOK, calls # <<>>, frames \in Seq(Frame), Return
    PROVE  /\ calls' \in Seq(Activation)
           /\ Nested(calls', Len(frames))
           /\ Call.phase = "child" => /\ Len(frames) > 1
                                      /\ Nested(calls', Len(frames) - 1)
BY LastFront, NestedReturn DEF InterpreterOK, Return, Call

\* An activation that executes a child node keeps the stacks matched.
LEMMA ExecuteChildStep ==
    ASSUME InterpreterOK, calls # <<>>, frames \in Seq(Frame),
           NEW i \in 1..Len(ChildrenOf(Call)), ExecuteChild(i)
    PROVE  calls' \in Seq(Activation) /\ Nested(calls', Len(frames))
<1> DEFINE c == [Call EXCEPT !.next = i]
           v == VisitOf(ChildrenOf(Call)[i])
<1>0. Len(frames) \in Nat
  OBVIOUS
<1>1. Call \in Activation
  BY CurrentCall
<1>2. c \in Activation /\ c.phase = Call.phase
  <2>1. i \in Nat
    BY <1>1, GraphAssumption DEF ChildrenOf, Activation
  <2> QED BY <1>1, <2>1 DEF Activation
<1>3. v \in Activation /\ v.phase # "child"
  <2>1. ChildrenOf(Call) \in Seq(Nodes)
    BY <1>1, GraphAssumption DEF ChildrenOf, Activation
  <2>2. ChildrenOf(Call)[i] \in Nodes
    BY <2>1
  <2> QED BY <2>2 DEF VisitOf, Activation, Phases
<1>4. calls' = Append([calls EXCEPT ![Len(calls)] = c], v)
  BY DEF ExecuteChild, Invoke
<1> HIDE DEF c, v
<1>5. calls' \in Seq(Activation)
  <2>1. calls \in Seq(Activation)
    BY DEF InterpreterOK
  <2>2. Append([calls EXCEPT ![Len(calls)] = c], v) \in Seq(Activation)
    BY <1>2, <1>3, <2>1, ReplaceLast
  <2> QED BY <1>4, <2>2
<1>6. Nested(calls', Len(frames))
  BY <1>0, <1>2, <1>3, <1>4, NestedInvoke DEF InterpreterOK, Call
<1> QED BY <1>5, <1>6

(***************************************************************************)
(* Steps that preserve the invariant                                       *)
(***************************************************************************)

\* A step keeps the invariant when the two stacks it leaves fit each other.
LEMMA StepOK ==
    ASSUME IInv, UNCHANGED <<definition, crashes>>,
           frames' \in Seq(Frame), Len(frames') <= MaxDepth, executing' => frames' # <<>>,
           outputs' \in SUBSET Names, error' \in BOOLEAN,
           executing' \in BOOLEAN, raising' \in BOOLEAN,
           calls' \in Seq(Activation), Nested(calls', Len(frames')),
           awaiting' \in BOOLEAN, ended' \in Terminal \cup {"none"},
           Checkpoint \/ NoCheckpointTaken
    PROVE  IInv'
<1>1. RunOK'
  BY DEF IInv, RunOK
<1>2. InterpreterOK'
  BY DEF InterpreterOK
<1>3. SavedOK'
  BY <1>1, CheckpointStep, NoCheckpointStep DEF IInv
<1>4. HistoryOK'
  BY DEF IInv, HistoryOK
<1> QED BY <1>1, <1>2, <1>3, <1>4 DEF IInv

\* The usual step of the interpreter, at a given depth.
LEMMA QuietStep ==
    ASSUME IInv, Quiet, frames' \in Seq(Frame), Len(frames') = Len(frames), frames' # <<>>,
           calls' \in Seq(Activation), Nested(calls', Len(frames)),
           Checkpoint \/ NoCheckpointTaken
    PROVE  IInv'
<1>1. UNCHANGED <<definition, crashes, outputs, error, executing, raising, awaiting, ended>>
  BY DEF Quiet, Kept
<1>2. Len(frames') <= MaxDepth /\ Nested(calls', Len(frames'))
  BY DEF IInv, RunOK
<1>3. /\ outputs' \in SUBSET Names /\ error' \in BOOLEAN
      /\ executing' \in BOOLEAN /\ raising' \in BOOLEAN
      /\ awaiting' \in BOOLEAN /\ ended' \in Terminal \cup {"none"}
  BY <1>1 DEF IInv, RunOK, InterpreterOK, HistoryOK
<1> QED BY <1>1, <1>2, <1>3, StepOK

\* A step of the interpreter that raises or ends it leaves the depth alone.
LEMMA RaisingStep ==
    ASSUME IInv, UNCHANGED <<definition, crashes>>, frames # <<>>,
           frames' \in Seq(Frame), Len(frames') = Len(frames),
           outputs' \in SUBSET Names, error' \in BOOLEAN,
           executing' \in BOOLEAN, raising' \in BOOLEAN, UNCHANGED calls,
           awaiting' \in BOOLEAN, ended' \in Terminal \cup {"none"},
           Checkpoint \/ NoCheckpointTaken
    PROVE  IInv'
<1>1. frames' # <<>>
  BY DEF IInv, RunOK
<1>2. Len(frames') <= MaxDepth /\ Nested(calls', Len(frames')) /\ calls' \in Seq(Activation)
  BY DEF IInv, RunOK, InterpreterOK
<1> QED BY <1>1, <1>2, StepOK

\* A call of the host changes the top frame and leaves the interpreter alone.
LEMMA HostStep ==
    ASSUME IInv, NEW call, Host(call),
           frames' \in Seq(Frame), Len(frames') = Len(frames),
           outputs' \in SUBSET Names, error' \in BOOLEAN,
           awaiting' \in BOOLEAN, ended' \in Terminal \cup {"none"},
           Checkpoint \/ NoCheckpointTaken
    PROVE  IInv'
<1>1. frames # <<>> /\ UNCHANGED <<executing, calls, raising, definition, crashes>>
  BY DEF Host, Live, interpreter
<1>2. executing' \in BOOLEAN /\ raising' \in BOOLEAN
  BY <1>1 DEF IInv, InterpreterOK
<1> QED BY <1>1, <1>2, RaisingStep

\* The interpreter runs an activation only while it holds a frame.
LEMMA AtHasFrame ==
    ASSUME IInv, NEW p, At(p)
    PROVE  /\ executing /\ ~raising /\ calls # <<>> /\ Call.phase = p
           /\ frames \in Seq(Frame) /\ frames # <<>>
           /\ RunOK /\ InterpreterOK
BY DEF IInv, InterpreterOK, RunOK, At

(***************************************************************************)
(* Moves of the interpreter that neither raise nor change the depth        *)
(***************************************************************************)

\* A recorded node is skipped.
LEMMA SkipNodeStep == IInv /\ SkipNode => IInv'
BY AtHasFrame, ReturnStep, QuietStep DEF SkipNode

\* A node is entered: only current_node_id changes.
LEMMA BeginNodeStep == IInv /\ BeginNode => IInv'
<1> SUFFICES ASSUME IInv, BeginNode PROVE IInv'
  OBVIOUS
<1>1. At("visit") /\ Phase("enter") /\ Quiet /\ NoCheckpointTaken
  BY DEF BeginNode
<1>2. [Top EXCEPT !.at = Call.node] \in Frame
  BY <1>1, AtHasFrame, TopFrame, CurrentCall DEF Frame, Activation
<1>3. frames' \in Seq(Frame) /\ Len(frames') = Len(frames) /\ frames' # <<>>
  BY <1>1, <1>2, AtHasFrame, SetTopStep DEF BeginNode
<1>4. calls' \in Seq(Activation) /\ Nested(calls', Len(frames))
  BY <1>1, AtHasFrame, PhaseStep DEF Phases
<1> QED BY <1>1, <1>3, <1>4, QuietStep

\* A cursor is recorded and saved.
LEMMA FinishNodeStep == IInv /\ FinishNode => IInv'
<1> SUFFICES ASSUME IInv, FinishNode PROVE IInv'
  OBVIOUS
<1>1. At("exit") /\ Return /\ Quiet /\ Checkpoint
  BY DEF FinishNode
<1>2. Top \in Frame /\ KeyOf(Call.node) \in Key
  BY <1>1, AtHasFrame, TopFrame, CurrentCall DEF KeyOf, Key, Frame, Activation
<1>3. [Top EXCEPT !.done = @ \cup {KeyOf(Call.node)}] \in Frame
  BY <1>2 DEF Frame
<1>4. frames' \in Seq(Frame) /\ Len(frames') = Len(frames) /\ frames' # <<>>
  BY <1>1, <1>3, AtHasFrame, SetTopStep DEF FinishNode
<1>5. calls' \in Seq(Activation) /\ Nested(calls', Len(frames))
  BY <1>1, AtHasFrame, ReturnStep
<1> QED BY <1>1, <1>4, <1>5, QuietStep

\* The children of a composite node are nodes, and ExecuteChild picks one.
LEMMA ChildIndex ==
    ASSUME InterpreterOK, calls # <<>>
    PROVE  /\ Call \in Activation /\ Call.next \in Nat
           /\ ChildrenOf(Call) \in Seq(Nodes)
           /\ Call.next < Len(ChildrenOf(Call)) => Call.next + 1 \in 1..Len(ChildrenOf(Call))
           /\ ChildrenOf(Call) # <<>> => 1 \in 1..Len(ChildrenOf(Call))
<1>1. Call \in Activation
  BY CurrentCall
<1>2. Call.next \in Nat /\ ChildrenOf(Call) \in Seq(Nodes)
  BY <1>1, GraphAssumption DEF ChildrenOf, Activation
<1> QED BY <1>1, <1>2

\* Executing a child and going on to another phase, with the frames unchanged.
LEMMA LoopStep ==
    ASSUME IInv, NEW p, At(p), Quiet, NoCheckpointTaken, UNCHANGED frames,
           \/ \E i \in 1..Len(ChildrenOf(Call)) : ExecuteChild(i)
           \/ Phase("exit")
    PROVE  IInv'
<1>1. /\ calls # <<>> /\ InterpreterOK
      /\ frames' \in Seq(Frame) /\ Len(frames') = Len(frames) /\ frames' # <<>>
  BY AtHasFrame
<1>2. calls' \in Seq(Activation) /\ Nested(calls', Len(frames))
  BY <1>1, PhaseStep, ExecuteChildStep DEF Phases
<1> QED BY <1>1, <1>2, QuietStep

\* The loops over children: the next child runs, or the node ends.
LEMMA LoopingStep ==
    IInv /\ (NextChild \/ LastChildReturned \/ TryFirst \/ ChildSelected
             \/ TakeBranch \/ BranchReturned) => IInv'
<1> SUFFICES ASSUME IInv,
                    NextChild \/ LastChildReturned \/ TryFirst \/ ChildSelected
                      \/ TakeBranch \/ BranchReturned
             PROVE  IInv'
  OBVIOUS
<1>1. At("enter") \/ At("children")
  BY DEF NextChild, LastChildReturned, TryFirst, ChildSelected, TakeBranch,
         BranchReturned, Looping, In
<1>2. Quiet /\ NoCheckpointTaken /\ UNCHANGED frames
  BY DEF NextChild, LastChildReturned, TryFirst, ChildSelected, TakeBranch, BranchReturned
<1>3. (\E i \in 1..Len(ChildrenOf(Call)) : ExecuteChild(i)) \/ Phase("exit")
  <2>1. InterpreterOK /\ calls # <<>>
    BY <1>1, AtHasFrame
  <2>2. CASE NextChild
    BY <2>1, <2>2, ChildIndex DEF NextChild
  <2>3. CASE TryFirst
    BY <2>1, <2>3, ChildIndex DEF TryFirst
  <2>4. CASE TakeBranch
    <3>1. PICK branch \in {1, 2} :
            IF branch <= Len(ChildrenOf(Call)) THEN ExecuteChild(branch) ELSE Phase("exit")
      BY <2>4 DEF TakeBranch
    <3>2. Len(ChildrenOf(Call)) \in Nat
      BY <2>1, ChildIndex
    <3> QED BY <3>1, <3>2
  <2>5. CASE LastChildReturned \/ ChildSelected \/ BranchReturned
    BY <2>5 DEF LastChildReturned, ChildSelected, BranchReturned
  <2> QED BY <2>2, <2>3, <2>4, <2>5
<1> QED BY <1>1, <1>2, <1>3, LoopStep

\* The status of the top frame changes and the activation goes on.
LEMMA StatusStep ==
    ASSUME IInv, NEW p, At(p), Quiet, Checkpoint \/ NoCheckpointTaken,
           NEW st \in Status, GoTo(st), NEW q \in Phases \ {"child"}, Phase(q)
    PROVE  IInv'
<1>1. /\ RunOK /\ InterpreterOK /\ calls # <<>>
      /\ frames \in Seq(Frame) /\ frames # <<>>
  BY AtHasFrame
<1>2. frames' \in Seq(Frame) /\ Len(frames') = Len(frames) /\ frames' # <<>>
  BY <1>1, GoToStep
<1>3. calls' \in Seq(Activation) /\ Nested(calls', Len(frames))
  BY <1>1, PhaseStep
<1> QED BY <1>2, <1>3, QuietStep

\* An action waits for its tool.
LEMMA StartActionStep == IInv /\ StartAction => IInv'
BY StatusStep, Statuses DEF StartAction, In, Phases

\* A review begins.
LEMMA BeginReviewStep == IInv /\ BeginReview => IInv'
BY StatusStep, Statuses DEF BeginReview, In, Phases

\* A review ends before its children run.
LEMMA EndReviewStep == IInv /\ EndReview => IInv'
BY StatusStep, Statuses DEF EndReview, Phases

\* A handler's values are merged and saved.
LEMMA HandlerReturnsStep == IInv /\ HandlerReturns => IInv'
<1> SUFFICES ASSUME IInv, HandlerReturns PROVE IInv'
  OBVIOUS
<1>1. At("handler") /\ Phase("exit") /\ Quiet /\ Checkpoint
  BY DEF HandlerReturns
<1>2. /\ RunOK /\ InterpreterOK /\ calls # <<>>
      /\ frames \in Seq(Frame) /\ frames # <<>>
  BY <1>1, AtHasFrame
<1>3. [Top EXCEPT !.status = "running", !.vals = @ \cup Result[Call.node]] \in Frame
  <2>1. Top \in Frame /\ Result[Call.node] \in SUBSET Names /\ "running" \in Status
    BY <1>2, TopFrame, CurrentCall, GraphAssumption, Statuses DEF Activation
  <2> QED BY <2>1 DEF Frame
<1>4. frames' \in Seq(Frame) /\ Len(frames') = Len(frames) /\ frames' # <<>>
  BY <1>2, <1>3, SetTopStep DEF HandlerReturns
<1>5. calls' \in Seq(Activation) /\ Nested(calls', Len(frames))
  BY <1>1, <1>2, PhaseStep DEF Phases
<1> QED BY <1>1, <1>4, <1>5, QuietStep

\* An approval pauses the run.
LEMMA PauseForApprovalStep == IInv /\ PauseForApproval => IInv'
<1> SUFFICES ASSUME IInv, PauseForApproval PROVE IInv'
  OBVIOUS
<1>1. At("enter") /\ GoTo("waiting_for_approval") /\ Phase("exit") /\ Checkpoint
  BY DEF PauseForApproval, In
<1>2. /\ RunOK /\ InterpreterOK /\ calls # <<>> /\ HistoryOK
      /\ frames \in Seq(Frame) /\ frames # <<>>
  BY <1>1, AtHasFrame DEF IInv
<1>3. frames' \in Seq(Frame) /\ Len(frames') = Len(frames) /\ frames' # <<>>
  BY <1>1, <1>2, GoToStep, Statuses
<1>4. calls' \in Seq(Activation) /\ Nested(calls', Len(frames'))
  BY <1>1, <1>2, <1>3, PhaseStep DEF Phases
<1>5. Len(frames') <= MaxDepth
  BY <1>2, <1>3 DEF RunOK
<1>6. /\ UNCHANGED <<definition, crashes>>
      /\ outputs' \in SUBSET Names /\ error' \in BOOLEAN
      /\ executing' \in BOOLEAN /\ raising' \in BOOLEAN
      /\ awaiting' \in BOOLEAN /\ ended' \in Terminal \cup {"none"}
  BY <1>2 DEF PauseForApproval, Kept, RunOK, InterpreterOK, HistoryOK
<1> QED BY <1>1, <1>3, <1>4, <1>5, <1>6, StepOK

(***************************************************************************)
(* Subworkflows: the two stacks grow and shrink together                   *)
(***************************************************************************)

\* A subworkflow call pushes a frame below max_depth.
LEMMA CallSubworkflowStep == IInv /\ CallSubworkflow => IInv'
<1> SUFFICES ASSUME IInv, CallSubworkflow PROVE IInv'
  OBVIOUS
<1> DEFINE w == Sub[Call.node]
           f == [Top EXCEPT !.status = "waiting_for_child"]
           g == NewFrame(w, "running", Top.done, Top.vals)
           c == [Call EXCEPT !.phase = "child"]
           v == VisitOf(Root[w])
<1>1. At("enter") /\ CanPush /\ Quiet /\ NoCheckpointTaken
  BY DEF CallSubworkflow, In
<1>2. /\ RunOK /\ InterpreterOK /\ calls # <<>> /\ calls \in Seq(Activation)
      /\ frames \in Seq(Frame) /\ frames # <<>> /\ Len(frames) \in Nat
  BY <1>1, AtHasFrame DEF InterpreterOK
<1>3. Top \in Frame /\ Call \in Activation
  BY <1>2, TopFrame, CurrentCall
<1>4. w \in Workflows /\ Root[w] \in Nodes
  BY <1>3, GraphAssumption DEF Activation
<1>5. f \in Frame /\ g \in Frame
  <2>1. f \in Frame
    BY <1>3, Statuses DEF Frame
  <2>2. g \in Frame
    BY <1>3, <1>4, Statuses, NewFrameType DEF Frame
  <2> QED BY <2>1, <2>2
<1>6. c \in Activation /\ v \in Activation /\ v.phase # "child"
  BY <1>3, <1>4 DEF Activation, VisitOf, Phases
<1>7. frames' = Append([frames EXCEPT ![Len(frames)] = f], g)
  <2>1. [frames EXCEPT ![Len(frames)].status = "waiting_for_child"]
          = [frames EXCEPT ![Len(frames)] = f]
    BY DEF Top, Last
  <2> QED BY <2>1 DEF CallSubworkflow
<1>8. calls' = Append([calls EXCEPT ![Len(calls)] = c], v)
  BY DEF CallSubworkflow, Invoke
<1> HIDE DEF f, g, c, v
<1>9. frames' \in Seq(Frame) /\ Len(frames') = Len(frames) + 1
  BY <1>2, <1>5, <1>7, ReplaceLast
<1>10. frames' # <<>> /\ Len(frames') <= MaxDepth
  BY <1>1, <1>2, <1>9, BoundAssumption DEF CanPush
<1>11. calls' \in Seq(Activation)
  BY <1>2, <1>6, <1>8, ReplaceLast
<1>12. Nested(calls', Len(frames'))
  <2>1. Nested(calls, Len(frames))
    BY <1>2 DEF InterpreterOK
  <2>2. Nested(Append([calls EXCEPT ![Len(calls)] = c], v), Len(frames) + 1)
    BY <1>2, <1>6, <2>1, NestedInvoke
  <2> QED BY <1>8, <1>9, <2>2
<1>13. /\ UNCHANGED <<definition, crashes>>
       /\ outputs' \in SUBSET Names /\ error' \in BOOLEAN
       /\ executing' \in BOOLEAN /\ raising' \in BOOLEAN
       /\ awaiting' \in BOOLEAN /\ ended' \in Terminal \cup {"none"}
  BY <1>1, <1>2 DEF Quiet, Kept, IInv, RunOK, InterpreterOK, HistoryOK
<1> QED BY <1>1, <1>9, <1>10, <1>11, <1>12, <1>13, StepOK

\* Below the frame of a child there is the frame of its parent.
LEMMA ParentFrame ==
    ASSUME IInv, At("child")
    PROVE  /\ Len(frames) > 1
           /\ Front(frames) \in Seq(Frame) /\ Front(frames) # <<>>
           /\ Last(Front(frames)) \in Frame
           /\ Front(Front(frames)) \in Seq(Frame)
           /\ Len(Front(Front(frames))) = Len(frames) - 2
<1>1. /\ InterpreterOK /\ calls # <<>> /\ calls \in Seq(Activation)
      /\ Call.phase = "child"
      /\ frames \in Seq(Frame) /\ frames # <<>> /\ Len(frames) \in Nat
  BY AtHasFrame DEF InterpreterOK
<1>2. Len(frames) > 1
  BY <1>1, NestedReturn DEF InterpreterOK, Call
<1>3. Front(frames) \in Seq(Frame) /\ Len(Front(frames)) = Len(frames) - 1
  BY <1>1, LastFront
<1>4. Front(frames) # <<>>
  BY <1>1, <1>2, <1>3
<1>5. /\ Last(Front(frames)) \in Frame
      /\ Front(Front(frames)) \in Seq(Frame)
      /\ Len(Front(Front(frames))) = Len(Front(frames)) - 1
  BY <1>3, <1>4, LastFront
<1> QED BY <1>1, <1>2, <1>3, <1>4, <1>5

\* The stack below a child that waits for one: a frame shorter, it still fits.
LEMMA NestedPop ==
    ASSUME NEW cs \in Seq(Activation), cs # <<>>, NEW n \in Nat, Nested(cs, n),
           Last(cs).phase = "child", NEW c \in Activation, c.phase # "child"
    PROVE  Nested([cs EXCEPT ![Len(cs)] = c], n - 1)
<1>1. PICK d \in [1..Len(cs) -> 1..n] : Levels(d, cs, n)
  BY DEF Nested
<1> DEFINE l == Len(cs)
           ds == [cs EXCEPT ![Len(cs)] = c]
<1>2. /\ l \in Nat \ {0} /\ Len(ds) = l /\ ds[l] = c
      /\ \A i \in 1..(l - 1) : ds[i] = cs[i]
  BY LastFront, ReplaceLast
<1> HIDE DEF ds
<1>0. d[l] \in 1..n /\ d[l] < n
  BY <1>1, <1>2 DEF Levels, Last
<1>3. d[l] \in 1..(n - 1)
  BY <1>0
<1>4. \A i \in 1..(l - 1) :
         /\ d[i] \in 1..n /\ d[i] <= d[l]
         /\ ds[i].phase = "child" => d[i] < d[l]
  <2> SUFFICES ASSUME NEW i \in 1..(l - 1)
               PROVE  /\ d[i] \in 1..n /\ d[i] <= d[l]
                      /\ ds[i].phase = "child" => d[i] < d[l]
    OBVIOUS
  <2>1. i \in 1..l /\ l \in (i + 1)..l /\ ds[i] = cs[i]
    BY <1>2
  <2> QED BY <1>1, <2>1 DEF Levels
<1>5. \A i \in 1..(l - 1) : \A j \in (i + 1)..l :
         d[i] <= d[j] /\ (ds[i].phase = "child" => d[i] < d[j])
  BY <1>1, <1>2 DEF Levels
<1>6. d \in [1..Len(ds) -> 1..(n - 1)]
  <2>1. \A i \in 1..l : d[i] \in 1..(n - 1)
    <3> SUFFICES ASSUME NEW i \in 1..l PROVE d[i] \in 1..(n - 1)
      OBVIOUS
    <3>1. CASE i = l
      BY <1>3, <3>1
    <3>2. CASE i # l
      <4>1. i \in 1..(l - 1)
        BY <1>2, <3>2
      <4> QED BY <1>3, <1>4, <4>1
    <3> QED BY <3>1, <3>2
  <2> QED BY <1>1, <1>2, <2>1
<1>7. Levels(d, ds, n - 1)
  <2> SUFFICES ASSUME NEW i \in 1..l
               PROVE  /\ ds[i].phase = "child" => d[i] < n - 1
                      /\ \A j \in (i + 1)..l :
                            d[i] <= d[j] /\ (ds[i].phase = "child" => d[i] < d[j])
    BY <1>2 DEF Levels
  <2>1. CASE i = l
    BY <1>2, <2>1
  <2>2. CASE i # l
    <3>1. i \in 1..(l - 1)
      BY <1>2, <2>2
    <3> QED BY <1>3, <1>4, <1>5, <3>1
  <2> QED BY <2>1, <2>2
<1>8. Nested(ds, n - 1)
  BY <1>6, <1>7 DEF Nested
<1> QED BY <1>8 DEF ds

\* A child's frame is popped and its cursors go to the parent.
LEMMA ChildReturnsStep == IInv /\ ChildReturns => IInv'
<1> SUFFICES ASSUME IInv, ChildReturns PROVE IInv'
  OBVIOUS
<1> DEFINE parent == Last(Front(frames))
           f == [parent EXCEPT !.status = "running", !.done = Top.done,
                               !.vals = @ \cup Top.vals]
           c == [Call EXCEPT !.phase = "exit"]
<1>1. At("child") /\ Quiet /\ Checkpoint
  BY DEF ChildReturns
<1>2. /\ RunOK /\ InterpreterOK /\ calls # <<>> /\ calls \in Seq(Activation)
      /\ Call.phase = "child"
      /\ frames \in Seq(Frame) /\ frames # <<>> /\ Len(frames) \in Nat
  BY <1>1, AtHasFrame DEF InterpreterOK
<1>3. f \in Frame
  <2>1. parent \in Frame /\ Top \in Frame /\ "running" \in Status
    BY <1>1, <1>2, ParentFrame, TopFrame, Statuses
  <2> HIDE DEF parent
  <2> QED BY <2>1 DEF Frame
<1>4. frames' = Append(Front(Front(frames)), f)
  BY DEF ChildReturns
<1>5. c \in Activation /\ c.phase # "child"
  BY <1>2, CurrentCall DEF Activation, Phases
<1>6. calls' = [calls EXCEPT ![Len(calls)] = c]
  BY DEF ChildReturns, Phase, SetCall
<1> HIDE DEF f, c
<1>7. frames' \in Seq(Frame) /\ Len(frames') = Len(frames) - 1 /\ frames' # <<>>
  <2>1. /\ Front(Front(frames)) \in Seq(Frame)
        /\ Len(Front(Front(frames))) = Len(frames) - 2
    BY <1>1, ParentFrame
  <2> QED BY <1>2, <1>3, <1>4, <2>1, AppendProperties
<1>8. Len(frames') <= MaxDepth
  BY <1>2, <1>7, BoundAssumption DEF RunOK
<1>9. calls' \in Seq(Activation)
  BY <1>2, <1>5, <1>6, ReplaceLast
<1>10. Nested(calls', Len(frames'))
  <2>1. Nested(calls, Len(frames)) /\ Last(calls).phase = "child"
    BY <1>2 DEF InterpreterOK, Call
  <2>2. Nested([calls EXCEPT ![Len(calls)] = c], Len(frames) - 1)
    BY <1>2, <1>5, <2>1, NestedPop
  <2> QED BY <1>6, <1>7, <2>2
<1>11. /\ UNCHANGED <<definition, crashes>>
       /\ outputs' \in SUBSET Names /\ error' \in BOOLEAN
       /\ executing' \in BOOLEAN /\ raising' \in BOOLEAN
       /\ awaiting' \in BOOLEAN /\ ended' \in Terminal \cup {"none"}
  BY <1>1, <1>2 DEF Quiet, Kept, IInv, RunOK, InterpreterOK, HistoryOK
<1> QED BY <1>1, <1>7, <1>8, <1>9, <1>10, <1>11, StepOK

\* The empty stacks.
LEMMA EmptyStacks ==
    /\ \A S : <<>> \in Seq(S)
    /\ Len(<<>>) = 0 /\ 0 <= MaxDepth /\ 1 <= MaxDepth
<1>1. 0 <= MaxDepth /\ 1 <= MaxDepth
  BY BoundAssumption
<1>2. \A S : <<>> \in Seq(S)
  BY EmptySeq
<1>3. Len(<<>>) = 0
  OBVIOUS
<1> QED BY <1>1, <1>2, <1>3

\* No activation fits every stack, and only no activation fits no frame.
LEMMA NestedEmpty == \A n \in Nat : Nested(<<>>, n)
<1> SUFFICES ASSUME NEW n \in Nat PROVE Nested(<<>>, n)
  OBVIOUS
<1> DEFINE d == [i \in 1..0 |-> 1]
<1>1. d \in [1..Len(<<>>) -> 1..n] /\ Levels(d, <<>>, n)
  BY DEF Levels
<1> QED BY <1>1 DEF Nested

\* Where no frame is left, no activation is.
LEMMA NestedNoFrame ==
    ASSUME NEW cs \in Seq(Activation), Nested(cs, 0)
    PROVE  cs = <<>>
<1>1. PICK d \in [1..Len(cs) -> 1..0] : TRUE
  BY DEF Nested
<1>2. Len(cs) \in Nat /\ (cs # <<>> => 1 \in 1..Len(cs))
  OBVIOUS
<1> QED BY <1>1, <1>2

(***************************************************************************)
(* Exceptions                                                              *)
(***************************************************************************)

\* An exception leaves an activation and pops its frame.
LEMMA PropagateStep == IInv /\ Propagate => IInv'
<1> SUFFICES ASSUME IInv, Propagate PROVE IInv'
  OBVIOUS
<1>1. executing /\ calls # <<>> /\ Return /\ Quiet /\ NoCheckpointTaken
  BY DEF Propagate, Unwinding
<1>2. /\ RunOK /\ InterpreterOK
      /\ frames \in Seq(Frame) /\ frames # <<>> /\ Len(frames) \in Nat
  BY <1>1 DEF IInv, RunOK, InterpreterOK
<1>3. /\ calls' \in Seq(Activation) /\ Nested(calls', Len(frames))
      /\ Call.phase = "child" => Len(frames) > 1 /\ Nested(calls', Len(frames) - 1)
  BY <1>1, <1>2, ReturnStep
<1>4. CASE Call.phase # "child"
  <2>1. frames' = frames
    BY <1>4 DEF Propagate
  <2> QED BY <1>1, <1>2, <1>3, <2>1, QuietStep
<1>5. CASE Call.phase = "child"
  <2>1. frames' = Front(frames)
    BY <1>5 DEF Propagate
  <2>2. frames' \in Seq(Frame) /\ Len(frames') = Len(frames) - 1
    BY <1>2, <2>1, LastFront
  <2>3. frames' # <<>>
    BY <1>2, <1>3, <1>5, <2>2
  <2>4. Len(frames') <= MaxDepth
    BY <1>2, <2>2, BoundAssumption DEF RunOK
  <2>5. Nested(calls', Len(frames'))
    BY <1>3, <1>5, <2>2
  <2>6. /\ UNCHANGED <<definition, crashes>>
        /\ outputs' \in SUBSET Names /\ error' \in BOOLEAN
        /\ executing' \in BOOLEAN /\ raising' \in BOOLEAN
        /\ awaiting' \in BOOLEAN /\ ended' \in Terminal \cup {"none"}
    BY <1>1, <1>2 DEF Quiet, Kept, IInv, RunOK, InterpreterOK, HistoryOK
  <2> QED BY <1>1, <1>3, <2>2, <2>3, <2>4, <2>5, <2>6, StepOK
<1> QED BY <1>4, <1>5

\* A selector catches and goes on with the next child.
LEMMA TryAnotherStep == IInv /\ TryAnother => IInv'
<1> SUFFICES ASSUME IInv, TryAnother PROVE IInv'
  OBVIOUS
<1>1. /\ executing /\ calls # <<>> /\ Call.next < Len(ChildrenOf(Call))
      /\ ExecuteChild(Call.next + 1) /\ NoCheckpointTaken /\ UNCHANGED frames
  BY DEF TryAnother, Unwinding, Catches
<1>2. /\ RunOK /\ InterpreterOK
      /\ frames \in Seq(Frame) /\ frames # <<>> /\ Len(frames) <= MaxDepth
  BY <1>1 DEF IInv, RunOK, InterpreterOK
<1>3. calls' \in Seq(Activation) /\ Nested(calls', Len(frames))
  BY <1>1, <1>2, ChildIndex, ExecuteChildStep
<1>4. /\ UNCHANGED <<definition, crashes>>
      /\ outputs' \in SUBSET Names /\ error' \in BOOLEAN
      /\ executing' \in BOOLEAN /\ raising' \in BOOLEAN
      /\ awaiting' \in BOOLEAN /\ ended' \in Terminal \cup {"none"}
  BY <1>2 DEF TryAnother, Kept, IInv, RunOK, InterpreterOK, HistoryOK
<1> QED BY <1>1, <1>2, <1>3, <1>4, StepOK

\* A refused push leaves a waiting frame and an exception.
LEMMA TooDeepStep == IInv /\ TooDeep => IInv'
<1> SUFFICES ASSUME IInv, TooDeep PROVE IInv'
  OBVIOUS
<1>1. At("enter") /\ GoTo("waiting_for_child") /\ Raise /\ NoCheckpointTaken
  BY DEF TooDeep, In
<1>2. /\ RunOK /\ InterpreterOK /\ HistoryOK /\ frames # <<>>
  BY <1>1, AtHasFrame DEF IInv
<1>3. frames' \in Seq(Frame) /\ Len(frames') = Len(frames)
  BY <1>1, <1>2, GoToStep, Statuses
<1>4. /\ UNCHANGED <<definition, crashes, calls>>
      /\ outputs' \in SUBSET Names /\ error' \in BOOLEAN
      /\ executing' \in BOOLEAN /\ raising' \in BOOLEAN
      /\ awaiting' \in BOOLEAN /\ ended' \in Terminal \cup {"none"}
  BY <1>1, <1>2 DEF TooDeep, Kept, Raise, RunOK, InterpreterOK, HistoryOK
<1> QED BY <1>1, <1>2, <1>3, <1>4, RaisingStep

\* A statement that raises changes nothing of the run.
LEMMA StatementRaisesStep == IInv /\ StatementRaises => IInv'
<1> SUFFICES ASSUME IInv, StatementRaises PROVE IInv'
  OBVIOUS
<1>1. Raise /\ NoCheckpointTaken /\ UNCHANGED frames
  BY DEF StatementRaises
<1>2. frames # <<>>
  BY DEF StatementRaises, In, At, IInv, InterpreterOK
<1>3. frames' \in Seq(Frame) /\ Len(frames') = Len(frames)
  BY <1>1 DEF IInv, RunOK
<1>4. /\ UNCHANGED <<definition, crashes, calls>>
      /\ outputs' \in SUBSET Names /\ error' \in BOOLEAN
      /\ executing' \in BOOLEAN /\ raising' \in BOOLEAN
      /\ awaiting' \in BOOLEAN /\ ended' \in Terminal \cup {"none"}
  BY <1>1 DEF StatementRaises, Kept, Raise, IInv, RunOK, InterpreterOK, HistoryOK
<1> QED BY <1>1, <1>2, <1>3, <1>4, RaisingStep

\* fail() leaves the run and its checkpoint well-formed, so the whole is.
LEMMA FailingStep ==
    ASSUME IInv, FailRun, frames # <<>>, UNCHANGED <<definition, crashes, calls>>,
           executing' \in BOOLEAN, raising' \in BOOLEAN,
           awaiting' \in BOOLEAN, ended' \in Terminal \cup {"none"}
    PROVE  IInv'
<1>1. RunOK' /\ SavedOK' /\ Len(frames') = Len(frames)
  BY FailRunStep DEF IInv
<1>2. frames' # <<>>
  BY <1>1 DEF IInv, RunOK
<1>3. InterpreterOK'
  BY <1>1, <1>2 DEF IInv, InterpreterOK
<1>4. HistoryOK'
  BY DEF IInv, HistoryOK
<1> QED BY <1>1, <1>3, <1>4 DEF IInv

\* A handler that raises fails the run where the table allows it.
LEMMA HandlerRaisesStep == IInv /\ HandlerRaises => IInv'
<1> SUFFICES ASSUME IInv, HandlerRaises PROVE IInv'
  OBVIOUS
<1>1. FailRun /\ Raise /\ UNCHANGED <<definition, crashes, calls>>
  BY DEF HandlerRaises, Kept, Raise
<1>2. frames # <<>>
  BY DEF HandlerRaises, At, IInv, InterpreterOK
<1>3. /\ executing' \in BOOLEAN /\ raising' \in BOOLEAN
      /\ awaiting' \in BOOLEAN /\ ended' \in Terminal \cup {"none"}
  BY DEF HandlerRaises, Raise, IInv, InterpreterOK, HistoryOK
<1> QED BY <1>1, <1>2, <1>3, FailingStep

(***************************************************************************)
(* execute() begins and ends                                               *)
(***************************************************************************)

\* execute() starts at the root with an empty Python stack.
LEMMA ExecuteStep == IInv /\ Execute => IInv'
<1> SUFFICES ASSUME IInv, Execute PROVE IInv'
  OBVIOUS
<1> DEFINE v == VisitOf(Root[definition])
<1>1. RunOK /\ InterpreterOK /\ HistoryOK /\ frames # <<>>
  BY DEF Execute, Live, IInv
<1>2. frames' \in Seq(Frame) /\ Len(frames') = Len(frames) /\ frames' # <<>>
  BY <1>1, GoToStep, Statuses DEF Execute
<1>3. v \in Activation /\ v.phase # "child"
  BY <1>1, GraphAssumption DEF RunOK, Activation, VisitOf, Phases
<1>4. calls' = <<v>>
  BY DEF Execute
<1> HIDE DEF v
<1>5. calls' \in Seq(Activation) /\ Len(calls') = 1 /\ calls'[1] = v
  BY <1>3, <1>4
<1>6. Nested(calls', Len(frames'))
  <2> DEFINE d == [i \in 1..1 |-> 1]
  <2>1. Len(frames') \in Nat \ {0}
    BY <1>2
  <2>2. d \in [1..Len(calls') -> 1..Len(frames')]
    BY <1>5, <2>1
  <2>3. Levels(d, calls', Len(frames'))
    BY <1>3, <1>5 DEF Levels
  <2> QED BY <2>2, <2>3 DEF Nested
<1>7. Len(frames') <= MaxDepth
  BY <1>1, <1>2 DEF RunOK
<1>8. /\ UNCHANGED <<definition, crashes>> /\ NoCheckpointTaken
      /\ outputs' \in SUBSET Names /\ error' \in BOOLEAN
      /\ executing' \in BOOLEAN /\ raising' \in BOOLEAN
      /\ awaiting' \in BOOLEAN /\ ended' \in Terminal \cup {"none"}
  BY <1>1 DEF Execute, Kept, RunOK, InterpreterOK, HistoryOK
<1> QED BY <1>2, <1>5, <1>6, <1>7, <1>8, StepOK

\* execute() completes the run and saves it.
LEMMA ExecuteCompletesStep == IInv /\ ExecuteCompletes => IInv'
<1> SUFFICES ASSUME IInv, ExecuteCompletes PROVE IInv'
  OBVIOUS
<1>1. RunOK /\ InterpreterOK /\ HistoryOK /\ frames # <<>>
  BY DEF ExecuteCompletes, Returned, IInv, InterpreterOK
<1>2. frames' \in Seq(Frame) /\ Len(frames') = Len(frames)
  BY <1>1, GoToStep, Statuses DEF ExecuteCompletes
<1>3. Outputs[definition] \in SUBSET Names
  BY <1>1, GraphAssumption DEF RunOK
<1>4. /\ UNCHANGED <<definition, crashes, calls>> /\ Checkpoint
      /\ outputs' \in SUBSET Names /\ error' \in BOOLEAN
      /\ executing' \in BOOLEAN /\ raising' \in BOOLEAN
      /\ awaiting' \in BOOLEAN /\ ended' \in Terminal \cup {"none"}
  BY <1>1, <1>3 DEF ExecuteCompletes, Kept, RunOK, InterpreterOK, HistoryOK, Terminal
<1> QED BY <1>1, <1>2, <1>4, RaisingStep

\* execute() returns a run that is not running any more.
LEMMA ExecuteStopsStep == IInv /\ ExecuteStops => IInv'
<1> SUFFICES ASSUME IInv, ExecuteStops PROVE IInv'
  OBVIOUS
<1>1. RunOK /\ InterpreterOK /\ HistoryOK /\ frames # <<>>
  BY DEF ExecuteStops, Returned, IInv, InterpreterOK
<1>2. frames' \in Seq(Frame) /\ Len(frames') = Len(frames)
  BY <1>1 DEF ExecuteStops, RunOK
<1>3. /\ UNCHANGED <<definition, crashes, calls>> /\ NoCheckpointTaken
      /\ outputs' \in SUBSET Names /\ error' \in BOOLEAN
      /\ executing' \in BOOLEAN /\ raising' \in BOOLEAN
      /\ awaiting' \in BOOLEAN /\ ended' \in Terminal \cup {"none"}
  BY <1>1 DEF ExecuteStops, Kept, RunOK, InterpreterOK, HistoryOK
<1> QED BY <1>1, <1>2, <1>3, RaisingStep

\* execute() fails the run on its way out.
LEMMA ExecuteRaisesStep == IInv /\ ExecuteRaises => IInv'
<1> SUFFICES ASSUME IInv, ExecuteRaises PROVE IInv'
  OBVIOUS
<1>1. RunOK /\ InterpreterOK /\ HistoryOK /\ frames # <<>>
  BY DEF ExecuteRaises, IInv, InterpreterOK
<1>2. /\ UNCHANGED <<definition, crashes, calls>>
      /\ executing' \in BOOLEAN /\ raising' \in BOOLEAN
      /\ awaiting' \in BOOLEAN /\ ended' \in Terminal \cup {"none"}
  BY <1>1 DEF ExecuteRaises, Kept, HistoryOK
<1>3. CASE FailRun
  BY <1>1, <1>2, <1>3, FailingStep
<1>4. CASE UNCHANGED <<frames, outputs, error>> /\ NoCheckpointTaken
  <2>1. /\ frames' \in Seq(Frame) /\ Len(frames') = Len(frames)
        /\ outputs' \in SUBSET Names /\ error' \in BOOLEAN
    BY <1>1, <1>4 DEF RunOK
  <2> QED BY <1>1, <1>2, <1>4, <2>1, RaisingStep
<1> QED BY <1>3, <1>4 DEF ExecuteRaises

(***************************************************************************)
(* Calls of the host, crashes and restorations                             *)
(***************************************************************************)

\* The host calls that change the status of the top frame, or nothing.
LEMMA TransitionStep ==
    IInv /\ (Resume \/ Pause \/ Cancel \/ Complete) => IInv'
<1> SUFFICES ASSUME IInv, Resume \/ Pause \/ Cancel \/ Complete PROVE IInv'
  OBVIOUS
<1>1. PICK call : Host(call)
  BY DEF Resume, Pause, Cancel, Complete
<1>2. RunOK /\ HistoryOK /\ frames # <<>> /\ definition \in Workflows
  BY <1>1 DEF Host, Live, IInv, RunOK
<1>3. (\E st \in Status : GoTo(st)) \/ UNCHANGED frames
  BY Statuses DEF Resume, Pause, Cancel, Complete
<1>4. frames' \in Seq(Frame) /\ Len(frames') = Len(frames)
  BY <1>2, <1>3, GoToStep DEF RunOK
<1>5. Outputs[definition] \in SUBSET Names
  BY <1>2, GraphAssumption
<1>6. /\ outputs' \in SUBSET Names /\ error' \in BOOLEAN
      /\ awaiting' \in BOOLEAN /\ ended' \in Terminal \cup {"none"}
      /\ Checkpoint \/ NoCheckpointTaken
  BY <1>2, <1>5 DEF Resume, Pause, Cancel, Complete, RunOK, HistoryOK, Terminal
<1> QED BY <1>1, <1>4, <1>6, HostStep

\* retry() counts, below max_retries.
LEMMA RetryStep == IInv /\ Retry => IInv'
<1> SUFFICES ASSUME IInv, Retry PROVE IInv'
  OBVIOUS
<1>1. Host("retry") /\ CanRetry /\ NoCheckpointTaken
  BY DEF Retry
<1>2. RunOK /\ HistoryOK /\ frames # <<>>
  BY <1>1 DEF Host, Live, IInv
<1>3. [Top EXCEPT !.status = "running", !.retries = @ + 1] \in Frame
  <2>1. Top \in Frame /\ "running" \in Status
    BY <1>2, TopFrame, Statuses
  <2>2. Top.retries + 1 \in 0..MaxRetries
    BY <1>1, <2>1, BoundAssumption DEF CanRetry, Frame
  <2> QED BY <2>1, <2>2 DEF Frame
<1>4. frames' \in Seq(Frame) /\ Len(frames') = Len(frames)
  BY <1>2, <1>3, SetTopStep DEF Retry
<1>5. /\ outputs' \in SUBSET Names /\ error' \in BOOLEAN
      /\ awaiting' \in BOOLEAN /\ ended' \in Terminal \cup {"none"}
  BY <1>2 DEF Retry, RunOK, HistoryOK
<1> QED BY <1>1, <1>4, <1>5, HostStep

\* fail() from outside or from a handler.
LEMMA FailStep == IInv /\ Fail => IInv'
<1> SUFFICES ASSUME IInv, Fail PROVE IInv'
  OBVIOUS
<1>1. /\ FailRun /\ frames # <<>>
      /\ UNCHANGED <<definition, crashes, executing, calls, raising, awaiting, ended>>
  BY DEF Fail, Host, Live, interpreter
<1>2. /\ executing' \in BOOLEAN /\ raising' \in BOOLEAN
      /\ awaiting' \in BOOLEAN /\ ended' \in Terminal \cup {"none"}
  BY <1>1 DEF IInv, InterpreterOK, HistoryOK
<1> QED BY <1>1, <1>2, FailingStep

\* A capability outside the graph answers or fails the run.
LEMMA CapabilityStep == IInv /\ Capability => IInv'
<1> SUFFICES ASSUME IInv, Capability PROVE IInv'
  OBVIOUS
<1>1. Host("capability") /\ Checkpoint /\ UNCHANGED <<outputs, awaiting, ended>>
  BY DEF Capability
<1>2. RunOK /\ HistoryOK /\ frames # <<>>
  BY <1>1 DEF Host, Live, IInv
<1>3. frames' \in Seq(Frame) /\ Len(frames') = Len(frames)
  <2>1. CASE \E vals \in SUBSET Names : SetTop([Top EXCEPT !.vals = @ \cup vals])
    <3>1. PICK vals \in SUBSET Names : SetTop([Top EXCEPT !.vals = @ \cup vals])
      BY <2>1
    <3>2. [Top EXCEPT !.vals = @ \cup vals] \in Frame
      BY <1>2, TopFrame DEF Frame
    <3> QED BY <1>2, <3>1, <3>2, SetTopStep
  <2>2. CASE GoTo("failed")
    BY <1>2, <2>2, GoToStep, Statuses
  <2> QED BY <2>1, <2>2 DEF Capability
<1>4. /\ outputs' \in SUBSET Names /\ error' \in BOOLEAN
      /\ awaiting' \in BOOLEAN /\ ended' \in Terminal \cup {"none"}
  BY <1>1, <1>2 DEF Capability, RunOK, HistoryOK
<1> QED BY <1>1, <1>3, <1>4, HostStep

\* A crash leaves the checkpoint only.
LEMMA CrashStep == IInv /\ Crash => IInv'
<1> SUFFICES ASSUME IInv, Crash PROVE IInv'
  OBVIOUS
<1>1. RunOK'
  BY EmptyStacks DEF Crash, IInv, RunOK
<1>2. InterpreterOK'
  <2>1. Nested(calls', Len(frames'))
    BY EmptyStacks, NestedEmpty DEF Crash
  <2> QED BY <2>1, EmptyStacks DEF Crash, InterpreterOK
<1>3. SavedOK'
  BY DEF Crash, history, IInv, SavedOK
<1>4. HistoryOK'
  BY BoundAssumption DEF Crash, history, IInv, HistoryOK
<1> QED BY <1>1, <1>2, <1>3, <1>4 DEF IInv

\* The restored frames are those of the checkpoint.
LEMMA RestoreStep == IInv /\ Restore => IInv'
<1> SUFFICES ASSUME IInv, Restore PROVE IInv'
  OBVIOUS
<1>1. /\ frames = <<>> /\ frames' = saved.frames /\ frames' # <<>>
      /\ outputs' = saved.outputs /\ error' = saved.error
      /\ UNCHANGED <<definition, executing, calls, raising, saved, crashes,
                     recorded, awaiting, ended>>
  BY DEF Restore, Live, interpreter, history
<1>2. RunOK'
  BY <1>1 DEF IInv, RunOK, SavedOK
<1>3. calls = <<>>
  <2>1. calls \in Seq(Activation) /\ Nested(calls, 0)
    BY <1>1 DEF IInv, InterpreterOK
  <2> QED BY <2>1, NestedNoFrame
<1>4. InterpreterOK'
  <2>1. Len(frames') \in Nat
    BY <1>2 DEF RunOK
  <2>2. Nested(calls', Len(frames'))
    BY <1>1, <1>3, <2>1, NestedEmpty
  <2> QED BY <1>1, <2>2 DEF IInv, InterpreterOK
<1>5. SavedOK' /\ HistoryOK'
  BY <1>1 DEF IInv, SavedOK, HistoryOK
<1> QED BY <1>2, <1>4, <1>5 DEF IInv

(***************************************************************************)
(* The theorems                                                            *)
(***************************************************************************)

\* A new run satisfies the invariant.
LEMMA InvariantInit == Init => IInv
<1> SUFFICES ASSUME Init PROVE IInv
  OBVIOUS
<1>1. definition \in Workflows
  BY GraphAssumption DEF Init
<1>2. NewFrame(definition, "pending", {}, {}) \in Frame
  BY <1>1, NewFrameType, Statuses
<1>3. frames \in Seq(Frame) /\ Len(frames) = 1
  BY <1>2 DEF Init
<1>4. RunOK
  BY <1>1, <1>3, EmptyStacks DEF Init, RunOK
<1>5. InterpreterOK
  <2>1. calls = <<>> /\ calls \in Seq(Activation) /\ executing = FALSE /\ raising = FALSE
    BY EmptyStacks DEF Init
  <2>2. Nested(calls, Len(frames))
    BY <1>3, <2>1, NestedEmpty
  <2> QED BY <2>1, <2>2 DEF InterpreterOK
<1>6. SavedOK
  <2>1. saved = [frames |-> <<>>, outputs |-> {}, error |-> FALSE] /\ recorded = {}
    BY DEF Init, NoCheckpoint
  <2>2. saved \in [frames : Seq(Frame), outputs : SUBSET Names, error : BOOLEAN]
    BY <2>1, EmptyStacks
  <2> QED BY <2>1, <2>2, EmptyStacks DEF SavedOK
<1>7. HistoryOK
  <2>1. crashes = 0 /\ awaiting = FALSE /\ ended = "none"
    BY DEF Init
  <2>2. 0 \in 0..MaxCrashes
    BY BoundAssumption
  <2> QED BY <2>1, <2>2 DEF HistoryOK
<1> QED BY <1>4, <1>5, <1>6, <1>7 DEF IInv

\* Every step of the engine preserves it.
LEMMA InvariantStep == IInv /\ [Next]_vars => IInv'
<1> SUFFICES ASSUME IInv, [Next]_vars PROVE IInv'
  OBVIOUS
<1>1. CASE Execute
  BY <1>1, ExecuteStep
<1>2. CASE Interpret
  BY <1>2, SkipNodeStep, BeginNodeStep, FinishNodeStep, LoopingStep,
     StartActionStep, HandlerReturnsStep, HandlerRaisesStep,
     CallSubworkflowStep, TooDeepStep, ChildReturnsStep,
     PauseForApprovalStep, BeginReviewStep, EndReviewStep,
     StatementRaisesStep, TryAnotherStep, PropagateStep,
     ExecuteCompletesStep, ExecuteStopsStep, ExecuteRaisesStep DEF Interpret
<1>3. CASE HostCall
  BY <1>3, TransitionStep, RetryStep, FailStep, CapabilityStep DEF HostCall
<1>4. CASE Crash
  BY <1>4, CrashStep
<1>5. CASE Restore
  BY <1>5, RestoreStep
<1>6. CASE UNCHANGED vars
  BY <1>6 DEF vars, run, interpreter, history, IInv, RunOK, InterpreterOK,
              SavedOK, HistoryOK
<1> QED BY <1>1, <1>2, <1>3, <1>4, <1>5, <1>6 DEF Next

\* The invariant of the two stacks holds in every behaviour of the engine.
THEOREM Invariant == Spec => []IInv
BY InvariantInit, InvariantStep, PTL DEF Spec

\* Type correctness: whatever is called, retried, raised, crashed and restored,
\* the engine never pops a frame it does not have nor writes a malformed one.
THEOREM TypeCorrect == Spec => []TypeOK
<1>1. IInv => TypeOK
  BY DEF IInv, RunOK, InterpreterOK, SavedOK, HistoryOK, TypeOK
<1> QED BY <1>1, Invariant, PTL

\* definition.max_depth bounds the stack of every run, in memory and in the
\* checkpoint, for every graph: a workflow that calls itself is stopped.
THEOREM DepthIsBounded == Spec => []DepthBounded
<1>1. IInv => DepthBounded
  BY DEF IInv, RunOK, SavedOK, DepthBounded
<1> QED BY <1>1, Invariant, PTL

(***************************************************************************)
(* The stack of activations and the frames they run in                     *)
(***************************************************************************)

\* What a frame knows only grows.
Grown(f, g) == g.wf = f.wf /\ f.done \subseteq g.done /\ f.vals \subseteq g.vals

Loops == {"sequence", "parallel", "review"}
Composite == Loops \cup {"selector", "condition"}

\* The last node an activation has called, if it has called any.
Called(c) == c.phase = "child" \/ c.next > 0
Invoked(c) == IF c.phase = "child" THEN Root[Sub[c.node]] ELSE Children[c.node][c.next]

\* How far an activation is, and what its frame f knows of it.
Work(c, f) ==
    /\ c.next \in 0..Len(Children[c.node])
    /\ c.next > 0 => /\ Kind[c.node] \in Composite
                     /\ c.phase \in {"enter", "children", "exit"}
                     /\ Kind[c.node] = "review" => c.phase # "enter"
    /\ c.phase = "handler" => Kind[c.node] = "action"
    /\ c.phase = "child" => Kind[c.node] = "subworkflow"
    /\ c.phase \in {"reviewing", "children"} => Kind[c.node] = "review"
    /\ Kind[c.node] \in Loops =>
          \A k \in 1..(c.next - 1) : <<f.wf, Children[c.node][k]>> \in f.done
    /\ c.phase = "exit" => Justified(f, f.wf, c.node)

\* The frame an activation runs in: a subworkflow call runs its child one above.
Placed(d, cs, n) ==
    /\ d \in [1..Len(cs) -> 1..n]
    /\ \A i \in 1..Len(cs) :
          (IF i = Len(cs) THEN n ELSE d[i + 1])
             = IF cs[i].phase = "child" THEN d[i] + 1 ELSE d[i]
    /\ \A i \in 1..Len(cs) : \A j \in (i + 1)..Len(cs) : d[i] <= d[j]

Behind(d, cs, fs) ==
    \A i \in 1..Len(cs) :
        /\ Work(cs[i], fs[d[i]])
        /\ cs[i].phase = "child" => fs[d[i] + 1].wf = Sub[cs[i].node]
        /\ i < Len(cs) => Called(cs[i]) /\ cs[i + 1].node = Invoked(cs[i])

Chain(cs, fs) ==
    \E d \in [1..Len(cs) -> 1..Len(fs)] : Placed(d, cs, Len(fs)) /\ Behind(d, cs, fs)

Answered == calls # <<>> /\ ~raising /\ Called(Call) => KeyOf(Invoked(Call)) \in Top.done

AtRoot ==
    /\ calls # <<>> => calls[1].node = Root[definition]
    /\ executing /\ ~raising /\ calls = <<>> => KeyOf(Root[definition]) \in Top.done

\* An exception has left the activation that raised it, or is in its midst.
InMidst == raising => executing /\ (calls # <<>> => Call.phase # "visit")

ChainInv == Chain(calls, frames) /\ Answered /\ AtRoot /\ InMidst

\* A frame knows what the frames below it know.
Climbs(fs) ==
    \A i \in 1..Len(fs) : \A j \in i..Len(fs) :
        fs[i].done \subseteq fs[j].done /\ fs[i].vals \subseteq fs[j].vals

Closed(fs) == \A i \in 1..Len(fs) : \A k \in fs[i].done : Justified(fs[i], k[1], k[2])

StoreInv ==
    /\ Climbs(frames) /\ Climbs(saved.frames)
    /\ Closed(frames) /\ Closed(saved.frames)
    /\ ProgressIsSaved

\* A frame below the top waits for its child; a completed run has its outputs.
Waiting(fs) == \A i \in 1..(Len(fs) - 1) : fs[i].status = "waiting_for_child"
Completed(fs, outs) ==
    fs # <<>> /\ Last(fs).status = "completed" => Outputs[definition] \subseteq outs

OutputInv ==
    /\ Waiting(frames) /\ Waiting(saved.frames)
    /\ Completed(frames, outputs) /\ Completed(saved.frames, saved.outputs)

\* A run without subworkflow calls has one frame, of its own definition.
Alone(fs) ==
    \A i \in 1..Len(fs) :
        i = 1 /\ fs[i].wf = definition /\ \A k \in fs[i].done : k[1] = definition

OneFrame ==
    /\ Alone(frames) /\ Alone(saved.frames)
    /\ \A i \in 1..Len(calls) : Owner[calls[i].node] = definition

Pauses ==
    /\ ApprovalHolds
    /\ awaiting => saved.frames # <<>> /\ Last(saved.frames).status = "waiting_for_approval"
    /\ awaiting /\ calls # <<>> => Call.phase \notin {"handler", "reviewing"}

Ends == EndIsFinal /\ (ended # "none" => saved.frames # <<>>)

Cursors ==
    /\ \A n \in recorded :
          /\ Live => <<definition, n>> \in Top.done
          /\ saved.frames # <<>> /\ <<definition, n>> \in Last(saved.frames).done
    /\ calls # <<>> /\ Call.phase = "enter" /\ Kind[Call.node] = "action"
          => KeyOf(Call.node) \notin Top.done

FlatInv == Flat => OneFrame /\ Pauses /\ Ends /\ Cursors

(***************************************************************************)
(* The two stacks as a chain of calls                                      *)
(***************************************************************************)

\* What a node has needed stays there when the frame learns more.
LEMMA JustifiedGrows ==
    ASSUME NEW f, NEW g, f.done \subseteq g.done, f.vals \subseteq g.vals,
           NEW w, NEW n, Justified(f, w, n)
    PROVE  Justified(g, w, n)
<1>1. CASE Kind[n] \in {"sequence", "parallel", "review"}
  BY <1>1 DEF Justified
<1>2. CASE Kind[n] = "selector"
  BY <1>2 DEF Justified
<1>3. CASE Kind[n] = "action"
  BY <1>3 DEF Justified
<1>4. CASE Kind[n] = "subworkflow"
  BY <1>4 DEF Justified
<1>5. CASE Kind[n] \notin {"sequence", "parallel", "review", "selector", "action", "subworkflow"}
  BY <1>5 DEF Justified
<1> QED BY <1>1, <1>2, <1>3, <1>4, <1>5

\* The progress of an activation stays true when its frame learns more.
LEMMA WorkGrows ==
    ASSUME NEW c, NEW f, NEW g, Grown(f, g), Work(c, f)
    PROVE  Work(c, g)
<1>1. c.phase = "exit" => Justified(g, g.wf, c.node)
  BY JustifiedGrows DEF Grown, Work
<1> QED BY <1>1 DEF Grown, Work

\* The frame of the current activation is the top one, or the one below it
\* while the activation waits for a child.
LEMMA ChainTop ==
    ASSUME NEW cs \in Seq(Activation), cs # <<>>, NEW fs \in Seq(Frame), Chain(cs, fs)
    PROVE  /\ Len(fs) \in Nat \ {0}
           /\ Last(cs).phase # "child" => Work(Last(cs), Last(fs))
           /\ Last(cs).phase = "child" => /\ Len(fs) > 1
                                          /\ Work(Last(cs), fs[Len(fs) - 1])
                                          /\ Last(fs).wf = Sub[Last(cs).node]
<1> DEFINE l == Len(cs)
           n == Len(fs)
<1>1. PICK d \in [1..l -> 1..n] : Placed(d, cs, n) /\ Behind(d, cs, fs)
  BY DEF Chain
<1>2. l \in Nat \ {0} /\ l \in 1..l /\ n \in Nat /\ Last(cs) = cs[l]
  BY LastFront DEF Last
<1>3. d[l] \in 1..n /\ n = IF cs[l].phase = "child" THEN d[l] + 1 ELSE d[l]
  BY <1>1, <1>2 DEF Placed
<1>4. /\ Work(cs[l], fs[d[l]])
      /\ cs[l].phase = "child" => fs[d[l] + 1].wf = Sub[cs[l].node]
  BY <1>1, <1>2 DEF Behind
<1>5. n \in Nat \ {0} /\ Last(fs) = fs[n]
  BY <1>2, <1>3 DEF Last
<1>6. CASE cs[l].phase = "child"
  <2>1. d[l] + 1 = n /\ d[l] = n - 1 /\ n > 1
    BY <1>2, <1>3, <1>6
  <2> QED BY <1>2, <1>4, <1>5, <1>6, <2>1
<1>7. CASE cs[l].phase # "child"
  <2>1. d[l] = n
    BY <1>2, <1>3, <1>7
  <2> QED BY <1>2, <1>4, <1>5, <1>7, <2>1
<1> QED BY <1>6, <1>7

\* The activation below the current one has called its node.
LEMMA ChainBelow ==
    ASSUME NEW cs \in Seq(Activation), cs # <<>>, NEW fs \in Seq(Frame), Chain(cs, fs),
           Front(cs) # <<>>
    PROVE  Called(Last(Front(cs))) /\ Last(cs).node = Invoked(Last(Front(cs)))
<1> DEFINE l == Len(cs)
<1>1. PICK d \in [1..l -> 1..Len(fs)] : Placed(d, cs, Len(fs)) /\ Behind(d, cs, fs)
  BY DEF Chain
<1>2. /\ l \in Nat \ {0} /\ Len(Front(cs)) = l - 1 /\ Front(cs) \in Seq(Activation)
      /\ \A i \in 1..(l - 1) : Front(cs)[i] = cs[i]
  BY LastFront
<1>3. l - 1 \in Nat \ {0}
  BY <1>2, LastFront
<1>4. Last(Front(cs)) = cs[l - 1]
  <2>1. Last(Front(cs)) = Front(cs)[l - 1]
    BY <1>2 DEF Last
  <2> HIDE DEF l
  <2>2. l - 1 \in 1..(l - 1)
    BY <1>2, <1>3
  <2> QED BY <1>2, <2>1, <2>2
<1>5. l - 1 \in 1..l /\ l - 1 < l /\ l - 1 + 1 = l
  BY <1>2, <1>3
<1>6. Called(cs[l - 1]) /\ cs[l - 1 + 1].node = Invoked(cs[l - 1])
  BY <1>1, <1>5 DEF Behind
<1> QED BY <1>4, <1>5, <1>6 DEF Last

\* The frames learn more.
LEMMA ChainGrows ==
    ASSUME NEW cs \in Seq(Activation), NEW fs \in Seq(Frame), NEW gs \in Seq(Frame),
           Len(gs) = Len(fs), \A i \in 1..Len(fs) : Grown(fs[i], gs[i]), Chain(cs, fs)
    PROVE  Chain(cs, gs)
<1>1. PICK d \in [1..Len(cs) -> 1..Len(fs)] : Placed(d, cs, Len(fs)) /\ Behind(d, cs, fs)
  BY DEF Chain
<1>2. Behind(d, cs, gs)
  <2> SUFFICES ASSUME NEW i \in 1..Len(cs)
               PROVE  /\ Work(cs[i], gs[d[i]])
                      /\ cs[i].phase = "child" => gs[d[i] + 1].wf = Sub[cs[i].node]
                      /\ i < Len(cs) => Called(cs[i]) /\ cs[i + 1].node = Invoked(cs[i])
    BY DEF Behind
  <2>1. d[i] \in 1..Len(fs)
    BY <1>1
  <2>2. Work(cs[i], gs[d[i]])
    BY <1>1, <2>1, WorkGrows DEF Behind
  <2>3. ASSUME cs[i].phase = "child"
        PROVE  gs[d[i] + 1].wf = Sub[cs[i].node]
    <3>1. fs[d[i] + 1].wf = Sub[cs[i].node]
      BY <1>1, <2>3 DEF Behind
    <3>2. d[i] + 1 \in 1..Len(fs)
      <4>1. (IF i = Len(cs) THEN Len(fs) ELSE d[i + 1]) = d[i] + 1
        BY <1>1, <2>3 DEF Placed
      <4>2. CASE i = Len(cs)
        BY <2>1, <4>1, <4>2
      <4>3. CASE i # Len(cs)
        <5>1. i + 1 \in 1..Len(cs)
          BY <4>3
        <5> QED BY <1>1, <4>1, <4>3, <5>1
      <4> QED BY <4>2, <4>3
    <3> QED BY <3>1, <3>2 DEF Grown
  <2> QED BY <1>1, <2>2, <2>3 DEF Behind
<1> QED BY <1>1, <1>2 DEF Chain

\* The current activation goes on, and its frame is the top one: a subworkflow
\* call has lost its child's.
LEMMA ChainReplace ==
    ASSUME NEW cs \in Seq(Activation), cs # <<>>, NEW fs \in Seq(Frame), Chain(cs, fs),
           NEW gs \in Seq(Frame),
           Len(gs) = IF Last(cs).phase = "child" THEN Len(fs) - 1 ELSE Len(fs),
           \A i \in 1..Len(gs) : Grown(fs[i], gs[i]),
           NEW c \in Activation, c.phase # "child", c.node = Last(cs).node,
           Work(c, Last(gs))
    PROVE  Chain([cs EXCEPT ![Len(cs)] = c], gs)
<1> DEFINE l == Len(cs)
           n == Len(fs)
           m == Len(gs)
           ds == [cs EXCEPT ![Len(cs)] = c]
<1>1. PICK d \in [1..l -> 1..n] : Placed(d, cs, n) /\ Behind(d, cs, fs)
  BY DEF Chain
<1>2. /\ l \in Nat \ {0} /\ n \in Nat /\ Len(ds) = l /\ ds[l] = c
      /\ \A i \in 1..(l - 1) : ds[i] = cs[i]
  BY LastFront, ReplaceLast
<1> HIDE DEF ds
<1>3. d[l] = m /\ m \in 1..n /\ Last(gs) = gs[m] /\ cs[l] = Last(cs)
  <2>1. l \in 1..l /\ d[l] \in 1..n
    <3>1. l \in 1..l
      BY <1>2
    <3> HIDE DEF n
    <3> QED BY <1>1, <3>1
  <2>2. n = IF cs[l].phase = "child" THEN d[l] + 1 ELSE d[l]
    BY <1>1, <2>1 DEF Placed
  <2>3. cs[l] = Last(cs) /\ Last(gs) = gs[m]
    BY DEF Last
  <2> QED BY <1>2, <2>1, <2>2, <2>3
<1> HIDE DEF m
<1>4. \A i \in 1..(l - 1) :
         /\ d[i] \in 1..m
         /\ d[i + 1] = IF cs[i].phase = "child" THEN d[i] + 1 ELSE d[i]
         /\ d[i + 1] \in 1..m
  <2> SUFFICES ASSUME NEW i \in 1..(l - 1)
               PROVE  /\ d[i] \in 1..m
                      /\ d[i + 1] = IF cs[i].phase = "child" THEN d[i] + 1 ELSE d[i]
                      /\ d[i + 1] \in 1..m
    OBVIOUS
  <2>1. i \in 1..l /\ i # l /\ l \in (i + 1)..l /\ i + 1 \in 1..l
    BY <1>2
  <2>2. d[i + 1] = IF cs[i].phase = "child" THEN d[i] + 1 ELSE d[i]
    BY <1>1, <2>1 DEF Placed
  <2>3. d[i] \in 1..n /\ d[i] <= d[l] /\ d[i + 1] \in 1..n
    BY <1>1, <2>1 DEF Placed
  <2>4. d[i + 1] <= d[l]
    <3>1. CASE i + 1 = l
      BY <1>3, <3>1
    <3>2. CASE i + 1 # l
      <4>1. l \in (i + 1 + 1)..l
        BY <1>2, <2>1, <3>2
      <4> QED BY <1>1, <2>1, <4>1 DEF Placed
    <3> QED BY <3>1, <3>2
  <2> QED BY <1>3, <2>2, <2>3, <2>4
<1>5. d \in [1..l -> 1..m]
  <2> SUFFICES ASSUME NEW i \in 1..l PROVE d[i] \in 1..m
    BY <1>1
  <2>1. CASE i = l
    BY <1>2, <1>3, <2>1
  <2>2. CASE i # l
    <3>1. i \in 1..(l - 1)
      BY <1>2, <2>2
    <3> QED BY <1>4, <3>1
  <2> QED BY <2>1, <2>2
<1>6. Placed(d, ds, m)
  <2>1. \A i \in 1..l :
           (IF i = l THEN m ELSE d[i + 1]) = IF ds[i].phase = "child" THEN d[i] + 1 ELSE d[i]
    <3> SUFFICES ASSUME NEW i \in 1..l
                 PROVE  (IF i = l THEN m ELSE d[i + 1])
                          = IF ds[i].phase = "child" THEN d[i] + 1 ELSE d[i]
      OBVIOUS
    <3>1. CASE i = l
      BY <1>2, <1>3, <3>1
    <3>2. CASE i # l
      <4>1. i \in 1..(l - 1) /\ ds[i] = cs[i]
        BY <1>2, <3>2
      <4> QED BY <1>4, <3>2, <4>1
    <3> QED BY <3>1, <3>2
  <2>2. \A i \in 1..l : \A j \in (i + 1)..l : d[i] <= d[j]
    BY <1>1 DEF Placed
  <2> QED BY <1>2, <1>5, <2>1, <2>2 DEF Placed
<1>7. Behind(d, ds, gs)
  <2> SUFFICES ASSUME NEW i \in 1..l
               PROVE  /\ Work(ds[i], gs[d[i]])
                      /\ ds[i].phase = "child" => gs[d[i] + 1].wf = Sub[ds[i].node]
                      /\ i < l => Called(ds[i]) /\ ds[i + 1].node = Invoked(ds[i])
    BY <1>2 DEF Behind
  <2>1. CASE i = l
    BY <1>2, <1>3, <2>1
  <2>2. CASE i # l
    <3>1. i \in 1..(l - 1) /\ ds[i] = cs[i] /\ i < l
      BY <1>2, <2>2
    <3>2. ds[i + 1].node = cs[i + 1].node
      <4>1. CASE i + 1 = l
        BY <1>2, <1>3, <4>1
      <4>2. CASE i + 1 # l
        <5>1. i + 1 \in 1..(l - 1)
          BY <1>2, <3>1, <4>2
        <5> QED BY <1>2, <5>1
      <4> QED BY <4>1, <4>2
    <3>3. Grown(fs[d[i]], gs[d[i]])
      BY <1>4, <3>1 DEF m
    <3>4. Work(ds[i], gs[d[i]])
      BY <1>1, <3>1, <3>3, WorkGrows DEF Behind
    <3>5. ASSUME ds[i].phase = "child"
          PROVE  gs[d[i] + 1].wf = Sub[ds[i].node]
      <4>1. d[i] + 1 \in 1..m
        BY <1>4, <3>1, <3>5
      <4>2. Grown(fs[d[i] + 1], gs[d[i] + 1])
        BY <4>1 DEF m
      <4> QED BY <1>1, <3>1, <3>5, <4>2 DEF Behind, Grown
    <3> QED BY <1>1, <3>1, <3>2, <3>4, <3>5 DEF Behind
  <2> QED BY <2>1, <2>2
<1>8. Chain(ds, gs)
  <2>1. 1..Len(gs) = 1..m
    BY DEF m
  <2> QED BY <1>2, <1>5, <1>6, <1>7, <2>1 DEF Chain, m
<1> QED BY <1>8 DEF ds

\* The current activation returns or is left; a subworkflow call takes its
\* child's frame with it.
LEMMA ChainReturn ==
    ASSUME NEW cs \in Seq(Activation), cs # <<>>, NEW fs \in Seq(Frame), Chain(cs, fs)
    PROVE  /\ Last(cs).phase # "child" => Chain(Front(cs), fs)
           /\ Last(cs).phase = "child" => Chain(Front(cs), Front(fs))
<1> DEFINE l == Len(cs)
           n == Len(fs)
           ds == Front(cs)
           m == IF Last(cs).phase = "child" THEN n - 1 ELSE n
           gs == IF Last(cs).phase = "child" THEN Front(fs) ELSE fs
<1>1. PICK d \in [1..l -> 1..n] : Placed(d, cs, n) /\ Behind(d, cs, fs)
  BY DEF Chain
<1> DEFINE e == [i \in 1..(l - 1) |-> d[i]]
<1>2. /\ l \in Nat \ {0} /\ Len(ds) = l - 1
      /\ \A i \in 1..(l - 1) : ds[i] = cs[i]
  BY LastFront
<1> HIDE DEF ds
<1>3. /\ n \in Nat \ {0} /\ cs[l] = Last(cs)
      /\ Last(cs).phase = "child" => n > 1
  BY ChainTop DEF Last
<1>4. d[l] = m /\ m \in Nat \ {0}
  <2>1. n = IF cs[l].phase = "child" THEN d[l] + 1 ELSE d[l]
    BY <1>1, <1>2 DEF Placed
  <2>2. d[l] \in 1..n
    BY <1>1, <1>2
  <2> QED BY <1>3, <2>1, <2>2
<1>5. gs \in Seq(Frame) /\ Len(gs) = m /\ \A i \in 1..m : gs[i] = fs[i]
  <2>1. fs # <<>>
    BY <1>3
  <2>2. CASE Last(cs).phase = "child"
    BY <1>3, <2>1, <2>2, LastFront
  <2>3. CASE Last(cs).phase # "child"
    BY <1>3, <2>3
  <2> QED BY <2>2, <2>3
<1> HIDE DEF gs, m
<1>6. \A i \in 1..(l - 1) :
         /\ d[i] \in 1..m
         /\ (IF i = l - 1 THEN m ELSE d[i + 1])
               = IF cs[i].phase = "child" THEN d[i] + 1 ELSE d[i]
         /\ cs[i].phase = "child" => d[i] + 1 \in 1..m
  <2> SUFFICES ASSUME NEW i \in 1..(l - 1)
               PROVE  /\ d[i] \in 1..m
                      /\ (IF i = l - 1 THEN m ELSE d[i + 1])
                            = IF cs[i].phase = "child" THEN d[i] + 1 ELSE d[i]
                      /\ cs[i].phase = "child" => d[i] + 1 \in 1..m
    OBVIOUS
  <2>1. i \in 1..l /\ i # l /\ l \in (i + 1)..l /\ i + 1 \in 1..l
    BY <1>2
  <2>2. d[i + 1] = IF cs[i].phase = "child" THEN d[i] + 1 ELSE d[i]
    BY <1>1, <2>1 DEF Placed
  <2>3. d[i] \in 1..n /\ d[i] <= d[l] /\ d[i + 1] \in 1..n
    BY <1>1, <2>1 DEF Placed
  <2>4. d[i + 1] <= d[l]
    <3>1. CASE i + 1 = l
      BY <1>3, <1>4, <3>1
    <3>2. CASE i + 1 # l
      <4>1. l \in (i + 1 + 1)..l
        BY <1>2, <2>1, <3>2
      <4> QED BY <1>1, <2>1, <4>1 DEF Placed
    <3> QED BY <3>1, <3>2
  <2>5. i = l - 1 => d[i + 1] = m
    BY <1>2, <1>4
  <2> QED BY <1>3, <1>4, <2>2, <2>3, <2>4, <2>5
<1>7. e \in [1..Len(ds) -> 1..m]
  BY <1>2, <1>6
<1>8. Placed(e, ds, m)
  <2> HIDE DEF e
  <2>1. \A i \in 1..(l - 1) : e[i] = d[i]
    BY DEF e
  <2>2. \A i \in 1..(l - 1) : i + 1 # l => i + 1 \in 1..(l - 1)
    BY <1>2
  <2>3. \A i \in 1..(l - 1) :
           (IF i = l - 1 THEN m ELSE e[i + 1])
              = IF ds[i].phase = "child" THEN e[i] + 1 ELSE e[i]
    BY <1>2, <1>6, <2>1, <2>2
  <2>4. \A i \in 1..(l - 1) : \A j \in (i + 1)..(l - 1) : e[i] <= e[j]
    BY <1>1, <1>2, <2>1 DEF Placed
  <2> QED BY <1>2, <1>7, <2>3, <2>4 DEF Placed
<1>9. Behind(e, ds, gs)
  <2> SUFFICES ASSUME NEW i \in 1..(l - 1)
               PROVE  /\ Work(ds[i], gs[e[i]])
                      /\ ds[i].phase = "child" => gs[e[i] + 1].wf = Sub[ds[i].node]
                      /\ i < l - 1 => Called(ds[i]) /\ ds[i + 1].node = Invoked(ds[i])
    BY <1>2 DEF Behind
  <2>1. e[i] = d[i] /\ ds[i] = cs[i] /\ gs[d[i]] = fs[d[i]] /\ i \in 1..l
    BY <1>2, <1>5, <1>6
  <2>2. ds[i].phase = "child" => gs[d[i] + 1] = fs[d[i] + 1]
    BY <1>2, <1>5, <1>6
  <2>3. i < l - 1 => ds[i + 1] = cs[i + 1] /\ i < l
    BY <1>2
  <2> QED BY <1>1, <2>1, <2>2, <2>3 DEF Behind
<1>10. Chain(ds, gs)
  BY <1>5, <1>7, <1>8, <1>9 DEF Chain
<1> QED BY <1>10 DEF ds, gs

\* The current activation calls a node: in its own frame, or in a frame of a
\* child that is pushed for it.
LEMMA ChainCall ==
    ASSUME NEW cs \in Seq(Activation), cs # <<>>, NEW fs \in Seq(Frame), Chain(cs, fs),
           Last(cs).phase # "child",
           NEW c \in Activation, c.node = Last(cs).node, Work(c, Last(fs)), Called(c),
           NEW gs \in Seq(Frame), Len(gs) = IF c.phase = "child" THEN Len(fs) + 1 ELSE Len(fs),
           \A i \in 1..Len(fs) : Grown(fs[i], gs[i]),
           c.phase = "child" => Last(gs).wf = Sub[c.node],
           NEW v \in Activation, v.node = Invoked(c), v.phase # "child", Work(v, Last(gs))
    PROVE  Chain(Append([cs EXCEPT ![Len(cs)] = c], v), gs)
<1> DEFINE l == Len(cs)
           n == Len(fs)
           m == Len(gs)
           ds == Append([cs EXCEPT ![Len(cs)] = c], v)
<1>1. PICK d \in [1..l -> 1..n] : Placed(d, cs, n) /\ Behind(d, cs, fs)
  BY DEF Chain
<1> DEFINE e == [i \in 1..(l + 1) |-> IF i = l + 1 THEN m ELSE d[i]]
<1>2. /\ l \in Nat \ {0} /\ Len(ds) = l + 1
      /\ \A i \in 1..(l - 1) : ds[i] = cs[i]
      /\ ds[l] = c /\ ds[l + 1] = v
  <2>1. Len(cs) \in Nat \ {0}
    BY LastFront
  <2> QED BY <2>1, ReplaceLast
<1> HIDE DEF ds
<1>3. n \in Nat \ {0} /\ m \in Nat \ {0} /\ m = IF c.phase = "child" THEN n + 1 ELSE n
  BY ChainTop
<1>4. d[l] = n /\ Last(fs) = fs[n] /\ cs[l] = Last(cs) /\ Last(gs) = gs[m]
  <2>1. l \in 1..l
    BY <1>2
  <2>2. n = IF cs[l].phase = "child" THEN d[l] + 1 ELSE d[l]
    BY <1>1, <2>1 DEF Placed
  <2> QED BY <2>2 DEF Last
<1>5. \A i \in 1..l : d[i] \in 1..n /\ e[i] = d[i]
  <2>1. \A i \in 1..l : i \in 1..(l + 1) /\ i # l + 1
    BY <1>2
  <2> QED BY <1>1, <2>1
<1>6. e[l + 1] = m /\ e \in [1..(l + 1) -> 1..m]
  BY <1>1, <1>2, <1>3, <1>5
<1> HIDE DEF e, m
<1>7. \A i \in 1..(l - 1) :
         /\ e[i] = d[i] /\ ds[i] = cs[i] /\ e[i + 1] = d[i + 1]
         /\ d[i + 1] = IF cs[i].phase = "child" THEN d[i] + 1 ELSE d[i]
  <2> SUFFICES ASSUME NEW i \in 1..(l - 1)
               PROVE  /\ e[i] = d[i] /\ ds[i] = cs[i] /\ e[i + 1] = d[i + 1]
                      /\ d[i + 1] = IF cs[i].phase = "child" THEN d[i] + 1 ELSE d[i]
    OBVIOUS
  <2>1. i \in 1..l /\ i + 1 \in 1..l /\ i # l
    BY <1>2
  <2> QED BY <1>1, <1>2, <1>5, <2>1 DEF Placed
<1>8. Placed(e, ds, m)
  <2>1. \A i \in 1..(l + 1) :
          (IF i = l + 1 THEN m ELSE e[i + 1])
             = IF ds[i].phase = "child" THEN e[i] + 1 ELSE e[i]
    <3> SUFFICES ASSUME NEW i \in 1..(l + 1)
                 PROVE  (IF i = l + 1 THEN m ELSE e[i + 1])
                          = IF ds[i].phase = "child" THEN e[i] + 1 ELSE e[i]
      OBVIOUS
    <3>1. CASE i = l + 1
      BY <1>2, <1>6, <3>1
    <3>2. CASE i = l
      BY <1>2, <1>3, <1>4, <1>5, <1>6, <3>2
    <3>3. CASE i \in 1..(l - 1)
      BY <1>2, <1>7, <3>3
    <3> QED BY <1>2, <3>1, <3>2, <3>3
  <2>2. \A i \in 1..(l + 1) : \A j \in (i + 1)..(l + 1) : e[i] <= e[j]
    <3> SUFFICES ASSUME NEW i \in 1..(l + 1), NEW j \in (i + 1)..(l + 1)
                 PROVE  e[i] <= e[j]
      OBVIOUS
    <3>1. i \in 1..l /\ e[i] = d[i] /\ d[i] \in 1..n
      BY <1>2, <1>5
    <3>2. CASE j = l + 1
      BY <1>3, <1>6, <3>1, <3>2
    <3>3. CASE j # l + 1
      <4>1. j \in (i + 1)..l /\ j \in 1..l
        <5> HIDE DEF l
        <5> QED BY <1>2, <3>1, <3>3
      <4> QED BY <1>1, <1>5, <3>1, <4>1 DEF Placed
    <3> QED BY <3>2, <3>3
  <2> QED BY <1>2, <1>6, <2>1, <2>2 DEF Placed
<1>9. Behind(e, ds, gs)
  <2> SUFFICES ASSUME NEW i \in 1..(l + 1)
               PROVE  /\ Work(ds[i], gs[e[i]])
                      /\ ds[i].phase = "child" => gs[e[i] + 1].wf = Sub[ds[i].node]
                      /\ i < l + 1 => Called(ds[i]) /\ ds[i + 1].node = Invoked(ds[i])
    BY <1>2 DEF Behind
  <2>1. CASE i = l + 1
    BY <1>2, <1>4, <1>6, <2>1
  <2>2. CASE i = l
    <3>1. e[i] = n /\ ds[i] = c /\ ds[i + 1] = v /\ n \in 1..Len(fs)
      BY <1>2, <1>3, <1>4, <1>5, <2>2
    <3>2. Work(c, gs[n])
      BY <1>4, <3>1, WorkGrows
    <3>3. c.phase = "child" => m = n + 1
      BY <1>3
    <3> QED BY <1>4, <3>1, <3>2, <3>3
  <2>3. CASE i \in 1..(l - 1)
    <3>1. i \in 1..l /\ i < l /\ e[i] = d[i] /\ ds[i] = cs[i] /\ d[i] \in 1..n
      BY <1>2, <1>5, <1>7, <2>3
    <3>2. Work(ds[i], gs[e[i]])
      BY <1>1, <3>1, WorkGrows DEF Behind
    <3>3. ASSUME ds[i].phase = "child"
          PROVE  gs[e[i] + 1].wf = Sub[ds[i].node]
      <4>1. d[i] + 1 = d[i + 1] /\ i + 1 \in 1..l
        BY <1>7, <2>3, <3>1, <3>3
      <4>2. d[i] + 1 \in 1..n
        BY <1>5, <4>1
      <4> QED BY <1>1, <3>1, <3>3, <4>2 DEF Behind, Grown
    <3>4. ds[i + 1].node = cs[i + 1].node
      <4>1. CASE i + 1 = l
        BY <1>2, <1>4, <4>1
      <4>2. CASE i + 1 # l
        <5>1. i + 1 \in 1..(l - 1)
          BY <1>2, <3>1, <4>2
        <5> QED BY <1>7, <5>1
      <4> QED BY <4>1, <4>2
    <3> QED BY <1>1, <3>1, <3>2, <3>3, <3>4 DEF Behind
  <2> QED BY <1>2, <2>1, <2>2, <2>3
<1>10. Chain(ds, gs)
  <2> USE DEF m
  <2> QED BY <1>2, <1>6, <1>8, <1>9 DEF Chain
<1> QED BY <1>10 DEF ds

(***************************************************************************)
(* The chain is kept                                                       *)
(***************************************************************************)

\* Frames stay where they are and forget nothing.
Learns ==
    /\ Len(frames') = Len(frames)
    /\ \A i \in 1..Len(frames) : Grown(frames[i], frames'[i])

\* A frame that does not change knows what it knew.
LEMMA GrownSelf == \A f : Grown(f, f)
BY DEF Grown

\* Replacing the top frame by one that knows more.
LEMMA TopLearns ==
    ASSUME RunOK, frames # <<>>, NEW f \in Frame, SetTop(f), Grown(Top, f)
    PROVE  Learns /\ Top' = f /\ \A i \in 1..(Len(frames) - 1) : frames'[i] = frames[i]
<1>1. frames \in Seq(Frame) /\ Len(frames) \in Nat \ {0} /\ Top = frames[Len(frames)]
  BY LastFront DEF RunOK, Top, Last
<1>2. /\ Len(frames') = Len(frames) /\ frames'[Len(frames)] = f
      /\ \A i \in 1..(Len(frames) - 1) : frames'[i] = frames[i]
  BY <1>1, ReplaceLast DEF SetTop
<1>3. ASSUME NEW i \in 1..Len(frames) PROVE Grown(frames[i], frames'[i])
  <2>1. CASE i = Len(frames)
    BY <1>1, <1>2, <2>1
  <2>2. CASE i # Len(frames)
    <3>1. i \in 1..(Len(frames) - 1)
      BY <1>1, <2>2
    <3> QED BY <1>2, <3>1, GrownSelf
  <2> QED BY <2>1, <2>2
<1>4. Top' = f
  BY <1>2 DEF Top, Last
<1> QED BY <1>2, <1>3, <1>4 DEF Learns

\* A transition teaches the frame nothing and keeps what it knows.
LEMMA StatusLearns ==
    ASSUME RunOK, frames # <<>>, NEW st \in Status, GoTo(st)
    PROVE  Learns /\ Top' = [Top EXCEPT !.status = st]
             /\ \A i \in 1..(Len(frames) - 1) : frames'[i] = frames[i]
<1>1. Top \in Frame
  BY TopFrame
<1>2. [Top EXCEPT !.status = st] \in Frame /\ Grown(Top, [Top EXCEPT !.status = st])
  BY <1>1 DEF Frame, Grown
<1> QED BY <1>2, TopLearns DEF GoTo

\* What the top frame knows, it knows after the step.
LEMMA TopGrows ==
    ASSUME IInv, IInv', Learns, frames # <<>>
    PROVE  /\ Grown(Top, Top')
           /\ \A n : KeyOf(n)' = KeyOf(n) /\ (KeyOf(n) \in Top.done => KeyOf(n) \in Top'.done)
<1>1. frames \in Seq(Frame) /\ Len(frames) \in Nat \ {0}
  BY LastFront DEF IInv, RunOK
<1>2. Top = frames[Len(frames)] /\ Top' = frames'[Len(frames)]
  BY DEF Learns, Top, Last
<1>3. Grown(Top, Top')
  BY <1>1, <1>2 DEF Learns
<1> QED BY <1>3 DEF Grown, KeyOf

\* The chain over frames that learn.
LEMMA ChainLearns ==
    ASSUME IInv, IInv', Learns, Chain(calls, frames)
    PROVE  Chain(calls, frames')
BY ChainGrows DEF IInv, RunOK, InterpreterOK, Learns

\* The current activation holds a frame.
LEMMA CallHasFrame ==
    ASSUME IInv, calls # <<>>, Chain(calls, frames)
    PROVE  /\ calls \in Seq(Activation) /\ frames \in Seq(Frame) /\ frames # <<>>
           /\ Call \in Activation /\ Top \in Frame
           /\ Call.phase # "child" => Work(Call, Top)
<1>1. calls \in Seq(Activation) /\ frames \in Seq(Frame)
  BY DEF IInv, RunOK, InterpreterOK
<1>2. /\ Len(frames) \in Nat \ {0}
      /\ Last(calls).phase # "child" => Work(Last(calls), Last(frames))
  BY <1>1, ChainTop
<1>3. frames # <<>>
  BY <1>2
<1> QED BY <1>1, <1>2, <1>3, TopFrame, CurrentCall DEF IInv, Call, Top

\* An activation that called a node has begun.
LEMMA CalledPhase ==
    ASSUME NEW cs \in Seq(Activation), cs # <<>>, NEW fs \in Seq(Frame), Chain(cs, fs),
           Called(Last(cs))
    PROVE  Last(cs).phase # "visit"
BY ChainTop DEF Called, Work

\* No activation moves; the frames may learn, the interpreter may raise or end.
LEMMA ChainIdle ==
    ASSUME IInv, IInv', ChainInv, Learns, UNCHANGED <<calls, definition>>,
           \/ UNCHANGED <<executing, raising>>
           \/ raising' /\ executing' /\ (calls # <<>> => Call.phase # "visit")
           \/ calls = <<>> /\ ~executing' /\ ~raising'
    PROVE  ChainInv'
<1>1. Chain(calls', frames')
  BY ChainLearns DEF ChainInv
<1>2. Answered'
  <2> SUFFICES ASSUME calls # <<>>, ~raising', Called(Call)
               PROVE  KeyOf(Invoked(Call))' \in Top'.done
    BY DEF Answered, Call
  <2>1. ~raising
    <3>1. UNCHANGED <<executing, raising>>
      OBVIOUS
    <3> QED BY <3>1
  <2>2. KeyOf(Invoked(Call)) \in Top.done
    BY <2>1 DEF ChainInv, Answered
  <2>3. frames # <<>>
    BY CallHasFrame DEF ChainInv
  <2>4. Call' = Call
    BY DEF Call
  <2> QED BY <2>2, <2>3, <2>4, TopGrows DEF KeyOf, Grown
<1>3. AtRoot'
  <2>1. calls' # <<>> => calls'[1].node = Root[definition']
    BY DEF ChainInv, AtRoot
  <2>2. ASSUME executing', ~raising', calls' = <<>>
        PROVE  KeyOf(Root[definition])' \in Top'.done
    <3>1. UNCHANGED <<executing, raising>>
      BY <2>2
    <3>1a. executing /\ ~raising
      BY <2>2, <3>1
    <3>2. KeyOf(Root[definition]) \in Top.done /\ frames # <<>>
      BY <2>2, <3>1a DEF ChainInv, AtRoot, IInv, InterpreterOK
    <3> QED BY <3>2, TopGrows DEF KeyOf, Grown
  <2> QED BY <2>1, <2>2 DEF AtRoot
<1>4. InMidst'
  BY DEF ChainInv, InMidst, Call
<1> QED BY <1>1, <1>2, <1>3, <1>4 DEF ChainInv

\* The stack of activations after its top one went on, or called a node.
LEMMA PhaseStack ==
    ASSUME NEW cs \in Seq(Activation), cs # <<>>, NEW c \in Activation, c.node = Last(cs).node
    PROVE  /\ [cs EXCEPT ![Len(cs)] = c] # <<>>
           /\ Last([cs EXCEPT ![Len(cs)] = c]) = c
           /\ [cs EXCEPT ![Len(cs)] = c][1].node = cs[1].node
<1> DEFINE l == Len(cs)
           r == [cs EXCEPT ![Len(cs)] = c]
<1>1. /\ l \in Nat \ {0} /\ r \in Seq(Activation) /\ Len(r) = l /\ r # <<>>
      /\ r[l] = c /\ \A k \in 1..(l - 1) : r[k] = cs[k]
  BY LastFront, ReplaceLast
<1> HIDE DEF r
<1>2. r[1].node = cs[1].node
  <2>1. CASE l = 1
    BY <1>1, <2>1 DEF Last
  <2>2. CASE l # 1
    <3>1. 1 \in 1..(l - 1)
      <4> HIDE DEF l
      <4> QED BY <1>1, <2>2
    <3> QED BY <1>1, <3>1
  <2> QED BY <2>1, <2>2
<1>3. Last(r) = c
  BY <1>1 DEF Last
<1> QED BY <1>1, <1>2, <1>3 DEF r

\* The stack after the current activation has called another.
LEMMA InvokeStack ==
    ASSUME NEW cs \in Seq(Activation), cs # <<>>, NEW c \in Activation, c.node = Last(cs).node,
           NEW v \in Activation
    PROVE  /\ Append([cs EXCEPT ![Len(cs)] = c], v) # <<>>
           /\ Last(Append([cs EXCEPT ![Len(cs)] = c], v)) = v
           /\ Append([cs EXCEPT ![Len(cs)] = c], v)[1].node = cs[1].node
<1> DEFINE r == [cs EXCEPT ![Len(cs)] = c]
<1>1. r \in Seq(Activation) /\ r # <<>> /\ r[1].node = cs[1].node
  BY PhaseStack, ReplaceLast
<1> HIDE DEF r
<1>2. Len(r) \in Nat \ {0}
  BY <1>1
<1>3. /\ Append(r, v) \in Seq(Activation) /\ Len(Append(r, v)) = Len(r) + 1
      /\ Append(r, v)[Len(r) + 1] = v /\ Append(r, v)[1] = r[1]
  BY <1>1, <1>2
<1> QED BY <1>1, <1>2, <1>3 DEF r, Last

\* The current activation goes on to another phase.
LEMMA ChainGoesOn ==
    ASSUME IInv, IInv', ChainInv, Learns, NEW p, At(p), p # "child",
           UNCHANGED <<definition, executing, raising>>,
           NEW q \in Phases \ {"child"}, Phase(q),
           Work([Call EXCEPT !.phase = q], Top')
    PROVE  ChainInv'
<1> DEFINE c == [Call EXCEPT !.phase = q]
<1>1. /\ calls # <<>> /\ Call.phase = p /\ ~raising /\ executing
      /\ calls \in Seq(Activation) /\ frames' \in Seq(Frame) /\ frames # <<>>
      /\ Call \in Activation /\ Call = Last(calls)
  BY CallHasFrame DEF At, ChainInv, Call, IInv, RunOK
<1>2. /\ c \in Activation /\ c.phase # "child" /\ c.node = Call.node /\ c.next = Call.next
  BY <1>1 DEF Activation
<1>3. calls' = [calls EXCEPT ![Len(calls)] = c]
  BY DEF Phase, SetCall
<1>0. Work(c, Top')
  OBVIOUS
<1> HIDE DEF c
<1>4. Chain(calls, frames')
  BY ChainLearns DEF ChainInv
<1>5. Chain(calls', frames')
  <2>1. Top' = Last(frames')
    BY DEF Top
  <2>2. \A i \in 1..Len(frames') : Grown(frames'[i], frames'[i])
    BY GrownSelf
  <2> QED BY <1>0, <1>1, <1>2, <1>3, <1>4, <2>1, <2>2, ChainReplace
<1>6. calls' # <<>> /\ Call' = c /\ calls'[1].node = calls[1].node
  BY <1>1, <1>2, <1>3, PhaseStack DEF Call
<1>7. Answered'
  <2> SUFFICES ASSUME Called(c) PROVE <<Top'.wf, Invoked(c)>> \in Top'.done
    BY <1>6 DEF Answered, KeyOf
  <2>1. Called(Call) /\ Invoked(c) = Invoked(Call)
    BY <1>1, <1>2 DEF Called, Invoked
  <2>2. KeyOf(Invoked(Call)) \in Top.done
    BY <1>1, <2>1 DEF ChainInv, Answered
  <2> QED BY <1>1, <1>6, <2>1, <2>2, TopGrows DEF KeyOf, Grown
<1>8. AtRoot'
  BY <1>1, <1>6 DEF ChainInv, AtRoot
<1>9. InMidst'
  BY <1>1 DEF InMidst
<1> QED BY <1>5, <1>7, <1>8, <1>9 DEF ChainInv

\* The current activation returns with its node recorded, or an exception
\* leaves it.
LEMMA ChainGoesBack ==
    ASSUME IInv, IInv', ChainInv, Learns, calls # <<>>, Call.phase # "child",
           UNCHANGED <<definition, executing, raising>>, Return,
           raising \/ KeyOf(Call.node) \in Top'.done
    PROVE  ChainInv'
<1>1. /\ calls \in Seq(Activation) /\ frames' \in Seq(Frame) /\ frames # <<>>
      /\ Call \in Activation /\ Call = Last(calls) /\ calls' = Front(calls)
  BY CallHasFrame DEF ChainInv, Call, IInv, RunOK, Return
<1>2. Chain(calls, frames')
  BY ChainLearns DEF ChainInv
<1>3. Chain(calls', frames')
  BY <1>1, <1>2, ChainReturn
<1>4. Answered'
  <2> SUFFICES ASSUME calls' # <<>>, ~raising, Called(Call')
               PROVE  <<Top'.wf, Invoked(Call')>> \in Top'.done
    BY DEF Answered, KeyOf
  <2>1. Call.node = Invoked(Call')
    <3>1. Last(calls).node = Invoked(Last(Front(calls)))
      BY <1>1, <1>2, ChainBelow
    <3> QED BY <1>1, <3>1 DEF Call
  <2>2. KeyOf(Call.node) \in Top'.done
    OBVIOUS
  <2> QED BY <1>1, <2>1, <2>2, TopGrows DEF KeyOf, Grown
<1>5. AtRoot'
  <2>1. /\ Len(calls) \in Nat \ {0} /\ Len(calls') = Len(calls) - 1
        /\ calls' \in Seq(Activation)
        /\ \A i \in 1..(Len(calls) - 1) : calls'[i] = calls[i]
    BY <1>1, LastFront
  <2>2. calls[1].node = Root[definition]
    BY DEF ChainInv, AtRoot
  <2>3. CASE Len(calls) = 1
    <3>1. calls' = <<>> /\ Call = calls[1]
      BY <1>1, <2>1, <2>3 DEF Last
    <3>2. ~raising => KeyOf(Root[definition])' \in Top'.done
      BY <1>1, <2>2, <3>1, TopGrows DEF KeyOf, Grown
    <3> QED BY <3>1, <3>2 DEF AtRoot
  <2>4. CASE Len(calls) # 1
    <3>1. 1 \in 1..(Len(calls) - 1) /\ calls' # <<>>
      BY <2>1, <2>4
    <3> QED BY <2>1, <2>2, <3>1 DEF AtRoot
  <2> QED BY <2>3, <2>4
<1>6. InMidst'
  <2>1. calls' # <<>> => Call'.phase # "visit"
    <3> SUFFICES ASSUME calls' # <<>> PROVE Call'.phase # "visit"
      OBVIOUS
    <3>1. Called(Call')
      BY <1>1, <1>2, ChainBelow DEF Call
    <3>2. calls' \in Seq(Activation)
      BY DEF IInv, InterpreterOK
    <3> QED BY <1>1, <1>3, <3>1, <3>2, CalledPhase DEF Call
  <2>2. raising' => executing'
    BY DEF ChainInv, InMidst
  <2> QED BY <2>1, <2>2 DEF InMidst
<1> QED BY <1>3, <1>4, <1>5, <1>6 DEF ChainInv

\* A visit has done nothing yet.
LEMMA VisitWork ==
    ASSUME NEW n \in Nodes, NEW f
    PROVE  Work(VisitOf(n), f) /\ ~Called(VisitOf(n)) /\ VisitOf(n) \in Activation
<1>1. Children[n] \in Seq(Nodes)
  BY GraphAssumption
<1> QED BY <1>1 DEF Work, VisitOf, Called, Activation, Phases

\* The current activation executes a child.
LEMMA ChainGoesDown ==
    ASSUME IInv, IInv', ChainInv, calls # <<>>, Call.phase # "child",
           UNCHANGED <<frames, definition, executing>>, raising' = FALSE,
           NEW i \in 1..Len(ChildrenOf(Call)), ExecuteChild(i),
           Work([Call EXCEPT !.next = i], Top)
    PROVE  ChainInv'
<1> DEFINE c == [Call EXCEPT !.next = i]
           v == VisitOf(ChildrenOf(Call)[i])
<1>1. /\ calls \in Seq(Activation) /\ frames \in Seq(Frame) /\ frames # <<>>
      /\ Call \in Activation /\ Call = Last(calls) /\ Top = Last(frames)
  BY CallHasFrame DEF ChainInv, Call, Top
<1>2. ChildrenOf(Call) \in Seq(Nodes) /\ ChildrenOf(Call)[i] \in Nodes /\ i \in Nat \ {0}
  <2>1. ChildrenOf(Call) \in Seq(Nodes)
    BY <1>1, GraphAssumption DEF ChildrenOf, Activation
  <2> QED BY <2>1
<1>3. /\ c \in Activation /\ c.node = Call.node /\ c.phase = Call.phase /\ c.next = i
  BY <1>1, <1>2 DEF Activation
<1>4. /\ v \in Activation /\ v.phase # "child" /\ v.node = ChildrenOf(Call)[i]
      /\ Work(v, Last(frames)) /\ ~Called(v)
  BY <1>2, VisitWork DEF VisitOf
<1>5. calls' = Append([calls EXCEPT ![Len(calls)] = c], v)
  BY DEF ExecuteChild, Invoke
<1>0. Work(c, Top)
  OBVIOUS
<1> HIDE DEF c, v
<1>6. Called(c) /\ Invoked(c) = v.node
  BY <1>2, <1>3, <1>4 DEF Called, Invoked, ChildrenOf
<1>7. Chain(calls', frames')
  <2>1. Chain(calls, frames)
    BY DEF ChainInv
  <2>2. \A k \in 1..Len(frames) : Grown(frames[k], frames[k])
    BY GrownSelf
  <2>3. Chain(Append([calls EXCEPT ![Len(calls)] = c], v), frames)
    BY <1>0, <1>1, <1>3, <1>4, <1>6, <2>1, <2>2, ChainCall
  <2> QED BY <1>5, <2>3
<1>8. calls' # <<>> /\ calls'[1].node = calls[1].node /\ Call' = v
  BY <1>1, <1>3, <1>4, <1>5, InvokeStack DEF Call
<1>9. Answered'
  BY <1>4, <1>8 DEF Answered
<1>10. AtRoot'
  BY <1>8 DEF ChainInv, AtRoot
<1>11. InMidst'
  BY DEF InMidst
<1> QED BY <1>7, <1>9, <1>10, <1>11 DEF ChainInv

\* The steps of an activation need its progress and what it was answered.
LEMMA AtWork ==
    ASSUME IInv, ChainInv, NEW p, At(p), p # "child"
    PROVE  /\ executing /\ ~raising /\ calls # <<>> /\ Call.phase = p
           /\ frames # <<>> /\ RunOK
           /\ Call \in Activation /\ Call.next \in Nat /\ Top \in Frame /\ Call.node \in Nodes
           /\ ChildrenOf(Call) \in Seq(Nodes) /\ ChildrenOf(Call) = Children[Call.node]
           /\ Len(ChildrenOf(Call)) \in Nat
           /\ Work(Call, Top)
           /\ Call.next > 0 => <<Top.wf, ChildrenOf(Call)[Call.next]>> \in Top.done
<1>1. /\ executing /\ ~raising /\ calls # <<>> /\ Call.phase = p
  BY DEF At
<1>2. /\ frames # <<>> /\ Call \in Activation /\ Top \in Frame /\ Work(Call, Top)
  BY <1>1, CallHasFrame DEF ChainInv
<1>3. /\ Call.node \in Nodes /\ Call.next \in Nat
      /\ ChildrenOf(Call) \in Seq(Nodes) /\ ChildrenOf(Call) = Children[Call.node]
  BY <1>2, GraphAssumption DEF ChildrenOf, Activation
<1>4. Call.next > 0 => <<Top.wf, ChildrenOf(Call)[Call.next]>> \in Top.done
  BY <1>1, <1>3 DEF ChainInv, Answered, Called, Invoked, KeyOf
<1>5. Len(ChildrenOf(Call)) \in Nat
  BY <1>3
<1> QED BY <1>1, <1>2, <1>3, <1>4, <1>5 DEF IInv

\* Frames that stay as they are learn nothing and forget nothing.
LEMMA SameLearns == ASSUME UNCHANGED frames PROVE Learns /\ Top' = Top
BY GrownSelf DEF Learns, Top

\* A recorded node is skipped: its cursor answers the caller.
LEMMA ChainSkip == ASSUME IInv, IInv', ChainInv, SkipNode PROVE ChainInv'
<1>1. /\ At("visit") /\ KeyOf(Call.node) \in Top.done /\ Return
      /\ UNCHANGED <<frames, definition, executing, raising>>
  BY DEF SkipNode, IsRecorded, Quiet, Kept
<1>2. Learns /\ Top' = Top
  BY <1>1, SameLearns
<1>3. calls # <<>> /\ Call.phase = "visit"
  BY <1>1 DEF At
<1> QED BY <1>1, <1>2, <1>3, ChainGoesBack

\* A node is entered with nothing done.
LEMMA ChainBegin == ASSUME IInv, IInv', ChainInv, BeginNode PROVE ChainInv'
<1> DEFINE f == [Top EXCEPT !.at = Call.node]
<1>1. /\ At("visit") /\ SetTop(f) /\ Phase("enter")
      /\ UNCHANGED <<definition, executing, raising>>
  BY DEF BeginNode, Quiet, Kept
<1>2. /\ Call.phase = "visit" /\ Call \in Activation /\ Call.node \in Nodes /\ Call.next \in Nat
      /\ Top \in Frame /\ Work(Call, Top) /\ RunOK /\ frames # <<>>
  BY <1>1, AtWork
<1>3. f \in Frame /\ Grown(Top, f)
  BY <1>2 DEF Frame, Grown
<1> HIDE DEF f
<1>4. Learns /\ Top' = f
  BY <1>1, <1>2, <1>3, TopLearns
<1>5. Work([Call EXCEPT !.phase = "enter"], Top')
  <2>1. Work(Call, f)
    BY <1>2, <1>3, WorkGrows
  <2>2. Call.next = 0
    BY <1>2 DEF Work
  <2> QED BY <1>2, <1>4, <2>1, <2>2 DEF Work, Activation
<1> QED BY <1>1, <1>4, <1>5, ChainGoesOn DEF Phases

\* A finished node is recorded: its cursor answers the caller.
LEMMA ChainFinish == ASSUME IInv, IInv', ChainInv, FinishNode PROVE ChainInv'
<1> DEFINE f == [Top EXCEPT !.done = @ \cup {KeyOf(Call.node)}]
<1>1. /\ At("exit") /\ SetTop(f) /\ Return
      /\ UNCHANGED <<definition, executing, raising>>
  BY DEF FinishNode, Quiet, Kept
<1>2. /\ Call.phase = "exit" /\ calls # <<>> /\ Call.node \in Nodes
      /\ Top \in Frame /\ RunOK /\ frames # <<>>
  BY <1>1, AtWork
<1>3. f \in Frame /\ Grown(Top, f) /\ KeyOf(Call.node) \in f.done
  BY <1>2 DEF Frame, Grown, KeyOf, Key
<1> HIDE DEF f
<1>4. Learns /\ Top' = f
  BY <1>1, <1>2, <1>3, TopLearns
<1> QED BY <1>1, <1>2, <1>3, <1>4, ChainGoesBack

\* A loop executes its next child: the ones before are recorded.
LEMMA ChainNext == ASSUME IInv, IInv', ChainInv, NextChild PROVE ChainInv'
<1> DEFINE i == Call.next + 1
<1>1. PICK p \in {"enter", "children"} : At(p)
  BY DEF NextChild, Looping, In
<1>2. /\ calls # <<>> /\ Call.phase = p /\ Call.phase # "child" /\ ~raising
      /\ Call \in Activation /\ Call.next \in Nat /\ Call.node \in Nodes
      /\ ChildrenOf(Call) \in Seq(Nodes) /\ ChildrenOf(Call) = Children[Call.node]
      /\ Len(ChildrenOf(Call)) \in Nat
      /\ Work(Call, Top)
      /\ Call.next > 0 => <<Top.wf, ChildrenOf(Call)[Call.next]>> \in Top.done
  BY <1>1, AtWork
<1>3. UNCHANGED <<frames, definition, executing, raising>>
  BY DEF NextChild, Quiet, Kept
<1>4. raising' = FALSE
  BY <1>2, <1>3 DEF IInv, InterpreterOK
<1>5. i \in 1..Len(ChildrenOf(Call)) /\ ExecuteChild(i)
  BY <1>2 DEF NextChild
<1>6. Kind[Call.node] \in Loops /\ (Kind[Call.node] = "review" => Call.phase = "children")
  BY DEF NextChild, Looping, In, At, Loops
<1>7. \A k \in 1..Call.next : <<Top.wf, Children[Call.node][k]>> \in Top.done
  <2> SUFFICES ASSUME NEW k \in 1..Call.next
               PROVE  <<Top.wf, Children[Call.node][k]>> \in Top.done
    OBVIOUS
  <2>1. CASE k = Call.next
    BY <1>2, <2>1
  <2>2. CASE k # Call.next
    <3>1. k \in 1..(Call.next - 1)
      BY <1>2, <2>2
    <3> QED BY <1>2, <1>6, <3>1 DEF Work
  <2> QED BY <2>1, <2>2
<1>8. Work([Call EXCEPT !.next = i], Top)
  <2>1. i - 1 = Call.next /\ i \in 0..Len(Children[Call.node])
    BY <1>2, <1>5
  <2>2. /\ [Call EXCEPT !.next = i].next = i /\ [Call EXCEPT !.next = i].node = Call.node
        /\ [Call EXCEPT !.next = i].phase = Call.phase
    BY <1>2 DEF Activation
  <2> HIDE DEF i
  <2> QED BY <1>1, <1>2, <1>6, <1>7, <2>1, <2>2 DEF Work, Loops, Composite
<1> HIDE DEF i
<1> QED BY <1>2, <1>3, <1>4, <1>5, <1>8, ChainGoesDown

\* A selector or a condition executes one of its children.
LEMMA ChainChooses ==
    ASSUME IInv, IInv', ChainInv, calls # <<>>, Call.phase = "enter",
           Kind[Call.node] \in {"selector", "condition"},
           UNCHANGED <<frames, definition, executing>>, raising' = FALSE,
           NEW i \in 1..Len(ChildrenOf(Call)), ExecuteChild(i)
    PROVE  ChainInv'
<1>1. Call \in Activation /\ Work(Call, Top)
  BY CallHasFrame DEF ChainInv
<1>2. Children[Call.node] \in Seq(Nodes) /\ ChildrenOf(Call) = Children[Call.node]
  BY <1>1, GraphAssumption DEF ChildrenOf, Activation
<1>3. i \in 0..Len(Children[Call.node]) /\ i \in Nat
  BY <1>2
<1>4. /\ [Call EXCEPT !.next = i].next = i /\ [Call EXCEPT !.next = i].node = Call.node
      /\ [Call EXCEPT !.next = i].phase = Call.phase
  BY <1>1 DEF Activation
<1>5. Work([Call EXCEPT !.next = i], Top)
  BY <1>1, <1>3, <1>4 DEF Work, Loops, Composite
<1> QED BY <1>5, ChainGoesDown

\* A selector starts with its first child.
LEMMA ChainFirst == ASSUME IInv, IInv', ChainInv, TryFirst PROVE ChainInv'
<1>1. At("enter") /\ Kind[Call.node] = "selector" /\ ExecuteChild(1) /\ ChildrenOf(Call) # <<>>
  BY DEF TryFirst, In
<1>2. /\ calls # <<>> /\ Call.phase = "enter" /\ ~raising
      /\ ChildrenOf(Call) \in Seq(Nodes) /\ Len(ChildrenOf(Call)) \in Nat
  BY <1>1, AtWork
<1>3. 1 \in 1..Len(ChildrenOf(Call))
  BY <1>1, <1>2
<1>4. UNCHANGED <<frames, definition, executing>> /\ raising' = FALSE
  BY <1>2 DEF TryFirst, Quiet, Kept, IInv, InterpreterOK
<1> QED BY <1>1, <1>2, <1>3, <1>4, ChainChooses

\* A selector that catches an exception goes on with its next child.
LEMMA ChainAnother == ASSUME IInv, IInv', ChainInv, TryAnother PROVE ChainInv'
<1>1. /\ calls # <<>> /\ raising /\ Kind[Call.node] = "selector"
      /\ Call.next < Len(ChildrenOf(Call)) /\ ExecuteChild(Call.next + 1)
      /\ UNCHANGED <<frames, definition, executing>> /\ raising' = FALSE
  BY DEF TryAnother, Unwinding, Catches, Kept
<1>2. /\ Call \in Activation /\ frames # <<>>
      /\ Call.next \in Nat /\ Len(ChildrenOf(Call)) \in Nat
      /\ Call.next + 1 \in 1..Len(ChildrenOf(Call))
  <2>1. Call \in Activation /\ frames # <<>>
    BY <1>1, CallHasFrame DEF ChainInv
  <2>2. Call.next \in Nat /\ ChildrenOf(Call) \in Seq(Nodes)
    BY <2>1, GraphAssumption DEF ChildrenOf, Activation
  <2> QED BY <1>1, <2>1, <2>2
<1>3. Call.phase # "child"
  <2>1. Chain(calls, frames) /\ calls \in Seq(Activation) /\ frames \in Seq(Frame)
    BY DEF ChainInv, IInv, RunOK, InterpreterOK
  <2>2. Call.phase = "child" => Work(Call, frames[Len(frames) - 1])
    BY <1>1, <2>1, ChainTop DEF Call
  <2> QED BY <1>1, <2>2 DEF Work
<1>4. Work(Call, Top)
  BY <1>1, <1>3, CallHasFrame DEF ChainInv
<1> DEFINE i == Call.next + 1
           c == [Call EXCEPT !.next = i]
<1>5. c.next = i /\ c.node = Call.node /\ c.phase = Call.phase
  BY <1>2 DEF Activation
<1>6. Work(c, Top)
  <2>1. Call.phase # "visit" /\ Call.phase \in Phases
    BY <1>1, <1>2 DEF ChainInv, InMidst, Activation
  <2>2. Call.phase \in {"enter", "exit"}
    BY <1>1, <1>3, <1>4, <2>1 DEF Work, Phases
  <2>3. i \in 0..Len(Children[Call.node]) /\ i \in Nat
    BY <1>2 DEF ChildrenOf
  <2> HIDE DEF c, i
  <2> QED BY <1>1, <1>4, <1>5, <2>2, <2>3 DEF Work, Loops, Composite
<1> QED BY <1>1, <1>2, <1>3, <1>6, ChainGoesDown

\* A condition takes a branch, or has none to take.
LEMMA ChainBranch == ASSUME IInv, IInv', ChainInv, TakeBranch PROVE ChainInv'
<1>1. PICK b \in {1, 2} :
        IF b <= Len(ChildrenOf(Call)) THEN ExecuteChild(b) ELSE Phase("exit")
  BY DEF TakeBranch
<1>2. At("enter") /\ Kind[Call.node] = "condition"
      /\ UNCHANGED <<frames, definition, executing, raising>>
  BY DEF TakeBranch, In, Quiet, Kept
<1>3. /\ calls # <<>> /\ Call.phase = "enter" /\ ~raising /\ Call \in Activation
      /\ Len(ChildrenOf(Call)) \in Nat /\ Work(Call, Top)
  BY <1>2, AtWork
<1>4. CASE b <= Len(ChildrenOf(Call))
  <2>1. b \in 1..Len(ChildrenOf(Call)) /\ ExecuteChild(b)
    BY <1>1, <1>3, <1>4
  <2>2. raising' = FALSE
    BY <1>2, <1>3 DEF IInv, InterpreterOK
  <2> QED BY <1>2, <1>3, <2>1, <2>2, ChainChooses
<1>5. CASE ~(b <= Len(ChildrenOf(Call)))
  <2>1. Phase("exit") /\ Learns /\ Top' = Top
    BY <1>1, <1>2, <1>5, SameLearns
  <2>2. Justified(Top, Top.wf, Call.node)
    BY <1>2 DEF Justified
  <2>3. Work([Call EXCEPT !.phase = "exit"], Top')
    BY <1>2, <1>3, <2>1, <2>2 DEF Work, Loops, Composite, Activation
  <2> QED BY <1>2, <2>1, <2>3, ChainGoesOn DEF Phases
<1> QED BY <1>4, <1>5

\* A composite node ends when its children, or the child it chose, are recorded.
LEMMA ChainEnds ==
    ASSUME IInv, IInv', ChainInv, LastChildReturned \/ ChildSelected \/ BranchReturned
    PROVE  ChainInv'
<1>1. PICK p \in {"enter", "children"} : At(p)
  BY DEF LastChildReturned, ChildSelected, BranchReturned, Looping, In
<1>2. /\ Phase("exit") /\ UNCHANGED <<frames, definition, executing, raising>>
  BY DEF LastChildReturned, ChildSelected, BranchReturned, Quiet, Kept
<1>3. /\ Call.phase = p /\ Call \in Activation /\ Call.next \in Nat
      /\ ChildrenOf(Call) \in Seq(Nodes) /\ ChildrenOf(Call) = Children[Call.node]
      /\ Len(ChildrenOf(Call)) \in Nat /\ Work(Call, Top)
      /\ Call.next > 0 => <<Top.wf, Children[Call.node][Call.next]>> \in Top.done
  BY <1>1, AtWork
<1>4. Kind[Call.node] \in Composite /\ (Kind[Call.node] = "review" => p = "children")
  BY <1>1 DEF LastChildReturned, ChildSelected, BranchReturned, Looping, In, At,
              Composite, Loops
<1>5. Justified(Top, Top.wf, Call.node)
  <2>1. CASE LastChildReturned
    <3>1. Kind[Call.node] \in {"sequence", "parallel", "review"}
          /\ Call.next = Len(Children[Call.node])
      BY <1>3, <2>1 DEF LastChildReturned, Looping, In
    <3>2. \A k \in 1..Len(Children[Call.node]) : <<Top.wf, Children[Call.node][k]>> \in Top.done
      <4> SUFFICES ASSUME NEW k \in 1..Len(Children[Call.node])
                   PROVE  <<Top.wf, Children[Call.node][k]>> \in Top.done
        OBVIOUS
      <4>1. CASE k = Call.next
        BY <1>3, <4>1
      <4>2. CASE k # Call.next
        <5>1. k \in 1..(Call.next - 1)
          BY <1>3, <3>1, <4>2
        <5> QED BY <1>3, <3>1, <5>1 DEF Work, Loops
      <4> QED BY <4>1, <4>2
    <3> QED BY <3>1, <3>2 DEF Justified
  <2>2. CASE ChildSelected
    <3>1. Kind[Call.node] = "selector" /\ (Call.next > 0 \/ Children[Call.node] = <<>>)
      BY <1>3, <2>2 DEF ChildSelected, In
    <3>2. \/ Children[Call.node] = <<>>
          \/ \E k \in 1..Len(Children[Call.node]) :
                <<Top.wf, Children[Call.node][k]>> \in Top.done
      <4>1. Call.next > 0 => Call.next \in 1..Len(Children[Call.node])
        BY <1>3 DEF Work
      <4> QED BY <1>3, <3>1, <4>1
    <3> QED BY <3>1, <3>2 DEF Justified
  <2>3. CASE BranchReturned
    <3>1. Kind[Call.node] = "condition"
      BY <2>3 DEF BranchReturned, In
    <3> QED BY <3>1 DEF Justified
  <2> QED BY <2>1, <2>2, <2>3
<1>6. Learns /\ Top' = Top
  BY <1>2, SameLearns
<1>7. Work([Call EXCEPT !.phase = "exit"], Top')
  BY <1>3, <1>4, <1>5, <1>6 DEF Work, Loops, Composite, Activation
<1> QED BY <1>1, <1>2, <1>6, <1>7, ChainGoesOn DEF Phases

\* The status of the top frame changes while an activation goes on.
LEMMA ChainStatus ==
    ASSUME IInv, IInv', ChainInv, NEW p, At(p), p # "child", NEW st \in Status, GoTo(st),
           NEW q \in Phases \ {"child"}, Phase(q),
           UNCHANGED <<definition, executing, raising>>,
           Call.next = 0, q = "exit" => Kind[Call.node] = "approval",
           q = "handler" => Kind[Call.node] = "action",
           q \in {"reviewing", "children"} => Kind[Call.node] = "review"
    PROVE  ChainInv'
<1>1. /\ Call \in Activation /\ Top \in Frame /\ RunOK /\ frames # <<>> /\ Work(Call, Top)
  BY AtWork
<1>2. Learns /\ Top' = [Top EXCEPT !.status = st]
  BY <1>1, StatusLearns
<1>3. q = "exit" => Justified(Top', Top'.wf, Call.node)
  BY DEF Justified
<1>4. Work([Call EXCEPT !.phase = q], Top')
  <2>1. Top'.wf = Top.wf /\ Top'.done = Top.done
    BY <1>1, <1>2 DEF Frame
  <2>2. /\ [Call EXCEPT !.phase = q].phase = q /\ [Call EXCEPT !.phase = q].next = 0
        /\ [Call EXCEPT !.phase = q].node = Call.node
    BY <1>1 DEF Activation
  <2> QED BY <1>1, <1>3, <2>1, <2>2 DEF Work, Loops
<1> QED BY <1>2, <1>4, ChainGoesOn

\* An action starts, an approval pauses the run, a review begins and ends.
LEMMA ChainTransitions ==
    ASSUME IInv, IInv', ChainInv, StartAction \/ PauseForApproval \/ BeginReview \/ EndReview
    PROVE  ChainInv'
<1>1. UNCHANGED <<definition, executing, raising>>
  BY DEF StartAction, PauseForApproval, BeginReview, EndReview, Quiet, Kept
<1>2. CASE StartAction
  <2>1. At("enter") /\ Kind[Call.node] = "action" /\ GoTo("waiting_for_tool") /\ Phase("handler")
    BY <1>2 DEF StartAction, In
  <2>2. Call.next = 0
    BY <2>1, AtWork DEF Work, Composite, Loops
  <2> QED BY <1>1, <2>1, <2>2, ChainStatus, Statuses DEF Phases
<1>3. CASE PauseForApproval
  <2>1. At("enter") /\ Kind[Call.node] = "approval" /\ GoTo("waiting_for_approval") /\ Phase("exit")
    BY <1>3 DEF PauseForApproval, In
  <2>2. Call.next = 0
    BY <2>1, AtWork DEF Work, Composite, Loops
  <2> QED BY <1>1, <2>1, <2>2, ChainStatus, Statuses DEF Phases
<1>4. CASE BeginReview
  <2>1. At("enter") /\ Kind[Call.node] = "review" /\ GoTo("reviewing") /\ Phase("reviewing")
    BY <1>4 DEF BeginReview, In
  <2>2. Call.next = 0
    BY <2>1, AtWork DEF Work
  <2> QED BY <1>1, <2>1, <2>2, ChainStatus, Statuses DEF Phases
<1>5. CASE EndReview
  <2>1. At("reviewing") /\ GoTo("running") /\ Phase("children")
    BY <1>5 DEF EndReview
  <2>2. Call.next = 0 /\ Kind[Call.node] = "review"
    BY <2>1, AtWork DEF Work
  <2> QED BY <1>1, <2>1, <2>2, ChainStatus, Statuses DEF Phases
<1> QED BY <1>2, <1>3, <1>4, <1>5

\* A handler's values are in the frame before its node ends.
LEMMA ChainHandled == ASSUME IInv, IInv', ChainInv, HandlerReturns PROVE ChainInv'
<1> DEFINE f == [Top EXCEPT !.status = "running", !.vals = @ \cup Result[Call.node]]
<1>1. /\ At("handler") /\ SetTop(f) /\ Phase("exit")
      /\ UNCHANGED <<definition, executing, raising>>
  BY DEF HandlerReturns, Quiet, Kept
<1>2. /\ Call.phase = "handler" /\ Call \in Activation /\ Call.node \in Nodes /\ Call.next \in Nat
      /\ Top \in Frame /\ Work(Call, Top) /\ RunOK /\ frames # <<>>
  BY <1>1, AtWork
<1>3. Result[Call.node] \in SUBSET Names /\ "running" \in Status
  BY <1>2, GraphAssumption, Statuses
<1>4. f \in Frame /\ Grown(Top, f) /\ Result[Call.node] \subseteq f.vals
  BY <1>2, <1>3 DEF Frame, Grown
<1> HIDE DEF f
<1>5. Learns /\ Top' = f
  BY <1>1, <1>2, <1>4, TopLearns
<1>6. Work([Call EXCEPT !.phase = "exit"], Top')
  <2>1. Work(Call, f)
    BY <1>2, <1>4, WorkGrows
  <2>2. Call.next = 0 /\ Kind[Call.node] = "action"
    BY <1>2 DEF Work
  <2>3. Justified(f, f.wf, Call.node)
    BY <1>4, <2>2 DEF Justified
  <2>4. /\ [Call EXCEPT !.phase = "exit"].phase = "exit" /\ [Call EXCEPT !.phase = "exit"].next = 0
        /\ [Call EXCEPT !.phase = "exit"].node = Call.node
    BY <1>2, <2>2 DEF Activation
  <2> QED BY <1>5, <2>1, <2>2, <2>3, <2>4 DEF Work, Loops
<1> QED BY <1>1, <1>5, <1>6, ChainGoesOn DEF Phases

\* fail() forgets nothing.
LEMMA FailLearns == ASSUME RunOK, frames # <<>>, FailRun PROVE Learns
BY StatusLearns, SameLearns, Statuses DEF FailRun

\* An exception is raised in the midst of an activation.
LEMMA ChainRaises ==
    ASSUME IInv, IInv', ChainInv, HandlerRaises \/ TooDeep \/ StatementRaises
    PROVE  ChainInv'
<1>1. /\ raising' = TRUE /\ UNCHANGED <<calls, definition, executing>>
  BY DEF HandlerRaises, TooDeep, StatementRaises, Raise, Kept
<1>2. PICK p \in {"enter", "handler", "reviewing"} : At(p)
  BY DEF HandlerRaises, TooDeep, StatementRaises, In
<1>3. executing /\ Call.phase # "visit" /\ RunOK /\ frames # <<>>
  BY <1>2 DEF At, IInv, InterpreterOK
<1>4. Learns
  <2>1. CASE HandlerRaises
    BY <1>3, <2>1, FailLearns DEF HandlerRaises
  <2>2. CASE TooDeep
    BY <1>3, <2>2, StatusLearns, Statuses DEF TooDeep
  <2>3. CASE StatementRaises
    BY <2>3, SameLearns DEF StatementRaises
  <2> QED BY <2>1, <2>2, <2>3
<1> QED BY <1>1, <1>3, <1>4, ChainIdle

\* The end of execute().
LEMMA ChainStops ==
    ASSUME IInv, IInv', ChainInv, ExecuteCompletes \/ ExecuteStops \/ ExecuteRaises
    PROVE  ChainInv'
<1>1. /\ calls = <<>> /\ executing' = FALSE /\ raising' = FALSE /\ UNCHANGED <<calls, definition>>
      /\ executing
  BY DEF ExecuteCompletes, ExecuteStops, ExecuteRaises, Returned, Kept, IInv, InterpreterOK
<1>2. RunOK /\ frames # <<>>
  BY <1>1 DEF IInv, InterpreterOK
<1>3. Learns
  <2>1. CASE ExecuteCompletes
    BY <1>2, <2>1, StatusLearns, Statuses DEF ExecuteCompletes
  <2>2. CASE ExecuteStops
    BY <2>2, SameLearns DEF ExecuteStops
  <2>3. CASE ExecuteRaises
    <3>1. UNCHANGED frames \/ FailRun
      BY <2>3 DEF ExecuteRaises
    <3> QED BY <1>2, <3>1, FailLearns, SameLearns
  <2> QED BY <2>1, <2>2, <2>3
<1> QED BY <1>1, <1>3, ChainIdle

\* What the host does teaches the top frame at most new values.
LEMMA HostLearns ==
    ASSUME IInv, HostCall
    PROVE  /\ Learns /\ frames # <<>>
           /\ UNCHANGED <<definition, crashes, executing, calls, raising>>
           /\ frames' # frames => /\ Top'.wf = Top.wf /\ Top'.done = Top.done
                                  /\ \A i \in 1..(Len(frames) - 1) : frames'[i] = frames[i]
<1>1. /\ frames # <<>> /\ UNCHANGED <<definition, crashes, executing, calls, raising>> /\ RunOK
  BY DEF HostCall, Resume, Pause, Cancel, Retry, Complete, Fail, Capability, Host, Live,
         interpreter, IInv
<1>2. Top \in Frame
  BY <1>1, TopFrame
<1>3. CASE UNCHANGED frames
  BY <1>1, <1>3, SameLearns
<1>4. CASE \E st \in Status : GoTo(st)
  <2>1. PICK st \in Status : GoTo(st)
    BY <1>4
  <2>2. /\ Learns /\ Top' = [Top EXCEPT !.status = st]
        /\ \A i \in 1..(Len(frames) - 1) : frames'[i] = frames[i]
    BY <1>1, <2>1, StatusLearns
  <2> QED BY <1>1, <1>2, <2>2 DEF Frame
<1>5. CASE Retry
  <2> DEFINE f == [Top EXCEPT !.status = "running", !.retries = @ + 1]
  <2>1. f \in Frame
    <3>1. "running" \in Status
      BY Statuses
    <3>2. Top.retries + 1 \in 0..MaxRetries
      BY <1>2, <1>5, BoundAssumption DEF Retry, CanRetry, Frame
    <3> QED BY <1>2, <3>1, <3>2 DEF Frame
  <2>2. Grown(Top, f) /\ f.wf = Top.wf /\ f.done = Top.done /\ SetTop(f)
    BY <1>2, <1>5 DEF Frame, Grown, Retry
  <2> HIDE DEF f
  <2> QED BY <1>1, <2>1, <2>2, TopLearns
<1>6. CASE \E vals \in SUBSET Names : SetTop([Top EXCEPT !.vals = @ \cup vals])
  <2>1. PICK vals \in SUBSET Names : SetTop([Top EXCEPT !.vals = @ \cup vals])
    BY <1>6
  <2> DEFINE f == [Top EXCEPT !.vals = @ \cup vals]
  <2>2. f \in Frame /\ Grown(Top, f) /\ f.wf = Top.wf /\ f.done = Top.done /\ SetTop(f)
    BY <1>2, <2>1 DEF Frame, Grown
  <2> HIDE DEF f
  <2> QED BY <1>1, <2>2, TopLearns
<1>7. CASE Resume \/ Pause \/ Cancel \/ Complete \/ Fail
  BY <1>3, <1>4, <1>7, Statuses DEF Resume, Pause, Cancel, Complete, Fail, FailRun
<1>8. CASE Capability
  BY <1>4, <1>6, <1>8, Statuses DEF Capability
<1> QED BY <1>5, <1>7, <1>8 DEF HostCall

\* Calls of the host leave the chain alone.
LEMMA ChainHost == ASSUME IInv, IInv', ChainInv, HostCall PROVE ChainInv'
BY HostLearns, ChainIdle

\* No activation is a chain over any stack.
LEMMA ChainEmpty == ASSUME NEW fs \in Seq(Frame) PROVE Chain(<<>>, fs)
<1> DEFINE d == [i \in 1..0 |-> 1]
<1>1. d \in [1..Len(<<>>) -> 1..Len(fs)]
  OBVIOUS
<1>2. Placed(d, <<>>, Len(fs)) /\ Behind(d, <<>>, fs)
  BY <1>1 DEF Placed, Behind
<1> QED BY <1>1, <1>2 DEF Chain

\* While execute() is not on the stack, no activation is.
LEMMA ChainNone ==
    ASSUME IInv', calls' = <<>>, ~executing', ~raising'
    PROVE  ChainInv'
<1>1. Chain(calls', frames')
  BY ChainEmpty DEF IInv, RunOK
<1> QED BY <1>1 DEF ChainInv, Answered, AtRoot, InMidst

\* A new run, a crash and a restoration have no activation.
LEMMA ChainCrash ==
    ASSUME IInv, IInv', ChainInv, Crash \/ Restore
    PROVE  ChainInv'
<1>1. CASE Crash
  BY <1>1, ChainNone DEF Crash
<1>2. CASE Restore
  <2>1. frames = <<>> /\ UNCHANGED <<executing, calls, raising>>
    BY <1>2 DEF Restore, Live, interpreter
  <2>2. calls = <<>>
    <3>1. calls \in Seq(Activation) /\ Nested(calls, 0)
      BY <2>1 DEF IInv, InterpreterOK
    <3> QED BY <3>1, NestedNoFrame
  <2>3. ~executing
    BY <2>1 DEF IInv, InterpreterOK
  <2>4. ~raising
    BY <2>3 DEF ChainInv, InMidst
  <2> QED BY <2>1, <2>2, <2>3, <2>4, ChainNone
<1> QED BY <1>1, <1>2

\* A new run has no activation.
LEMMA ChainInit == Init => ChainInv
<1> SUFFICES ASSUME Init PROVE ChainInv
  OBVIOUS
<1>1. calls = <<>> /\ ~executing /\ ~raising
  BY DEF Init
<1>2. frames \in Seq(Frame)
  BY InvariantInit DEF IInv, RunOK
<1>3. Chain(calls, frames)
  BY <1>1, <1>2, ChainEmpty
<1> QED BY <1>1, <1>3 DEF ChainInv, Answered, AtRoot, InMidst

\* execute() visits the root of the run's definition in the top frame.
LEMMA ChainExecute == ASSUME IInv, IInv', ChainInv, Execute PROVE ChainInv'
<1> DEFINE v == VisitOf(Root[definition])
<1>1. /\ calls' = <<v>> /\ definition' = definition /\ ~executing /\ raising' = raising
  BY DEF Execute, Kept
<1>2. ~raising
  BY <1>1 DEF ChainInv, InMidst
<1>3. v.node = Root[definition] /\ v.phase = "visit" /\ v \in Activation /\ ~Called(v)
      /\ \A f : Work(v, f)
  <2>1. Root[definition] \in Nodes
    BY GraphAssumption DEF IInv, RunOK
  <2> QED BY <2>1, VisitWork DEF VisitOf
<1> HIDE DEF v
<1>4. calls' \in Seq(Activation) /\ Len(calls') = 1 /\ calls'[1] = v /\ calls' # <<>> /\ Call' = v
  BY <1>1, <1>3 DEF Call, Last
<1>5. Chain(calls', frames')
  <2> DEFINE n == Len(frames')
             d == [i \in 1..1 |-> n]
  <2>1. n \in Nat \ {0}
    <3>1. frames' \in Seq(Frame) /\ frames' # <<>>
      BY DEF IInv, RunOK, InterpreterOK, Execute
    <3> QED BY <3>1
  <2> HIDE DEF n
  <2>2. d \in [1..Len(calls') -> 1..n] /\ d[1] = n
    BY <1>4, <2>1
  <2> HIDE DEF d
  <2>3. Placed(d, calls', n)
    BY <1>3, <1>4, <2>1, <2>2 DEF Placed
  <2>4. Behind(d, calls', frames')
    BY <1>3, <1>4 DEF Behind
  <2> QED BY <2>2, <2>3, <2>4 DEF Chain, n
<1> QED BY <1>1, <1>2, <1>3, <1>4, <1>5 DEF ChainInv, Answered, AtRoot, InMidst

\* The frames after a subworkflow call.
LEMMA PushedFrames ==
    ASSUME IInv, CallSubworkflow
    PROVE  /\ frames # <<>> /\ Len(frames') = Len(frames) + 1
           /\ \A i \in 1..(Len(frames) - 1) : frames'[i] = frames[i]
           /\ frames'[Len(frames)] = [Top EXCEPT !.status = "waiting_for_child"]
           /\ Top' = NewFrame(Sub[Call.node], "running", Top.done, Top.vals)
           /\ \A i \in 1..Len(frames) : Grown(frames[i], frames'[i])
<1> DEFINE n == Len(frames)
           f == [Top EXCEPT !.status = "waiting_for_child"]
           g == NewFrame(Sub[Call.node], "running", Top.done, Top.vals)
           r == [frames EXCEPT ![n] = f]
<1>1. At("enter")
  BY DEF CallSubworkflow, In
<1>2. /\ RunOK /\ InterpreterOK /\ calls # <<>>
      /\ frames \in Seq(Frame) /\ frames # <<>> /\ n \in Nat \ {0}
  BY <1>1, AtHasFrame, LastFront
<1>3. Top \in Frame /\ Call \in Activation /\ Top = frames[n]
  BY <1>2, TopFrame, CurrentCall DEF Top, Last
<1>4. f \in Frame /\ Grown(Top, f)
  BY <1>3, Statuses DEF Frame, Grown
<1>5. g \in Frame
  <2>1. Sub[Call.node] \in Workflows
    BY <1>3, GraphAssumption DEF Activation
  <2> QED BY <1>3, <2>1, Statuses, NewFrameType DEF Frame
<1>6. frames' = Append(r, g)
  <2>1. [frames EXCEPT ![n].status = "waiting_for_child"] = r
    BY DEF Top, Last
  <2> QED BY <2>1 DEF CallSubworkflow
<1> HIDE DEF f, g, r
<1>7. /\ r \in Seq(Frame) /\ Len(r) = n /\ r[n] = f
      /\ \A i \in 1..(n - 1) : r[i] = frames[i]
  BY <1>2, <1>4, ReplaceLast DEF r
<1>8. /\ Len(frames') = n + 1 /\ frames'[n + 1] = g
      /\ \A i \in 1..n : frames'[i] = r[i]
  BY <1>5, <1>6, <1>7
<1>9. ASSUME NEW i \in 1..n PROVE Grown(frames[i], frames'[i])
  <2>1. CASE i = n
    BY <1>3, <1>4, <1>7, <1>8, <2>1
  <2>2. CASE i # n
    <3>1. i \in 1..(n - 1)
      BY <1>2, <2>2
    <3> QED BY <1>7, <1>8, <3>1, GrownSelf
  <2> QED BY <2>1, <2>2
<1>10. Top' = g
  BY <1>8 DEF Top, Last
<1>11. frames'[n] = f /\ \A i \in 1..(n - 1) : frames'[i] = frames[i]
  <2>1. n \in 1..n /\ \A i \in 1..(n - 1) : i \in 1..n
    BY <1>2
  <2> QED BY <1>7, <1>8, <2>1
<1> QED BY <1>2, <1>8, <1>9, <1>10, <1>11 DEF f, g

\* A subworkflow call goes down into the child's frame.
LEMMA ChainPush == ASSUME IInv, IInv', ChainInv, CallSubworkflow PROVE ChainInv'
<1> DEFINE c == [Call EXCEPT !.phase = "child"]
           v == VisitOf(Root[Sub[Call.node]])
<1>1. /\ At("enter") /\ Kind[Call.node] = "subworkflow"
      /\ UNCHANGED <<definition, executing, raising>>
      /\ calls' = Append([calls EXCEPT ![Len(calls)] = c], v)
  BY DEF CallSubworkflow, In, Invoke, Quiet, Kept
<1>2. /\ calls # <<>> /\ Call.phase = "enter" /\ ~raising /\ executing
      /\ Call \in Activation /\ Call.next \in Nat /\ Call.node \in Nodes /\ Work(Call, Top)
  BY <1>1, AtWork
<1>3. /\ calls \in Seq(Activation) /\ frames \in Seq(Frame) /\ frames' \in Seq(Frame)
      /\ Call = Last(calls) /\ Top = Last(frames) /\ Top' = Last(frames')
  BY DEF IInv, RunOK, InterpreterOK, Call, Top
<1>4. /\ Len(frames') = Len(frames) + 1 /\ \A i \in 1..Len(frames) : Grown(frames[i], frames'[i])
      /\ Last(frames').wf = Sub[Call.node]
  BY <1>3, PushedFrames DEF NewFrame
<1>5. Call.next = 0
  BY <1>1, <1>2 DEF Work, Composite, Loops
<1>6. /\ c \in Activation /\ c.node = Call.node /\ c.phase = "child" /\ c.next = 0
      /\ Called(c) /\ Invoked(c) = Root[Sub[Call.node]]
  BY <1>2, <1>5 DEF Activation, Phases, Called, Invoked
<1>7. Work(c, Top)
  <2> HIDE DEF c
  <2> QED BY <1>1, <1>2, <1>5, <1>6 DEF Work, Loops
<1>8. /\ v \in Activation /\ v.node = Root[Sub[Call.node]] /\ v.phase # "child"
      /\ Work(v, Last(frames')) /\ ~Called(v) /\ v.phase = "visit"
  <2>1. Root[Sub[Call.node]] \in Nodes
    BY <1>2, GraphAssumption
  <2> QED BY <2>1, VisitWork DEF VisitOf
<1> HIDE DEF c, v
<1>9. Chain(calls', frames')
  <2>1. Chain(calls, frames)
    BY DEF ChainInv
  <2>2. Chain(Append([calls EXCEPT ![Len(calls)] = c], v), frames')
    BY <1>2, <1>3, <1>4, <1>6, <1>7, <1>8, <2>1, ChainCall
  <2> QED BY <1>1, <2>2
<1>10. calls' # <<>> /\ calls'[1].node = calls[1].node /\ Call' = v
  BY <1>1, <1>2, <1>3, <1>6, <1>8, InvokeStack DEF Call
<1>11. Answered' /\ AtRoot' /\ InMidst'
  BY <1>1, <1>2, <1>8, <1>10 DEF ChainInv, Answered, AtRoot, InMidst
<1> QED BY <1>9, <1>11 DEF ChainInv

\* The frames after a child's frame is gone.
LEMMA PoppedFrames ==
    ASSUME NEW fs \in Seq(Frame), Len(fs) > 1
    PROVE  /\ Front(fs) \in Seq(Frame) /\ Front(fs) # <<>> /\ Len(Front(fs)) = Len(fs) - 1
           /\ \A i \in 1..(Len(fs) - 1) : Front(fs)[i] = fs[i]
           /\ Last(Front(fs)) = fs[Len(fs) - 1]
           /\ Front(Front(fs)) \in Seq(Frame) /\ Len(Front(Front(fs))) = Len(fs) - 2
           /\ \A i \in 1..(Len(fs) - 2) : Front(Front(fs))[i] = fs[i]
<1> DEFINE n == Len(fs)
           q == Front(fs)
<1>1. fs # <<>> /\ n \in Nat
  OBVIOUS
<1>2. /\ q \in Seq(Frame) /\ Len(q) = n - 1 /\ \A i \in 1..(n - 1) : q[i] = fs[i]
  BY <1>1, LastFront
<1> HIDE DEF q
<1>3. q # <<>> /\ n - 1 \in 1..(n - 1)
  BY <1>1, <1>2
<1>4. /\ Front(q) \in Seq(Frame) /\ Len(Front(q)) = Len(q) - 1
      /\ \A i \in 1..(Len(q) - 1) : Front(q)[i] = q[i]
  BY <1>2, <1>3, LastFront
<1>5. Last(q) = fs[n - 1]
  BY <1>2, <1>3 DEF Last
<1>6. Len(Front(q)) = n - 2 /\ \A i \in 1..(n - 2) : Front(q)[i] = fs[i]
  BY <1>1, <1>2, <1>4
<1> QED BY <1>2, <1>3, <1>4, <1>5, <1>6 DEF q

\* The frames after a subworkflow call has returned.
LEMMA ReturnedFrames ==
    ASSUME IInv, ChainInv, ChildReturns
    PROVE  /\ Len(frames) > 1 /\ Len(frames') = Len(frames) - 1
           /\ \A i \in 1..(Len(frames) - 2) : frames'[i] = frames[i]
           /\ frames[Len(frames) - 1] \in Frame /\ Top \in Frame
           /\ Top' = [frames[Len(frames) - 1] EXCEPT
                         !.status = "running", !.done = Top.done, !.vals = @ \cup Top.vals]
           /\ Top' = frames'[Len(frames) - 1]
<1> DEFINE n == Len(frames)
           parent == frames[n - 1]
           f == [parent EXCEPT !.status = "running", !.done = Top.done, !.vals = @ \cup Top.vals]
           q == Front(Front(frames))
<1>1. At("child")
  BY DEF ChildReturns
<1>2. /\ frames \in Seq(Frame) /\ calls \in Seq(Activation) /\ calls # <<>>
      /\ Chain(calls, frames) /\ Last(calls).phase = "child" /\ frames # <<>> /\ RunOK
  BY <1>1, AtHasFrame DEF InterpreterOK, Call, ChainInv
<1>3. n > 1 /\ n \in Nat
  BY <1>2, ChainTop
<1>4. Top \in Frame /\ parent \in Frame
  <2>1. n - 1 \in 1..n
    BY <1>3
  <2> HIDE DEF n
  <2> QED BY <1>2, <2>1, TopFrame DEF n
<1>5. f \in Frame
  BY <1>4, Statuses DEF Frame
<1>6. frames' = Append(q, f)
  <2>1. Last(Front(frames)) = parent
    BY <1>2, <1>3, PoppedFrames
  <2> QED BY <2>1 DEF ChildReturns
<1>7. q \in Seq(Frame) /\ Len(q) = n - 2 /\ \A i \in 1..(n - 2) : q[i] = frames[i]
  BY <1>2, <1>3, PoppedFrames
<1> HIDE DEF f, q
<1>8. /\ Len(frames') = Len(q) + 1 /\ frames'[Len(q) + 1] = f
      /\ \A i \in 1..Len(q) : frames'[i] = q[i]
  BY <1>5, <1>6, <1>7
<1>9. Len(frames') = n - 1 /\ frames'[n - 1] = f /\ \A i \in 1..(n - 2) : frames'[i] = frames[i]
  BY <1>3, <1>7, <1>8
<1>10. Top' = f
  BY <1>9 DEF Top, Last
<1> QED BY <1>3, <1>4, <1>9, <1>10 DEF f

\* A child's frame is popped when its root is recorded: the subworkflow node is
\* justified in the frame of its caller.
LEMMA ChainPop ==
    ASSUME IInv, IInv', ChainInv, Climbs(frames), ChildReturns
    PROVE  ChainInv'
<1> DEFINE n == Len(frames)
           parent == frames[n - 1]
           c == [Call EXCEPT !.phase = "exit"]
<1>1. /\ At("child") /\ calls' = [calls EXCEPT ![Len(calls)] = c]
      /\ UNCHANGED <<definition, executing, raising>>
  BY DEF ChildReturns, Phase, SetCall, Quiet, Kept
<1>2. /\ frames \in Seq(Frame) /\ frames' \in Seq(Frame) /\ frames # <<>>
      /\ calls \in Seq(Activation) /\ calls # <<>>
      /\ Chain(calls, frames) /\ Call = Last(calls) /\ Call.phase = "child" /\ Call \in Activation
      /\ ~raising /\ executing /\ Top = Last(frames)
  BY <1>1, AtHasFrame, CurrentCall DEF At, IInv, RunOK, InterpreterOK, Call, Top, ChainInv
<1>3. n > 1 /\ Work(Call, parent) /\ Top.wf = Sub[Call.node]
  BY <1>2, ChainTop
<1>4. <<Sub[Call.node], Root[Sub[Call.node]]>> \in Top.done
  <2>1. Called(Call) /\ Invoked(Call) = Root[Sub[Call.node]]
    BY <1>2 DEF Called, Invoked
  <2> QED BY <1>2, <1>3, <2>1 DEF ChainInv, Answered, KeyOf
<1>5. /\ Len(frames') = n - 1 /\ \A i \in 1..(n - 2) : frames'[i] = frames[i]
      /\ parent \in Frame /\ Top' = frames'[n - 1] /\ Top' = Last(frames')
      /\ Top' = [parent EXCEPT !.status = "running", !.done = Top.done, !.vals = @ \cup Top.vals]
  BY ReturnedFrames DEF Top
<1>6. /\ Top'.wf = parent.wf /\ Top'.done = Top.done /\ parent.vals \subseteq Top'.vals
  BY <1>5 DEF Frame
<1>7. parent.done \subseteq Top.done
  <2>1. n - 1 \in 1..n /\ n \in (n - 1)..n /\ Top = frames[n]
    BY <1>2, <1>3 DEF Last
  <2> QED BY <2>1 DEF Climbs
<1>8. Grown(parent, Top')
  BY <1>6, <1>7 DEF Grown
<1>9. Chain(calls', frames')
  <2>2. \A i \in 1..(n - 1) : Grown(frames[i], frames'[i])
    <3> SUFFICES ASSUME NEW i \in 1..(n - 1) PROVE Grown(frames[i], frames'[i])
      OBVIOUS
    <3>1. CASE i = n - 1
      BY <1>5, <1>8, <3>1
    <3>2. CASE i # n - 1
      <4>1. i \in 1..(n - 2)
        BY <1>2, <1>3, <3>2
      <4> QED BY <1>5, <4>1, GrownSelf
    <3> QED BY <3>1, <3>2
  <2>3. Kind[Call.node] = "subworkflow" /\ Call.next = 0
    BY <1>2, <1>3 DEF Work, Activation
  <2>4. Work(c, Last(frames'))
    <3>1. Work(Call, Top')
      BY <1>3, <1>8, WorkGrows
    <3>2. Justified(Top', Top'.wf, Call.node)
      BY <1>4, <1>6, <2>3 DEF Justified
    <3>3. c.node = Call.node /\ c.phase = "exit" /\ c.next = 0
      BY <1>2, <2>3 DEF Activation
    <3> HIDE DEF c
    <3> QED BY <1>5, <2>3, <3>1, <3>2, <3>3 DEF Work, Loops
  <2>5. c \in Activation /\ c.node = Call.node /\ c.phase = "exit"
    BY <1>2 DEF Activation, Phases
  <2> HIDE DEF c
  <2>6. Chain([calls EXCEPT ![Len(calls)] = c], frames')
    BY <1>2, <1>5, <2>2, <2>4, <2>5, ChainReplace
  <2> QED BY <1>1, <2>6
<1>10. Call' = c /\ calls' # <<>> /\ calls'[1].node = calls[1].node /\ c.next = 0 /\ c.phase = "exit"
  <2>1. c \in Activation /\ c.node = Call.node /\ c.phase = "exit" /\ c.next = Call.next
    BY <1>2 DEF Activation, Phases
  <2>2. Call.next = 0
    BY <1>2, <1>3 DEF Work, Activation
  <2> HIDE DEF c
  <2> QED BY <1>1, <1>2, <2>1, <2>2, PhaseStack DEF Call
<1>11. Answered' /\ AtRoot' /\ InMidst'
  BY <1>1, <1>2, <1>10 DEF ChainInv, Answered, AtRoot, InMidst, Called
<1> QED BY <1>9, <1>11 DEF ChainInv

\* An exception leaves an activation, and takes a child's frame with it.
LEMMA ChainLeaves == ASSUME IInv, IInv', ChainInv, Propagate PROVE ChainInv'
<1>1. /\ executing /\ raising /\ calls # <<>> /\ Return
      /\ UNCHANGED <<definition, executing, raising>>
  BY DEF Propagate, Unwinding, Quiet, Kept
<1>2. CASE Call.phase # "child"
  <2>1. Learns
    BY <1>2, SameLearns DEF Propagate
  <2> QED BY <1>1, <1>2, <2>1, ChainGoesBack
<1>3. CASE Call.phase = "child"
  <2>1. /\ frames' = Front(frames) /\ calls' = Front(calls) /\ Chain(calls, frames)
        /\ calls \in Seq(Activation) /\ frames \in Seq(Frame)
        /\ calls' \in Seq(Activation) /\ frames' \in Seq(Frame) /\ Call = Last(calls)
    BY <1>3 DEF Propagate, Return, IInv, RunOK, InterpreterOK, ChainInv, Call
  <2>2. Chain(calls', frames')
    BY <1>1, <1>3, <2>1, ChainReturn
  <2>3. calls' # <<>> => Call'.phase # "visit"
    <3> SUFFICES ASSUME calls' # <<>> PROVE Call'.phase # "visit"
      OBVIOUS
    <3>1. Called(Call')
      BY <1>1, <2>1, ChainBelow DEF Call
    <3> QED BY <2>1, <2>2, <3>1, CalledPhase DEF Call
  <2>4. Answered' /\ InMidst'
    BY <1>1, <2>3 DEF Answered, InMidst
  <2>5. AtRoot'
    <3>1. /\ Len(calls) \in Nat \ {0} /\ Len(calls') = Len(calls) - 1
          /\ \A i \in 1..(Len(calls) - 1) : calls'[i] = calls[i]
      BY <1>1, <2>1, LastFront
    <3>2. calls' # <<>> => Len(calls') # 0
      BY <2>1
    <3>3. calls' # <<>> => 1 \in 1..(Len(calls) - 1)
      BY <3>1, <3>2
    <3> QED BY <1>1, <3>1, <3>3 DEF ChainInv, AtRoot
  <2> QED BY <2>2, <2>4, <2>5 DEF ChainInv
<1> QED BY <1>2, <1>3

\* Every step of the engine keeps the chain.
LEMMA ChainStep ==
    ASSUME IInv, IInv', ChainInv, Climbs(frames), [Next]_vars
    PROVE  ChainInv'
<1>1. CASE Execute
  BY <1>1, ChainExecute
<1>2. CASE Interpret
  BY <1>2, ChainSkip, ChainBegin, ChainFinish, ChainNext, ChainFirst, ChainBranch,
     ChainEnds, ChainTransitions, ChainHandled, ChainRaises, ChainPush, ChainPop,
     ChainAnother, ChainLeaves, ChainStops DEF Interpret
<1>3. CASE HostCall
  BY <1>3, ChainHost
<1>4. CASE Crash \/ Restore
  BY <1>4, ChainCrash
<1>5. CASE UNCHANGED vars
  <2>1. Learns /\ UNCHANGED <<calls, definition, executing, raising>>
    BY <1>5, SameLearns DEF vars, run, interpreter
  <2> QED BY <2>1, ChainIdle
<1> QED BY <1>1, <1>2, <1>3, <1>4, <1>5 DEF Next

(***************************************************************************)
(* Nothing is lost, and no cursor is ahead of the work                     *)
(***************************************************************************)

\* A checkpoint of well-ordered frames saves what each of them knows.
LEMMA SavesAll ==
    ASSUME IInv', frames' # <<>>, Checkpoint, Climbs(frames'), Closed(frames')
    PROVE  StoreInv'
<1>1. saved'.frames = frames'
  BY DEF Checkpoint
<1>2. frames' \in Seq(Frame) /\ Len(frames') \in Nat \ {0}
  BY LastFront DEF IInv, RunOK
<1>3. ProgressIsSaved'
  <2> SUFFICES ASSUME NEW i \in 1..Len(frames')
               PROVE  /\ frames'[i].done \subseteq Last(frames').done
                      /\ frames'[i].vals \subseteq Last(frames').vals
    BY <1>1 DEF ProgressIsSaved
  <2>1. Len(frames') \in i..Len(frames')
    BY <1>2
  <2> QED BY <2>1 DEF Climbs, Last
<1> QED BY <1>1, <1>3 DEF StoreInv

\* Without a checkpoint nothing is learned: a frame knows what one knew before.
LEMMA LearnsNothing ==
    ASSUME StoreInv, UNCHANGED saved, Climbs(frames'),
           \A i \in 1..Len(frames') : \E j \in 1..Len(frames) :
              frames'[i].done = frames[j].done /\ frames'[i].vals = frames[j].vals
    PROVE  StoreInv'
<1>1. ProgressIsSaved'
  <2> SUFFICES ASSUME NEW i \in 1..Len(frames'),
                      frames'[i].done # {} \/ frames'[i].vals # {}
               PROVE  /\ saved.frames # <<>>
                      /\ frames'[i].done \subseteq Last(saved.frames).done
                      /\ frames'[i].vals \subseteq Last(saved.frames).vals
    BY DEF ProgressIsSaved
  <2>1. PICK j \in 1..Len(frames) :
           frames'[i].done = frames[j].done /\ frames'[i].vals = frames[j].vals
    OBVIOUS
  <2> QED BY <2>1 DEF StoreInv, ProgressIsSaved
<1>2. Closed(frames')
  <2> SUFFICES ASSUME NEW i \in 1..Len(frames'), NEW k \in frames'[i].done
               PROVE  Justified(frames'[i], k[1], k[2])
    BY DEF Closed
  <2>1. PICK j \in 1..Len(frames) :
           frames'[i].done = frames[j].done /\ frames'[i].vals = frames[j].vals
    OBVIOUS
  <2>2. Justified(frames[j], k[1], k[2])
    BY <2>1 DEF StoreInv, Closed
  <2> QED BY <2>1, <2>2, JustifiedGrows
<1> QED BY <1>1, <1>2 DEF StoreInv

\* Every frame knows what it knew.
SameKnowledge ==
    /\ Len(frames') = Len(frames)
    /\ \A i \in 1..Len(frames) :
          frames'[i].done = frames[i].done /\ frames'[i].vals = frames[i].vals

\* A step after which nobody knows anything new keeps the store sound.
LEMMA StoreSame ==
    ASSUME IInv, IInv', StoreInv, frames # <<>>, SameKnowledge, Checkpoint \/ NoCheckpointTaken
    PROVE  StoreInv'
<1>1. frames \in Seq(Frame) /\ Len(frames) \in Nat \ {0}
  BY LastFront DEF IInv, RunOK
<1>2. Climbs(frames')
  BY <1>1 DEF StoreInv, Climbs, SameKnowledge
<1>3. CASE Checkpoint
  <2>1. Closed(frames')
    <3> SUFFICES ASSUME NEW i \in 1..Len(frames), NEW k \in frames[i].done
                 PROVE  Justified(frames'[i], k[1], k[2])
      BY DEF Closed, SameKnowledge
    <3>1. Justified(frames[i], k[1], k[2])
      BY DEF StoreInv, Closed
    <3> QED BY <3>1, JustifiedGrows DEF SameKnowledge
  <2>2. frames' # <<>>
    BY <1>1 DEF SameKnowledge, IInv, RunOK
  <2> QED BY <1>2, <1>3, <2>1, <2>2, SavesAll
<1>4. CASE NoCheckpointTaken
  <2>1. \A i \in 1..Len(frames') : \E j \in 1..Len(frames) :
           frames'[i].done = frames[j].done /\ frames'[i].vals = frames[j].vals
    BY DEF SameKnowledge
  <2> QED BY <1>2, <1>4, <2>1, LearnsNothing DEF NoCheckpointTaken
<1> QED BY <1>3, <1>4

\* The top frame learns, its cursors are justified, and a checkpoint is taken.
LEMMA StoreTop ==
    ASSUME IInv, IInv', StoreInv, frames # <<>>, Checkpoint, Learns,
           \A i \in 1..(Len(frames) - 1) : frames'[i] = frames[i],
           \A k \in Top'.done : Justified(Top', k[1], k[2])
    PROVE  StoreInv'
<1> DEFINE n == Len(frames)
<1>1. frames \in Seq(Frame) /\ n \in Nat \ {0} /\ Len(frames') = n
  BY LastFront DEF IInv, RunOK, Learns
<1>2. Top' = frames'[n] /\ Top = frames[n] /\ frames' # <<>>
  BY <1>1 DEF Top, Last, IInv, RunOK
<1> HIDE DEF n
<1>3. Climbs(frames')
  <2> SUFFICES ASSUME NEW i \in 1..n, NEW j \in i..n
               PROVE  /\ frames'[i].done \subseteq frames'[j].done
                      /\ frames'[i].vals \subseteq frames'[j].vals
    BY <1>1 DEF Climbs
  <2>1. CASE i = n
    BY <1>1, <2>1
  <2>2. CASE i # n
    <3>1. i \in 1..(n - 1) /\ j \in 1..n
      BY <1>1, <2>2
    <3>2. frames[i].done \subseteq frames[j].done /\ frames[i].vals \subseteq frames[j].vals
      BY <1>1, <3>1 DEF StoreInv, Climbs, n
    <3>3. frames'[i] = frames[i]
      BY <3>1 DEF n
    <3>4. Grown(frames[j], frames'[j])
      BY <3>1 DEF Learns, n
    <3> QED BY <3>2, <3>3, <3>4 DEF Grown
  <2> QED BY <2>1, <2>2
<1>4. Closed(frames')
  <2> SUFFICES ASSUME NEW i \in 1..n, NEW k \in frames'[i].done
               PROVE  Justified(frames'[i], k[1], k[2])
    BY <1>1 DEF Closed
  <2>1. CASE i = n
    BY <1>2, <2>1
  <2>2. CASE i # n
    <3>1. i \in 1..(n - 1)
      BY <1>1, <2>2
    <3>2. frames'[i] = frames[i] /\ i \in 1..n
      BY <3>1 DEF n
    <3> QED BY <3>2 DEF StoreInv, Closed, n
  <2> QED BY <2>1, <2>2
<1> QED BY <1>2, <1>3, <1>4, SavesAll

\* What the top frame knows is justified there.
LEMMA TopClosed ==
    ASSUME IInv, StoreInv, frames # <<>>
    PROVE  \A k \in Top.done : Justified(Top, k[1], k[2])
<1>1. frames \in Seq(Frame) /\ Len(frames) \in 1..Len(frames)
  <2>1. frames \in Seq(Frame)
    BY DEF IInv, RunOK
  <2>2. Len(frames) \in Nat \ {0}
    BY <2>1, LastFront
  <2> QED BY <2>1, <2>2
<1> QED BY <1>1 DEF StoreInv, Closed, Top, Last

\* Replacing the top frame by one that knows the same.
LEMMA TopSame ==
    ASSUME RunOK, frames # <<>>, NEW f \in Frame, SetTop(f), f.wf = Top.wf,
           f.done = Top.done, f.vals = Top.vals
    PROVE  SameKnowledge
<1>1. frames \in Seq(Frame) /\ Len(frames) \in Nat \ {0} /\ Top = frames[Len(frames)]
  BY LastFront DEF RunOK, Top, Last
<1>2. /\ Len(frames') = Len(frames) /\ frames'[Len(frames)] = f
      /\ \A i \in 1..(Len(frames) - 1) : frames'[i] = frames[i]
  BY <1>1, ReplaceLast DEF SetTop
<1>3. ASSUME NEW i \in 1..Len(frames)
      PROVE  frames'[i].done = frames[i].done /\ frames'[i].vals = frames[i].vals
  <2>1. CASE i = Len(frames)
    BY <1>1, <1>2, <2>1
  <2>2. CASE i # Len(frames)
    <3>1. i \in 1..(Len(frames) - 1)
      BY <1>1, <2>2
    <3> QED BY <1>2, <3>1
  <2> QED BY <2>1, <2>2
<1> QED BY <1>2, <1>3 DEF SameKnowledge

\* A transition teaches a frame nothing.
LEMMA StatusSame ==
    ASSUME RunOK, frames # <<>>, NEW st \in Status, GoTo(st)
    PROVE  SameKnowledge
<1>1. Top \in Frame
  BY TopFrame
<1> DEFINE f == [Top EXCEPT !.status = st]
<1>2. f \in Frame /\ f.wf = Top.wf /\ f.done = Top.done /\ f.vals = Top.vals /\ SetTop(f)
  BY <1>1 DEF Frame, GoTo
<1> HIDE DEF f
<1> QED BY <1>2, TopSame

\* Neither does a step that leaves the frames alone.
LEMMA UnchangedSame == ASSUME UNCHANGED frames PROVE SameKnowledge
BY DEF SameKnowledge

\* Neither does fail().
LEMMA FailSame == ASSUME RunOK, frames # <<>>, FailRun
                  PROVE  SameKnowledge /\ (Checkpoint \/ NoCheckpointTaken)
BY StatusSame, UnchangedSame, Statuses DEF FailRun

\* The steps of the interpreter that teach the run nothing.
LEMMA StoreQuiet ==
    ASSUME IInv, IInv', StoreInv,
           \/ Execute \/ SkipNode \/ BeginNode \/ NextChild \/ LastChildReturned
           \/ TryFirst \/ ChildSelected \/ TakeBranch \/ BranchReturned
           \/ StartAction \/ HandlerRaises \/ TooDeep \/ PauseForApproval
           \/ BeginReview \/ EndReview \/ StatementRaises \/ TryAnother
           \/ ExecuteCompletes \/ ExecuteStops \/ ExecuteRaises
    PROVE  StoreInv'
<1>1. RunOK /\ frames # <<>>
  BY DEF Execute, Live, SkipNode, BeginNode, NextChild, LastChildReturned, TryFirst, ChildSelected,
         TakeBranch, BranchReturned, StartAction, HandlerRaises, TooDeep, PauseForApproval,
         BeginReview, EndReview, StatementRaises, TryAnother, Unwinding,
         ExecuteCompletes, ExecuteStops, ExecuteRaises, Returned, Looping, In, At, IInv, InterpreterOK
<1>2. CASE SkipNode \/ NextChild \/ LastChildReturned \/ TryFirst \/ ChildSelected
           \/ TakeBranch \/ BranchReturned \/ StatementRaises \/ TryAnother \/ ExecuteStops
  <2>1. UNCHANGED frames /\ NoCheckpointTaken
    BY <1>2 DEF SkipNode, NextChild, LastChildReturned, TryFirst, ChildSelected,
                TakeBranch, BranchReturned, StatementRaises, TryAnother, ExecuteStops
  <2> QED BY <1>1, <2>1, UnchangedSame, StoreSame
<1>3. CASE Execute \/ StartAction \/ TooDeep \/ PauseForApproval \/ BeginReview \/ EndReview
           \/ ExecuteCompletes
  <2>1. PICK st \in Status : GoTo(st)
    BY <1>3, Statuses DEF Execute, StartAction, TooDeep, PauseForApproval, BeginReview, EndReview,
                          ExecuteCompletes
  <2>2. Checkpoint \/ NoCheckpointTaken
    BY <1>3 DEF Execute, StartAction, TooDeep, PauseForApproval, BeginReview, EndReview,
                ExecuteCompletes
  <2> QED BY <1>1, <2>1, <2>2, StatusSame, StoreSame
<1>4. CASE BeginNode
  <2> DEFINE f == [Top EXCEPT !.at = Call.node]
  <2>1. Top \in Frame /\ Call.node \in Nodes
    <3>1. calls # <<>>
      BY <1>4 DEF BeginNode, At
    <3> QED BY <1>1, <3>1, TopFrame, CurrentCall DEF IInv, Activation
  <2>2. f \in Frame /\ f.wf = Top.wf /\ f.done = Top.done /\ f.vals = Top.vals /\ SetTop(f)
    BY <1>4, <2>1 DEF Frame, BeginNode
  <2> HIDE DEF f
  <2>3. NoCheckpointTaken
    BY <1>4 DEF BeginNode
  <2> QED BY <1>1, <2>2, <2>3, TopSame, StoreSame
<1>5. CASE HandlerRaises \/ ExecuteRaises
  <2>1. FailRun \/ (UNCHANGED frames /\ NoCheckpointTaken)
    BY <1>5 DEF HandlerRaises, ExecuteRaises
  <2> QED BY <1>1, <2>1, FailSame, UnchangedSame, StoreSame
<1> QED BY <1>2, <1>3, <1>4, <1>5

\* A node is recorded when it has what it needs, and the cursor is saved.
LEMMA StoreFinish == ASSUME IInv, IInv', ChainInv, StoreInv, FinishNode PROVE StoreInv'
<1> DEFINE f == [Top EXCEPT !.done = @ \cup {KeyOf(Call.node)}]
<1>1. At("exit") /\ SetTop(f) /\ Checkpoint
  BY DEF FinishNode
<1>2. /\ Call.phase = "exit" /\ Call.node \in Nodes /\ Work(Call, Top)
      /\ Top \in Frame /\ RunOK /\ frames # <<>>
  BY <1>1, AtWork
<1>3. /\ f \in Frame /\ Grown(Top, f) /\ f.wf = Top.wf /\ f.vals = Top.vals
      /\ f.done = Top.done \cup {<<Top.wf, Call.node>>}
  BY <1>2 DEF Frame, Grown, KeyOf, Key
<1> HIDE DEF f
<1>4. Learns /\ Top' = f /\ \A i \in 1..(Len(frames) - 1) : frames'[i] = frames[i]
  BY <1>1, <1>2, <1>3, TopLearns
<1>5. ASSUME NEW k \in f.done PROVE Justified(f, k[1], k[2])
  <2>1. CASE k \in Top.done
    <3>1. Justified(Top, k[1], k[2])
      BY <1>2, <2>1, TopClosed
    <3> QED BY <1>3, <3>1, JustifiedGrows DEF Grown
  <2>2. CASE k = <<Top.wf, Call.node>>
    <3>1. Justified(Top, Top.wf, Call.node)
      BY <1>2 DEF Work
    <3>2. Justified(f, Top.wf, Call.node)
      BY <1>3, <3>1, JustifiedGrows DEF Grown
    <3>3. k[1] = Top.wf /\ k[2] = Call.node
      BY <2>2
    <3> QED BY <3>2, <3>3
  <2> QED BY <1>3, <2>1, <2>2
<1> QED BY <1>1, <1>2, <1>4, <1>5, StoreTop

\* New values, from a handler or a capability, are saved with the frame.
LEMMA StoreValues ==
    ASSUME IInv, IInv', StoreInv, frames # <<>>, Checkpoint,
           NEW f \in Frame, SetTop(f), f.wf = Top.wf, f.done = Top.done, Top.vals \subseteq f.vals
    PROVE  StoreInv'
<1>1. RunOK /\ Grown(Top, f)
  BY DEF IInv, Grown
<1>2. Learns /\ Top' = f /\ \A i \in 1..(Len(frames) - 1) : frames'[i] = frames[i]
  BY <1>1, TopLearns
<1>3. \A k \in f.done : Justified(f, k[1], k[2])
  BY TopClosed, JustifiedGrows
<1> QED BY <1>2, <1>3, StoreTop

\* The values of a handler are in the checkpoint that follows.
LEMMA StoreHandled == ASSUME IInv, IInv', ChainInv, StoreInv, HandlerReturns PROVE StoreInv'
<1> DEFINE f == [Top EXCEPT !.status = "running", !.vals = @ \cup Result[Call.node]]
<1>1. At("handler") /\ SetTop(f) /\ Checkpoint
  BY DEF HandlerReturns
<1>2. Call.node \in Nodes /\ Top \in Frame /\ frames # <<>>
  BY <1>1, AtWork
<1>3. Result[Call.node] \in SUBSET Names /\ "running" \in Status
  BY <1>2, GraphAssumption, Statuses
<1>4. f \in Frame /\ f.wf = Top.wf /\ f.done = Top.done /\ Top.vals \subseteq f.vals
  BY <1>2, <1>3 DEF Frame
<1> HIDE DEF f
<1> QED BY <1>1, <1>2, <1>4, StoreValues

\* The host's calls change what a run knows only with a checkpoint.
LEMMA StoreHost == ASSUME IInv, IInv', StoreInv, HostCall PROVE StoreInv'
<1>1. frames # <<>> /\ RunOK /\ Top \in Frame
  BY HostLearns, TopFrame DEF IInv
<1>2. CASE Capability
  <2>1. Checkpoint
    BY <1>2 DEF Capability
  <2>2. CASE GoTo("failed")
    BY <1>1, <2>1, <2>2, StatusSame, StoreSame, Statuses
  <2>3. CASE \E vals \in SUBSET Names : SetTop([Top EXCEPT !.vals = @ \cup vals])
    <3>1. PICK vals \in SUBSET Names : SetTop([Top EXCEPT !.vals = @ \cup vals])
      BY <2>3
    <3> DEFINE f == [Top EXCEPT !.vals = @ \cup vals]
    <3>2. /\ f \in Frame /\ f.wf = Top.wf /\ f.done = Top.done /\ Top.vals \subseteq f.vals
          /\ SetTop(f)
      BY <1>1, <3>1 DEF Frame
    <3> HIDE DEF f
    <3> QED BY <1>1, <2>1, <3>2, StoreValues
  <2> QED BY <1>2, <2>2, <2>3 DEF Capability
<1>3. CASE Retry
  <2> DEFINE f == [Top EXCEPT !.status = "running", !.retries = @ + 1]
  <2>1. f \in Frame
    <3>1. "running" \in Status
      BY Statuses
    <3>2. Top.retries + 1 \in 0..MaxRetries
      BY <1>1, <1>3, BoundAssumption DEF Retry, CanRetry, Frame
    <3> QED BY <1>1, <3>1, <3>2 DEF Frame
  <2>2. f.wf = Top.wf /\ f.done = Top.done /\ f.vals = Top.vals /\ SetTop(f) /\ NoCheckpointTaken
    BY <1>1, <1>3 DEF Frame, Retry
  <2> HIDE DEF f
  <2> QED BY <1>1, <2>1, <2>2, TopSame, StoreSame
<1>4. CASE Resume \/ Pause \/ Cancel \/ Complete \/ Fail
  <2>1. (\E st \in Status : GoTo(st)) \/ UNCHANGED frames
    BY <1>4, Statuses DEF Resume, Pause, Cancel, Complete, Fail, FailRun
  <2>2. Checkpoint \/ NoCheckpointTaken
    BY <1>4 DEF Resume, Pause, Cancel, Complete, Fail, FailRun
  <2> QED BY <1>1, <2>1, <2>2, StatusSame, UnchangedSame, StoreSame
<1> QED BY <1>2, <1>3, <1>4 DEF HostCall

\* A child starts with what its caller knows.
LEMMA StorePush == ASSUME IInv, IInv', StoreInv, CallSubworkflow PROVE StoreInv'
<1> DEFINE n == Len(frames)
<1>1. /\ frames # <<>> /\ Len(frames') = n + 1 /\ frames \in Seq(Frame)
      /\ \A i \in 1..(n - 1) : frames'[i] = frames[i]
      /\ frames'[n] = [Top EXCEPT !.status = "waiting_for_child"]
      /\ Top' = NewFrame(Sub[Call.node], "running", Top.done, Top.vals)
      /\ NoCheckpointTaken
  BY PushedFrames DEF IInv, RunOK, CallSubworkflow
<1>2. n \in Nat \ {0} /\ Top = frames[n] /\ Top \in Frame /\ Top' = frames'[n + 1]
  <2>1. n \in Nat \ {0}
    BY <1>1, LastFront
  <2> QED BY <1>1, <2>1, TopFrame DEF Top, Last, IInv
<1> HIDE DEF n
<1>3. \A i \in 1..(n + 1) : \E j \in 1..n :
         /\ frames'[i].done = frames[j].done /\ frames'[i].vals = frames[j].vals
         /\ j = IF i = n + 1 THEN n ELSE i
  <2> SUFFICES ASSUME NEW i \in 1..(n + 1)
               PROVE  LET j == IF i = n + 1 THEN n ELSE i IN
                      /\ j \in 1..n
                      /\ frames'[i].done = frames[j].done /\ frames'[i].vals = frames[j].vals
    OBVIOUS
  <2>1. CASE i = n + 1
    BY <1>1, <1>2, <2>1 DEF NewFrame
  <2>2. CASE i = n
    BY <1>1, <1>2, <2>2 DEF Frame
  <2>3. CASE i # n + 1 /\ i # n
    <3>1. i \in 1..(n - 1)
      BY <1>2, <2>3
    <3> QED BY <1>1, <1>2, <3>1
  <2> QED BY <2>1, <2>2, <2>3
<1>4. Climbs(frames')
  <2> SUFFICES ASSUME NEW i \in 1..(n + 1), NEW j \in i..(n + 1)
               PROVE  /\ frames'[i].done \subseteq frames'[j].done
                      /\ frames'[i].vals \subseteq frames'[j].vals
    BY <1>1 DEF Climbs
  <2> DEFINE a == IF i = n + 1 THEN n ELSE i
             b == IF j = n + 1 THEN n ELSE j
  <2>1. /\ frames'[i].done = frames[a].done /\ frames'[i].vals = frames[a].vals
        /\ frames'[j].done = frames[b].done /\ frames'[j].vals = frames[b].vals
    <3>1. j \in 1..(n + 1)
      BY <1>2
    <3> QED BY <1>3, <3>1
  <2>2. a \in 1..n /\ b \in a..n
    BY <1>2
  <2> HIDE DEF a, b
  <2> QED BY <2>1, <2>2 DEF StoreInv, Climbs, n
<1>5. \A i \in 1..Len(frames') : \E j \in 1..Len(frames) :
         frames'[i].done = frames[j].done /\ frames'[i].vals = frames[j].vals
  BY <1>1, <1>3 DEF n
<1> QED BY <1>1, <1>4, <1>5, LearnsNothing DEF NoCheckpointTaken

\* A child hands all it knows to its caller, and the caller is saved.
LEMMA StorePop == ASSUME IInv, IInv', ChainInv, StoreInv, ChildReturns PROVE StoreInv'
<1> DEFINE n == Len(frames)
           parent == frames[n - 1]
<1>1. /\ n > 1 /\ Len(frames') = n - 1 /\ \A i \in 1..(n - 2) : frames'[i] = frames[i]
      /\ parent \in Frame /\ Top \in Frame /\ Top' = frames'[n - 1]
      /\ Top' = [parent EXCEPT !.status = "running", !.done = Top.done, !.vals = @ \cup Top.vals]
  BY ReturnedFrames
<1>2. n \in Nat /\ Top = frames[n] /\ Checkpoint /\ frames \in Seq(Frame)
  BY DEF IInv, RunOK, Top, Last, ChildReturns
<1>3. Top'.done = Top.done /\ Top.vals \subseteq Top'.vals
  BY <1>1 DEF Frame
<1>4. \A i \in 1..(n - 2) : frames[i].done \subseteq Top.done /\ frames[i].vals \subseteq Top.vals
  <2>1. \A i \in 1..(n - 2) : i \in 1..n /\ n \in i..n
    BY <1>1, <1>2
  <2> QED BY <1>2, <2>1 DEF StoreInv, Climbs
<1>0. frames' # <<>>
  BY <1>1
<1> HIDE DEF n, parent
<1>5. Climbs(frames')
  <2> SUFFICES ASSUME NEW i \in 1..(n - 1), NEW j \in i..(n - 1)
               PROVE  /\ frames'[i].done \subseteq frames'[j].done
                      /\ frames'[i].vals \subseteq frames'[j].vals
    BY <1>1 DEF Climbs
  <2>1. CASE i = n - 1
    BY <1>1, <1>2, <2>1
  <2>2. CASE i # n - 1 /\ j = n - 1
    <3>1. i \in 1..(n - 2)
      BY <1>1, <1>2, <2>2
    <3> QED BY <1>1, <1>3, <1>4, <2>2, <3>1
  <2>3. CASE i # n - 1 /\ j # n - 1
    <3>1. i \in 1..(n - 2) /\ j \in 1..(n - 2) /\ i \in 1..n /\ j \in i..n
      BY <1>1, <1>2, <2>3
    <3> QED BY <1>1, <3>1 DEF StoreInv, Climbs, n
  <2> QED BY <2>1, <2>2, <2>3
<1>6. Closed(frames')
  <2> SUFFICES ASSUME NEW i \in 1..(n - 1), NEW k \in frames'[i].done
               PROVE  Justified(frames'[i], k[1], k[2])
    BY <1>1 DEF Closed
  <2>1. CASE i = n - 1
    <3>1. Justified(Top, k[1], k[2])
      <4>1. frames # <<>>
        BY <1>1, <1>2 DEF n
      <4> QED BY <1>1, <1>3, <2>1, <4>1, TopClosed
    <3> QED BY <1>1, <1>3, <2>1, <3>1, JustifiedGrows
  <2>2. CASE i # n - 1
    <3>1. i \in 1..(n - 2) /\ i \in 1..n
      BY <1>1, <1>2, <2>2
    <3> QED BY <1>1, <3>1 DEF StoreInv, Closed, n
  <2> QED BY <2>1, <2>2
<1> QED BY <1>0, <1>2, <1>5, <1>6, SavesAll

\* An exception leaves the frames below as they were.
LEMMA StoreLeaves == ASSUME IInv, IInv', ChainInv, StoreInv, Propagate PROVE StoreInv'
<1>1. /\ executing /\ calls # <<>> /\ NoCheckpointTaken /\ frames \in Seq(Frame) /\ frames # <<>>
      /\ calls \in Seq(Activation)
  BY DEF Propagate, Unwinding, IInv, RunOK, InterpreterOK
<1>2. CASE Call.phase # "child"
  BY <1>1, <1>2, UnchangedSame, StoreSame DEF Propagate
<1>3. CASE Call.phase = "child"
  <2>1. Len(frames) > 1 /\ frames' = Front(frames) /\ Len(frames) \in Nat
    BY <1>1, <1>3, ChainTop DEF ChainInv, Call, Propagate
  <2>2. /\ Len(frames') = Len(frames) - 1
        /\ \A i \in 1..(Len(frames) - 1) : frames'[i] = frames[i]
    BY <1>1, <2>1, PoppedFrames
  <2>3. \A i \in 1..Len(frames') : i \in 1..Len(frames) /\ frames'[i] = frames[i]
    BY <2>1, <2>2
  <2>4. Climbs(frames')
    <3> SUFFICES ASSUME NEW i \in 1..Len(frames'), NEW j \in i..Len(frames')
                 PROVE  /\ frames'[i].done \subseteq frames'[j].done
                        /\ frames'[i].vals \subseteq frames'[j].vals
      BY DEF Climbs
    <3>1. j \in 1..Len(frames') /\ j \in i..Len(frames)
      BY <2>1, <2>2
    <3> QED BY <2>3, <3>1 DEF StoreInv, Climbs
  <2> QED BY <1>1, <2>3, <2>4, LearnsNothing DEF NoCheckpointTaken
<1> QED BY <1>2, <1>3

\* A crash forgets what is saved; a restoration starts from it.
LEMMA StoreCrash == ASSUME IInv, IInv', StoreInv, Crash \/ Restore PROVE StoreInv'
<1>1. CASE Crash
  <2>1. frames' = <<>> /\ UNCHANGED saved /\ Len(frames') = 0
    BY <1>1 DEF Crash
  <2>2. Climbs(frames')
    BY <2>1 DEF Climbs
  <2> QED BY <2>1, <2>2, LearnsNothing
<1>2. CASE Restore
  <2>1. frames' = saved.frames /\ frames' # <<>> /\ saved' = saved
    BY <1>2 DEF Restore
  <2>2. frames' \in Seq(Frame) /\ Len(frames') \in Nat \ {0}
    BY <2>1, LastFront DEF IInv, RunOK
  <2>3. Climbs(frames') /\ Closed(frames')
    BY <2>1 DEF StoreInv
  <2>4. ProgressIsSaved'
    <3> SUFFICES ASSUME NEW i \in 1..Len(frames')
                 PROVE  /\ frames'[i].done \subseteq Last(frames').done
                        /\ frames'[i].vals \subseteq Last(frames').vals
      BY <2>1 DEF ProgressIsSaved
    <3>1. Len(frames') \in i..Len(frames')
      BY <2>2
    <3> QED BY <2>3, <3>1 DEF Climbs, Last
  <2> QED BY <2>1, <2>3, <2>4 DEF StoreInv
<1> QED BY <1>1, <1>2

\* A new run knows nothing yet.
LEMMA StoreInit == Init => StoreInv
<1> SUFFICES ASSUME Init PROVE StoreInv
  OBVIOUS
<1>1. frames = <<NewFrame(definition, "pending", {}, {})>> /\ saved = NoCheckpoint
  BY DEF Init
<1>2. Len(frames) = 1 /\ frames[1].done = {} /\ frames[1].vals = {}
  BY <1>1 DEF NewFrame
<1>3. saved.frames = <<>> /\ Len(saved.frames) = 0
  BY <1>1 DEF NoCheckpoint
<1>4. Climbs(frames) /\ Climbs(saved.frames) /\ Closed(frames) /\ Closed(saved.frames)
  BY <1>2, <1>3 DEF Climbs, Closed
<1>5. ProgressIsSaved
  BY <1>2 DEF ProgressIsSaved
<1> QED BY <1>4, <1>5 DEF StoreInv

\* Every step keeps the store sound.
LEMMA StoreStep ==
    ASSUME IInv, IInv', ChainInv, StoreInv, [Next]_vars
    PROVE  StoreInv'
<1>1. CASE Execute \/ Interpret
  BY <1>1, StoreQuiet, StoreFinish, StoreHandled, StorePush, StorePop, StoreLeaves DEF Interpret
<1>2. CASE HostCall
  BY <1>2, StoreHost
<1>3. CASE Crash \/ Restore
  BY <1>3, StoreCrash
<1>4. CASE UNCHANGED vars
  BY <1>4 DEF vars, run, StoreInv, Climbs, Closed, ProgressIsSaved
<1> QED BY <1>1, <1>2, <1>3, <1>4 DEF Next

\* The two stacks fit, and nothing the engine knows is ahead of its work or
\* behind its checkpoint.
SoundInv == IInv /\ ChainInv /\ StoreInv

\* It is an invariant.
LEMMA SoundInvariant == Spec => []SoundInv
<1>1. Init => SoundInv
  BY InvariantInit, ChainInit, StoreInit DEF SoundInv
<1>2. SoundInv /\ [Next]_vars => SoundInv'
  BY InvariantStep, ChainStep, StoreStep DEF SoundInv, StoreInv
<1> QED BY <1>1, <1>2, PTL DEF Spec

\* A restoration neither repeats work nor skips it, for every graph: whatever a
\* frame knows is in the checkpoint, and every cursor, in memory and in the
\* store, has the cursors and values it stands for.
THEOREM CheckpointsSound == Spec => []CheckpointsAreSound
<1>1. SoundInv => CheckpointsAreSound
  <2> SUFFICES ASSUME StoreInv PROVE CheckpointsAreSound
    BY DEF SoundInv
  <2>1. CursorsClosed
    BY DEF StoreInv, Closed, CursorsClosed
  <2> QED BY <2>1 DEF StoreInv, CheckpointsAreSound
<1> QED BY <1>1, SoundInvariant, PTL

(***************************************************************************)
(* What a completed run has                                                *)
(***************************************************************************)

\* The steps that leave every frame but the top one alone.
LowerSame ==
    /\ Len(frames') = Len(frames)
    /\ \A i \in 1..(Len(frames) - 1) : frames'[i] = frames[i]

\* The steps that are not a call of a subworkflow, a return from one, a crash or
\* a restoration.
Plain ==
    \/ Execute \/ SkipNode \/ BeginNode \/ FinishNode \/ NextChild \/ LastChildReturned
    \/ TryFirst \/ ChildSelected \/ TakeBranch \/ BranchReturned
    \/ StartAction \/ HandlerReturns \/ HandlerRaises \/ TooDeep \/ PauseForApproval
    \/ BeginReview \/ EndReview \/ StatementRaises \/ TryAnother
    \/ Propagate /\ Call.phase # "child"
    \/ ExecuteCompletes \/ ExecuteStops \/ ExecuteRaises
    \/ HostCall

\* Such a step has a frame, keeps the ones below it, and saves all or nothing.
LEMMA PlainStep ==
    ASSUME IInv, IInv', ChainInv, Plain
    PROVE  /\ frames # <<>> /\ frames' # <<>> /\ definition' = definition
           /\ Learns /\ LowerSame /\ (Checkpoint \/ NoCheckpointTaken)
           /\ Top \in Frame
           /\ ~FinishNode => Top'.done = Top.done
<1>1. frames # <<>> /\ definition' = definition /\ RunOK /\ Top \in Frame
  <2>1. frames # <<>>
    BY HostLearns DEF Plain, Execute, Live, SkipNode, BeginNode, FinishNode, NextChild,
         LastChildReturned, TryFirst, ChildSelected, TakeBranch, BranchReturned, StartAction,
         HandlerReturns, HandlerRaises, TooDeep, PauseForApproval, BeginReview, EndReview,
         StatementRaises, TryAnother, Propagate, Unwinding, ExecuteCompletes, ExecuteStops,
         ExecuteRaises, Returned, Looping, In, At, IInv, InterpreterOK
  <2>2. definition' = definition
    BY HostLearns DEF Plain, Execute, SkipNode, BeginNode, FinishNode, NextChild,
         LastChildReturned, TryFirst, ChildSelected, TakeBranch, BranchReturned, StartAction,
         HandlerReturns, HandlerRaises, TooDeep, PauseForApproval, BeginReview, EndReview,
         StatementRaises, TryAnother, Propagate, ExecuteCompletes, ExecuteStops,
         ExecuteRaises, Quiet, Kept
  <2> QED BY <2>1, <2>2, TopFrame DEF IInv
<1>2. CASE UNCHANGED frames /\ (Checkpoint \/ NoCheckpointTaken)
  <2>1. LowerSame
    BY <1>2 DEF LowerSame
  <2> QED BY <1>1, <1>2, <2>1, SameLearns
<1>3. CASE (\E st \in Status : GoTo(st)) /\ (Checkpoint \/ NoCheckpointTaken)
  <2>1. PICK st \in Status : GoTo(st)
    BY <1>3
  <2>2. Learns /\ LowerSame /\ Top' = [Top EXCEPT !.status = st]
    BY <1>1, <2>1, StatusLearns DEF Learns, LowerSame
  <2>3. frames' # <<>> /\ Top'.done = Top.done
    BY <1>1, <2>1, <2>2, GoToStep DEF Frame
  <2> QED BY <1>1, <1>3, <2>2, <2>3
<1>4. CASE \E f \in Frame : /\ SetTop(f) /\ Grown(Top, f) /\ (Checkpoint \/ NoCheckpointTaken)
                            /\ ~FinishNode => f.done = Top.done
  <2>1. PICK f \in Frame : /\ SetTop(f) /\ Grown(Top, f) /\ (Checkpoint \/ NoCheckpointTaken)
                           /\ ~FinishNode => f.done = Top.done
    BY <1>4
  <2>2. Learns /\ LowerSame /\ Top' = f
    BY <1>1, <2>1, TopLearns DEF Learns, LowerSame
  <2>3. frames' # <<>>
    BY <1>1, <2>1, SetTopStep
  <2> QED BY <1>1, <2>1, <2>2, <2>3
<1>5. CASE FailRun
  BY <1>2, <1>3, <1>5, Statuses DEF FailRun
<1>6. CASE SkipNode \/ NextChild \/ LastChildReturned \/ TryFirst \/ ChildSelected
           \/ TakeBranch \/ BranchReturned \/ StatementRaises \/ TryAnother \/ ExecuteStops
           \/ (Propagate /\ Call.phase # "child")
  BY <1>2, <1>6 DEF SkipNode, NextChild, LastChildReturned, TryFirst, ChildSelected,
                TakeBranch, BranchReturned, StatementRaises, TryAnother, ExecuteStops, Propagate
<1>7. CASE Execute \/ StartAction \/ TooDeep \/ PauseForApproval \/ BeginReview \/ EndReview
           \/ ExecuteCompletes
  BY <1>3, <1>7, Statuses DEF Execute, StartAction, TooDeep, PauseForApproval, BeginReview,
                          EndReview, ExecuteCompletes
<1>8. CASE BeginNode
  <2>1. Call.node \in Nodes /\ At("visit")
    BY <1>8, AtWork DEF BeginNode
  <2>2. /\ [Top EXCEPT !.at = Call.node] \in Frame /\ Grown(Top, [Top EXCEPT !.at = Call.node])
        /\ [Top EXCEPT !.at = Call.node].done = Top.done
    BY <1>1, <2>1 DEF Frame, Grown
  <2> QED BY <1>4, <1>8, <2>2 DEF BeginNode
<1>9. CASE FinishNode
  <2> DEFINE f == [Top EXCEPT !.done = @ \cup {KeyOf(Call.node)}]
  <2>1. Call.node \in Nodes /\ At("exit")
    BY <1>9, AtWork DEF FinishNode
  <2>2. f \in Frame /\ Grown(Top, f)
    BY <1>1, <2>1 DEF Frame, Grown, KeyOf, Key
  <2>3. SetTop(f) /\ Checkpoint
    BY <1>9 DEF FinishNode
  <2> HIDE DEF f
  <2> QED BY <1>4, <1>9, <2>2, <2>3
<1>10. CASE HandlerReturns
  <2> DEFINE f == [Top EXCEPT !.status = "running", !.vals = @ \cup Result[Call.node]]
  <2>1. Result[Call.node] \in SUBSET Names /\ "running" \in Status
    BY <1>10, AtWork, GraphAssumption, Statuses DEF HandlerReturns
  <2>2. f \in Frame /\ Grown(Top, f) /\ f.done = Top.done
    BY <1>1, <2>1 DEF Frame, Grown
  <2>3. SetTop(f) /\ Checkpoint
    BY <1>10 DEF HandlerReturns
  <2> HIDE DEF f
  <2> QED BY <1>4, <2>2, <2>3
<1>11. CASE HandlerRaises \/ ExecuteRaises
  BY <1>2, <1>5, <1>11 DEF HandlerRaises, ExecuteRaises
<1>12. CASE HostCall
  <2>1. Learns /\ LowerSame /\ Top'.done = Top.done
    BY <1>12, HostLearns, SameLearns DEF LowerSame, Learns
  <2>2. Checkpoint \/ NoCheckpointTaken
    BY <1>12 DEF HostCall, Resume, Pause, Cancel, Retry, Complete, Fail, FailRun, Capability
  <2>3. frames' # <<>>
    BY <1>1, <2>1 DEF LowerSame, IInv, RunOK
  <2> QED BY <1>1, <2>1, <2>2, <2>3
<1> QED BY <1>6, <1>7, <1>8, <1>9, <1>10, <1>11, <1>12 DEF Plain

\* The table: no transition leaves a terminal status, and from an approval a run
\* goes on or is cancelled.
LEMMA TableFacts ==
    ASSUME Top \in Frame, NEW st, CanGo(st)
    PROVE  /\ Top.status \notin Terminal
           /\ st \notin {"running", "cancelled"} => Top.status # "waiting_for_approval"
<1>1. Top.status \in {"pending", "running", "waiting_for_child", "waiting_for_tool",
                      "waiting_for_approval", "reviewing", "revising", "failed",
                      "completed", "cancelled"}
  BY Statuses DEF Frame
<1>2. st \in Allowed[Top.status]
  BY DEF CanGo
<1>3. Allowed["completed"] = {} /\ Allowed["cancelled"] = {}
      /\ Allowed["waiting_for_approval"] = {"running", "cancelled"}
  BY DEF Allowed
<1> QED BY <1>1, <1>2, <1>3 DEF Terminal

\* What a step makes of the status of the top frame and of the promises about it.
Free == Top.status \notin Terminal \cup {"waiting_for_approval"}

StatusMove ==
    \/ UNCHANGED <<outputs, awaiting, ended>> /\ Top'.status = Top.status
    \/ UNCHANGED <<outputs, awaiting, ended>> /\ Top'.status # "completed" /\ Free
    \/ /\ HandlerReturns \/ EndReview
       /\ UNCHANGED <<outputs, awaiting, ended>> /\ Top'.status = "running" /\ CanGo("running")
    \/ /\ PauseForApproval /\ UNCHANGED <<outputs, ended>> /\ awaiting' = TRUE /\ Free
       /\ Top'.status = "waiting_for_approval" /\ Checkpoint
    \/ /\ Resume /\ CanGo("running")
       /\ UNCHANGED <<outputs, ended>> /\ awaiting' = FALSE /\ Top'.status = "running"
    \/ /\ Cancel /\ UNCHANGED outputs
       /\ awaiting' = FALSE /\ ended' = "cancelled" /\ Top'.status = "cancelled" /\ Checkpoint
    \/ /\ ExecuteCompletes \/ Complete
       /\ outputs' = Outputs[definition] /\ UNCHANGED awaiting /\ Free
       /\ ended' = "completed" /\ Top'.status = "completed" /\ Checkpoint
    \/ /\ Complete /\ outputs' = Outputs[definition] /\ UNCHANGED <<awaiting, ended>>
       /\ Top'.status = Top.status

\* The status after a transition.
LEMMA GoesTo ==
    ASSUME RunOK, frames # <<>>, NEW st \in Status, GoTo(st)
    PROVE  Top'.status = st
<1>1. Top \in Frame /\ Top' = [Top EXCEPT !.status = st]
  BY TopFrame, StatusLearns
<1> QED BY <1>1 DEF Frame

\* The status after an assignment of the top frame.
LEMMA SetsTo ==
    ASSUME RunOK, frames # <<>>, NEW f \in Frame, SetTop(f), Grown(Top, f)
    PROVE  Top'.status = f.status
BY TopLearns

\* Every plain step is one of these moves.
LEMMA PlainStatus ==
    ASSUME IInv, IInv', ChainInv, Plain
    PROVE  StatusMove
<1>1. frames # <<>> /\ RunOK /\ Top \in Frame
  BY PlainStep DEF IInv
<1>2. CASE SkipNode \/ NextChild \/ LastChildReturned \/ TryFirst \/ ChildSelected
           \/ TakeBranch \/ BranchReturned \/ StatementRaises \/ TryAnother \/ ExecuteStops
           \/ (Propagate /\ Call.phase # "child")
  <2>1. UNCHANGED <<frames, outputs, awaiting, ended>>
    BY <1>2 DEF SkipNode, NextChild, LastChildReturned, TryFirst, ChildSelected, TakeBranch,
                BranchReturned, StatementRaises, TryAnother, ExecuteStops, Propagate, Quiet
  <2> QED BY <2>1, SameLearns DEF StatusMove
<1>3. ASSUME FailRun, UNCHANGED <<awaiting, ended>>
      PROVE  StatusMove
  <2>1. CASE CanGo("failed")
    <3>1. GoTo("failed") /\ UNCHANGED outputs
      BY <1>3, <2>1 DEF FailRun
    <3>2. Top'.status = "failed"
      BY <1>1, <3>1, GoesTo, Statuses
    <3>3. Free
      BY <1>1, <2>1, TableFacts DEF Free
    <3> QED BY <1>3, <3>1, <3>2, <3>3 DEF StatusMove
  <2>2. CASE ~CanGo("failed")
    BY <1>3, <2>2, SameLearns DEF FailRun, StatusMove
  <2> QED BY <2>1, <2>2
<1>4. CASE Execute \/ StartAction \/ TooDeep \/ BeginReview
  <2>1. PICK st \in {"running", "waiting_for_tool", "waiting_for_child", "reviewing"} : GoTo(st)
    BY <1>4 DEF Execute, StartAction, TooDeep, BeginReview
  <2>2. Top'.status = st
    BY <1>1, <2>1, GoesTo, Statuses
  <2>3. UNCHANGED <<outputs, awaiting, ended>>
    BY <1>4 DEF Execute, StartAction, TooDeep, BeginReview, Quiet
  <2>4. Free
    <3>1. CASE Execute
      BY <3>1 DEF Execute, Free, Terminal
    <3>2. CASE StartAction
      BY <3>2 DEF StartAction, Free, Terminal
    <3>3. CASE TooDeep
      BY <1>1, <3>3, TableFacts DEF TooDeep, Free
    <3>4. CASE BeginReview
      BY <1>1, <3>4, TableFacts DEF BeginReview, Free
    <3> QED BY <1>4, <3>1, <3>2, <3>3, <3>4
  <2> QED BY <2>1, <2>2, <2>3, <2>4 DEF StatusMove
<1>5. CASE BeginNode \/ FinishNode
  <2>1. UNCHANGED <<outputs, awaiting, ended>>
    BY <1>5 DEF BeginNode, FinishNode, Quiet
  <2>2. Call.node \in Nodes
    BY <1>5, AtWork DEF BeginNode, FinishNode
  <2>3. CASE BeginNode
    <3> DEFINE f == [Top EXCEPT !.at = Call.node]
    <3>1. f \in Frame /\ Grown(Top, f) /\ f.status = Top.status /\ SetTop(f)
      BY <1>1, <2>2, <2>3 DEF Frame, Grown, BeginNode
    <3> HIDE DEF f
    <3> QED BY <1>1, <2>1, <3>1, SetsTo DEF StatusMove
  <2>4. CASE FinishNode
    <3> DEFINE f == [Top EXCEPT !.done = @ \cup {KeyOf(Call.node)}]
    <3>1. f \in Frame /\ Grown(Top, f) /\ f.status = Top.status
      BY <1>1, <2>2 DEF Frame, Grown, KeyOf, Key
    <3>2. SetTop(f)
      BY <2>4 DEF FinishNode
    <3> HIDE DEF f
    <3> QED BY <1>1, <2>1, <3>1, <3>2, SetsTo DEF StatusMove
  <2> QED BY <1>5, <2>3, <2>4
<1>6. CASE HandlerReturns
  <2> DEFINE f == [Top EXCEPT !.status = "running", !.vals = @ \cup Result[Call.node]]
  <2>1. Result[Call.node] \in SUBSET Names /\ "running" \in Status
    BY <1>6, AtWork, GraphAssumption, Statuses DEF HandlerReturns
  <2>2. f \in Frame /\ Grown(Top, f) /\ f.status = "running"
    BY <1>1, <2>1 DEF Frame, Grown
  <2>3. SetTop(f) /\ CanGo("running") /\ UNCHANGED <<outputs, awaiting, ended>>
    BY <1>6 DEF HandlerReturns, Quiet
  <2> HIDE DEF f
  <2> QED BY <1>1, <1>6, <2>2, <2>3, SetsTo DEF StatusMove
<1>7. CASE EndReview
  <2>1. GoTo("running") /\ CanGo("running") /\ UNCHANGED <<outputs, awaiting, ended>>
    BY <1>7 DEF EndReview, Quiet
  <2> QED BY <1>1, <1>7, <2>1, GoesTo, Statuses DEF StatusMove
<1>8. CASE PauseForApproval
  <2>1. /\ GoTo("waiting_for_approval") /\ CanGo("waiting_for_approval") /\ Checkpoint
        /\ UNCHANGED <<outputs, ended>> /\ awaiting' = TRUE
    BY <1>8 DEF PauseForApproval
  <2>2. Free
    BY <1>1, <2>1, TableFacts DEF Free
  <2> QED BY <1>1, <1>8, <2>1, <2>2, GoesTo, Statuses DEF StatusMove
<1>9. CASE ExecuteCompletes
  <2>1. /\ GoTo("completed") /\ Top.status = "running" /\ Checkpoint
        /\ outputs' = Outputs[definition] /\ ended' = "completed" /\ UNCHANGED awaiting
    BY <1>9 DEF ExecuteCompletes
  <2>2. Free
    BY <2>1 DEF Free, Terminal
  <2> QED BY <1>1, <1>9, <2>1, <2>2, GoesTo, Statuses DEF StatusMove
<1>10. CASE HandlerRaises \/ Fail
  BY <1>3, <1>10 DEF HandlerRaises, Fail
<1>11. CASE ExecuteRaises
  <2>1. UNCHANGED <<awaiting, ended>> /\ (FailRun \/ UNCHANGED <<frames, outputs>>)
    BY <1>11 DEF ExecuteRaises
  <2> QED BY <1>3, <2>1, SameLearns DEF StatusMove
<1>12. CASE Resume
  BY <1>1, <1>12, GoesTo, Statuses DEF Resume, StatusMove
<1>13. CASE Pause
  <2>1. GoTo("waiting_for_approval") /\ CanGo("waiting_for_approval")
        /\ UNCHANGED <<outputs, awaiting, ended>>
    BY <1>13 DEF Pause
  <2>2. Free /\ Top'.status = "waiting_for_approval"
    BY <1>1, <2>1, TableFacts, GoesTo, Statuses DEF Free
  <2> QED BY <2>1, <2>2 DEF StatusMove
<1>14. CASE Cancel
  BY <1>1, <1>14, GoesTo, Statuses DEF Cancel, StatusMove
<1>15. CASE Retry
  <2> DEFINE f == [Top EXCEPT !.status = "running", !.retries = @ + 1]
  <2>1. f \in Frame
    <3>1. "running" \in Status
      BY Statuses
    <3>2. Top.retries + 1 \in 0..MaxRetries
      BY <1>1, <1>15, BoundAssumption DEF Retry, CanRetry, Frame
    <3> QED BY <1>1, <3>1, <3>2 DEF Frame
  <2>2. Grown(Top, f) /\ f.status = "running" /\ SetTop(f) /\ UNCHANGED <<outputs, awaiting, ended>>
    BY <1>1, <1>15 DEF Frame, Grown, Retry
  <2>3. Free
    BY <1>15 DEF Retry, CanRetry, Free, Terminal
  <2> HIDE DEF f
  <2> QED BY <1>1, <2>1, <2>2, <2>3, SetsTo DEF StatusMove
<1>16. CASE Complete
  <2>1. CASE CanGo("completed")
    <3>1. /\ GoTo("completed") /\ Checkpoint /\ ended' = "completed"
          /\ outputs' = Outputs[definition] /\ UNCHANGED awaiting
      BY <1>16, <2>1 DEF Complete
    <3>2. Free /\ Top'.status = "completed"
      BY <1>1, <2>1, <3>1, TableFacts, GoesTo, Statuses DEF Free
    <3> QED BY <1>16, <3>1, <3>2 DEF StatusMove
  <2>2. CASE ~CanGo("completed")
    BY <1>16, <2>2, SameLearns DEF Complete, StatusMove
  <2> QED BY <2>1, <2>2
<1>17. CASE Capability
  <2>1. UNCHANGED <<outputs, awaiting, ended>> /\ Free
    BY <1>17 DEF Capability, Free, Terminal
  <2>2. CASE GoTo("failed")
    BY <1>1, <2>1, <2>2, GoesTo, Statuses DEF StatusMove
  <2>3. CASE \E vals \in SUBSET Names : SetTop([Top EXCEPT !.vals = @ \cup vals])
    <3>1. PICK vals \in SUBSET Names : SetTop([Top EXCEPT !.vals = @ \cup vals])
      BY <2>3
    <3> DEFINE f == [Top EXCEPT !.vals = @ \cup vals]
    <3>2. f \in Frame /\ Grown(Top, f) /\ f.status = Top.status /\ SetTop(f)
      BY <1>1, <3>1 DEF Frame, Grown
    <3> HIDE DEF f
    <3> QED BY <1>1, <2>1, <3>2, SetsTo DEF StatusMove
  <2> QED BY <1>17, <2>2, <2>3 DEF Capability
<1> QED BY <1>2, <1>4, <1>5, <1>6, <1>7, <1>8, <1>9, <1>10, <1>11, <1>12, <1>13, <1>14,
           <1>15, <1>16, <1>17 DEF Plain, HostCall

\* The steps in the frame on top.
LEMMA OutputPlain == ASSUME IInv, IInv', ChainInv, OutputInv, Plain PROVE OutputInv'
<1>1. /\ frames # <<>> /\ frames' # <<>> /\ definition' = definition
      /\ LowerSame /\ (Checkpoint \/ NoCheckpointTaken)
  BY PlainStep
<1>2. Waiting(frames')
  BY <1>1 DEF OutputInv, Waiting, LowerSame
<1>3. Top'.status = "completed" => Outputs[definition] \subseteq outputs'
  <2>1. Top.status = "completed" => Outputs[definition] \subseteq outputs
    BY <1>1 DEF OutputInv, Completed, Top
  <2> QED BY <2>1, PlainStatus DEF StatusMove
<1>4. Completed(frames, outputs)'
  BY <1>1, <1>3 DEF Completed, Top
<1>5. CASE Checkpoint
  <2>1. saved'.frames = frames' /\ saved'.outputs = outputs'
    BY <1>5 DEF Checkpoint
  <2> QED BY <1>2, <1>4, <2>1 DEF OutputInv, Completed, Waiting
<1>6. CASE NoCheckpointTaken
  BY <1>1, <1>2, <1>4, <1>6 DEF OutputInv, NoCheckpointTaken, Completed, Waiting
<1> QED BY <1>1, <1>5, <1>6

\* A call of a subworkflow waits; its child runs.
LEMMA OutputPush == ASSUME IInv, OutputInv, CallSubworkflow PROVE OutputInv'
<1>1. /\ frames # <<>> /\ Len(frames') = Len(frames) + 1 /\ Top \in Frame
      /\ \A i \in 1..(Len(frames) - 1) : frames'[i] = frames[i]
      /\ frames'[Len(frames)].status = "waiting_for_child"
      /\ Top'.status = "running" /\ Len(frames) \in Nat
  <2>1. /\ frames # <<>> /\ Len(frames') = Len(frames) + 1
        /\ \A i \in 1..(Len(frames) - 1) : frames'[i] = frames[i]
        /\ frames'[Len(frames)] = [Top EXCEPT !.status = "waiting_for_child"]
        /\ Top' = NewFrame(Sub[Call.node], "running", Top.done, Top.vals)
    BY PushedFrames
  <2>2. Top \in Frame /\ Len(frames) \in Nat
    BY <2>1, TopFrame DEF IInv
  <2> QED BY <2>1, <2>2 DEF NewFrame, Frame
<1>2. UNCHANGED <<definition, saved>>
  BY DEF CallSubworkflow, Quiet, Kept, NoCheckpointTaken
<1>3. Waiting(frames')
  <2> SUFFICES ASSUME NEW i \in 1..Len(frames) PROVE frames'[i].status = "waiting_for_child"
    BY <1>1 DEF Waiting
  <2>1. CASE i = Len(frames)
    BY <1>1, <2>1
  <2>2. CASE i # Len(frames)
    <3>1. i \in 1..(Len(frames) - 1)
      BY <1>1, <2>2
    <3> QED BY <1>1, <3>1 DEF OutputInv, Waiting
  <2> QED BY <2>1, <2>2
<1>4. Completed(frames, outputs)'
  BY <1>1 DEF Completed, Top
<1> QED BY <1>2, <1>3, <1>4 DEF OutputInv, Completed, Waiting

\* A caller whose child returns runs.
LEMMA OutputPop == ASSUME IInv, IInv', ChainInv, OutputInv, ChildReturns PROVE OutputInv'
<1>1. /\ Len(frames) > 1 /\ Len(frames') = Len(frames) - 1
      /\ \A i \in 1..(Len(frames) - 2) : frames'[i] = frames[i]
      /\ Top'.status = "running" /\ Len(frames) \in Nat
  <2>1. /\ Len(frames) > 1 /\ Len(frames') = Len(frames) - 1
        /\ \A i \in 1..(Len(frames) - 2) : frames'[i] = frames[i]
        /\ frames[Len(frames) - 1] \in Frame
        /\ Top' = [frames[Len(frames) - 1] EXCEPT
                      !.status = "running", !.done = Top.done, !.vals = @ \cup Top.vals]
    BY ReturnedFrames
  <2>2. Len(frames) \in Nat
    BY DEF IInv, RunOK
  <2> QED BY <2>1, <2>2 DEF Frame
<1>2. saved' = [frames |-> frames', outputs |-> outputs', error |-> error']
  BY DEF ChildReturns, Checkpoint
<1>3. Waiting(frames')
  <2> SUFFICES ASSUME NEW i \in 1..(Len(frames) - 2)
               PROVE  frames'[i].status = "waiting_for_child"
    BY <1>1 DEF Waiting
  <2>1. i \in 1..(Len(frames) - 1)
    BY <1>1
  <2> QED BY <1>1, <2>1 DEF OutputInv, Waiting
<1>4. Completed(frames, outputs)'
  BY <1>1 DEF Completed, Top
<1> QED BY <1>2, <1>3, <1>4 DEF OutputInv, Completed, Waiting

\* An exception that leaves a child finds its caller waiting.
LEMMA OutputLeaves ==
    ASSUME IInv, ChainInv, OutputInv, Propagate, Call.phase = "child"
    PROVE  OutputInv'
<1>1. /\ calls # <<>> /\ calls \in Seq(Activation) /\ frames \in Seq(Frame)
      /\ frames' = Front(frames) /\ UNCHANGED <<definition, saved>>
  BY DEF Propagate, Unwinding, IInv, RunOK, InterpreterOK, Quiet, Kept, NoCheckpointTaken
<1>2. Len(frames) > 1 /\ Len(frames) \in Nat
  BY <1>1, ChainTop DEF ChainInv, Call
<1>3. /\ Len(frames') = Len(frames) - 1
      /\ \A i \in 1..(Len(frames) - 1) : frames'[i] = frames[i]
      /\ Last(frames') = frames[Len(frames) - 1]
  BY <1>1, <1>2, PoppedFrames
<1>4. \A i \in 1..(Len(frames) - 1) : frames'[i].status = "waiting_for_child"
  BY <1>3 DEF OutputInv, Waiting
<1>5. Waiting(frames')
  <2>1. \A i \in 1..(Len(frames') - 1) : i \in 1..(Len(frames) - 1)
    BY <1>2, <1>3
  <2> QED BY <1>4, <2>1 DEF Waiting
<1>6. Completed(frames, outputs)'
  <2>1. Len(frames) - 1 \in 1..(Len(frames) - 1)
    BY <1>2
  <2>2. Last(frames').status = "waiting_for_child"
    BY <1>3, <1>4, <2>1
  <2> QED BY <2>2 DEF Completed
<1> QED BY <1>1, <1>5, <1>6 DEF OutputInv, Completed, Waiting

\* A crash and a restoration.
LEMMA OutputCrash == ASSUME OutputInv, Crash \/ Restore PROVE OutputInv'
<1>1. CASE Crash
  <2>1. frames' = <<>> /\ UNCHANGED <<definition, saved>> /\ Len(frames') = 0
    BY <1>1 DEF Crash
  <2> QED BY <2>1 DEF OutputInv, Completed, Waiting
<1>2. CASE Restore
  <2>1. frames' = saved.frames /\ outputs' = saved.outputs /\ UNCHANGED <<definition, saved>>
    BY <1>2 DEF Restore
  <2> QED BY <2>1 DEF OutputInv, Completed, Waiting
<1> QED BY <1>1, <1>2

\* A new run has one frame, pending, and no checkpoint.
LEMMA OutputInit == Init => OutputInv
<1> SUFFICES ASSUME Init PROVE OutputInv
  OBVIOUS
<1>1. frames = <<NewFrame(definition, "pending", {}, {})>> /\ saved = NoCheckpoint
  BY DEF Init
<1>2. Len(frames) = 1 /\ Last(frames).status = "pending"
  BY <1>1 DEF NewFrame, Last
<1>3. saved.frames = <<>> /\ Len(saved.frames) = 0
  BY <1>1 DEF NoCheckpoint
<1> QED BY <1>2, <1>3 DEF OutputInv, Completed, Waiting

\* The steps of a run, told apart by the stack they leave.
LEMMA StepKinds ==
    ASSUME [Next]_vars
    PROVE  \/ Plain \/ CallSubworkflow \/ ChildReturns \/ (Propagate /\ Call.phase = "child")
           \/ Crash \/ Restore \/ UNCHANGED vars
<1>1. CASE Interpret
  <2>1. \/ Propagate \/ CallSubworkflow \/ ChildReturns \/ Plain
    BY <1>1 DEF Interpret, Plain
  <2>2. Propagate /\ Call.phase # "child" => Plain
    BY DEF Plain
  <2> QED BY <2>1, <2>2
<1>2. CASE Execute \/ HostCall
  BY <1>2 DEF Plain
<1> QED BY <1>1, <1>2 DEF Next

\* Every step keeps it.
LEMMA OutputStep ==
    ASSUME IInv, IInv', ChainInv, OutputInv, [Next]_vars
    PROVE  OutputInv'
<1>1. CASE Plain
  BY <1>1, OutputPlain
<1>2. CASE CallSubworkflow \/ ChildReturns \/ (Propagate /\ Call.phase = "child")
  BY <1>2, OutputPush, OutputPop, OutputLeaves
<1>3. CASE Crash \/ Restore
  BY <1>3, OutputCrash
<1>4. CASE UNCHANGED vars
  BY <1>4 DEF vars, run, OutputInv, Completed, Waiting
<1> QED BY <1>1, <1>2, <1>3, <1>4, StepKinds

\* The end of execute().
LEMMA OnlyFinished ==
    ASSUME SoundInv, OutputInv, SoundInv', OutputInv', [Next]_vars,
           executing, Live', Last(frames').status = "completed", ~executing'
    PROVE  /\ \/ Top.status = "completed"
              \/ KeyOf(Root[definition]) \in Last(frames').done
           /\ Outputs[definition] \subseteq outputs'
<1>1. ExecuteCompletes \/ ExecuteStops \/ ExecuteRaises
  <2>1. ~Crash /\ ~Restore /\ ~UNCHANGED vars /\ ~Execute
    BY DEF Crash, Live, Restore, interpreter, vars, Execute
  <2>2. ~HostCall
    BY HostLearns DEF SoundInv
  <2>3. Interpret
    BY <2>1, <2>2 DEF Next
  <2> QED BY <2>3 DEF Interpret, SkipNode, BeginNode, FinishNode, NextChild, LastChildReturned,
                      TryFirst, ChildSelected, TakeBranch, BranchReturned, StartAction,
                      HandlerReturns, HandlerRaises, CallSubworkflow, TooDeep, ChildReturns,
                      PauseForApproval, BeginReview, EndReview, StatementRaises, TryAnother,
                      Propagate, Quiet, Raise
<1>2. /\ Plain /\ IInv /\ IInv' /\ ChainInv
  BY <1>1 DEF Plain, SoundInv
<1>3. /\ frames # <<>> /\ frames' # <<>> /\ definition' = definition /\ RunOK
      /\ ~FinishNode => Top'.done = Top.done
  BY <1>2, PlainStep DEF IInv
<1>4. Outputs[definition] \subseteq outputs'
  BY <1>3 DEF OutputInv, Completed
<1>5. CASE ExecuteCompletes
  <2>1. executing /\ ~raising /\ calls = <<>>
    BY <1>5 DEF ExecuteCompletes, Returned
  <2>2. KeyOf(Root[definition]) \in Top.done
    BY <1>2, <2>1 DEF ChainInv, AtRoot
  <2>3. ~FinishNode
    BY <2>1 DEF FinishNode, At
  <2> QED BY <1>3, <1>4, <2>2, <2>3 DEF Top
<1>6. CASE ExecuteStops \/ ExecuteRaises
  <2>1. frames' = frames \/ GoTo("failed")
    BY <1>6 DEF ExecuteStops, ExecuteRaises, FailRun
  <2>2. ~GoTo("failed")
    <3> SUFFICES ASSUME GoTo("failed") PROVE FALSE
      OBVIOUS
    <3>1. Top'.status = "failed"
      BY <1>3, GoesTo, Statuses
    <3> QED BY <3>1 DEF Top
  <2> QED BY <1>4, <2>1, <2>2 DEF Top
<1> QED BY <1>1, <1>5, <1>6

\* execute() leaves a run completed only after the root of its graph was executed
\* to its end, or when it found the run completed; and then with every declared
\* output, for every graph and whatever was paused, retried and restored before.
THEOREM CompletesFinished == Spec => CompletesOnlyFinished
<1>1. Init => OutputInv
  BY OutputInit
<1>2. SoundInv /\ SoundInv' /\ OutputInv /\ [Next]_vars => OutputInv'
  BY OutputStep DEF SoundInv
<1>3. SoundInv /\ SoundInv' /\ OutputInv /\ OutputInv' /\ [Next]_vars
        => [ executing /\ Live' /\ Last(frames').status = "completed" /\ ~executing'
               => /\ \/ Top.status = "completed"
                     \/ KeyOf(Root[definition]) \in Last(frames').done
                  /\ Outputs[definition] \subseteq outputs' ]_vars
  BY OnlyFinished
<1> QED BY <1>1, <1>2, <1>3, SoundInvariant, PTL DEF Spec, CompletesOnlyFinished

(***************************************************************************)
(* A run without subworkflow calls                                         *)
(***************************************************************************)

\* An activation that has called one below it is in the midst of its children.
LEMMA CalledInside ==
    ASSUME NEW cs \in Seq(Activation), cs # <<>>, NEW fs \in Seq(Frame), Chain(cs, fs),
           Called(Last(cs))
    PROVE  /\ Last(cs).phase \notin {"handler", "reviewing"}
           /\ Last(cs).phase = "enter" => Kind[Last(cs).node] # "action"
BY ChainTop DEF Called, Work, Composite, Loops

\* What a step does to the activations: nothing, go on, return, go down, begin.
CallMove ==
    \/ UNCHANGED calls
    \/ calls # <<>> /\ \E q \in Phases \ {"child"} :
          /\ Phase(q)
          /\ q = "enter" => BeginNode
          /\ q = "handler" => StartAction
          /\ q = "reviewing" => BeginReview
    \/ calls # <<>> /\ Call.phase # "child" /\ Return
    \/ calls # <<>> /\ \E i \in 1..Len(ChildrenOf(Call)) : ExecuteChild(i)
    \/ calls' = <<VisitOf(Root[definition])>>

\* Every plain step is one of these moves of the activations.
LEMMA PlainMove == ASSUME IInv, ChainInv, Plain PROVE CallMove
<1>1. CASE HandlerRaises \/ TooDeep \/ StatementRaises \/ ExecuteCompletes \/ ExecuteStops
           \/ ExecuteRaises
  BY <1>1 DEF HandlerRaises, TooDeep, StatementRaises, ExecuteCompletes, ExecuteStops,
              ExecuteRaises, Raise, CallMove
<1>2. CASE HostCall
  BY <1>2, HostLearns DEF CallMove
<1>3. CASE Execute
  BY <1>3 DEF Execute, CallMove
<1>4. CASE BeginNode
  BY <1>4 DEF BeginNode, At, Phases, CallMove
<1>5. CASE StartAction
  BY <1>5 DEF StartAction, In, At, Phases, CallMove
<1>6. CASE BeginReview
  BY <1>6 DEF BeginReview, In, At, Phases, CallMove
<1>7. CASE EndReview
  BY <1>7 DEF EndReview, At, Phases, CallMove
<1>8. CASE LastChildReturned \/ ChildSelected \/ BranchReturned \/ HandlerReturns
           \/ PauseForApproval
  <2>1. calls # <<>> /\ Phase("exit") /\ "exit" \in Phases \ {"child"}
    BY <1>8 DEF LastChildReturned, ChildSelected, BranchReturned, HandlerReturns,
                PauseForApproval, Looping, In, At, Phases
  <2> QED BY <2>1 DEF CallMove
<1>9. CASE SkipNode \/ FinishNode \/ (Propagate /\ Call.phase # "child")
  BY <1>9 DEF SkipNode, FinishNode, Propagate, Unwinding, At, CallMove
<1>10. CASE TakeBranch
  <2>1. At("enter") /\ calls # <<>>
    BY <1>10 DEF TakeBranch, In, At
  <2>2. Len(ChildrenOf(Call)) \in Nat
    BY <2>1, AtWork
  <2>3. PICK b \in {1, 2} : IF b <= Len(ChildrenOf(Call)) THEN ExecuteChild(b) ELSE Phase("exit")
    BY <1>10 DEF TakeBranch
  <2>4. CASE b <= Len(ChildrenOf(Call))
    <3>1. b \in 1..Len(ChildrenOf(Call))
      BY <2>2, <2>4
    <3> QED BY <2>1, <2>3, <2>4, <3>1 DEF CallMove
  <2>5. CASE ~(b <= Len(ChildrenOf(Call)))
    BY <2>1, <2>3, <2>5 DEF CallMove, Phases
  <2> QED BY <2>4, <2>5
<1>11. CASE NextChild \/ TryFirst \/ TryAnother
  <2>1. calls # <<>> /\ InterpreterOK
    BY <1>11 DEF NextChild, TryFirst, TryAnother, Unwinding, Looping, In, At, IInv
  <2>2. \E i \in 1..Len(ChildrenOf(Call)) : ExecuteChild(i)
    BY <1>11, <2>1, ChildIndex DEF NextChild, TryFirst, TryAnother, Catches
  <2> QED BY <2>1, <2>2 DEF CallMove
<1> QED BY <1>1, <1>2, <1>3, <1>4, <1>5, <1>6, <1>7, <1>8, <1>9, <1>10, <1>11 DEF Plain

\* An activation reaches its handler only through StartAction, and is entered
\* only through BeginNode.
LEMMA PlainArrives ==
    ASSUME IInv, IInv', ChainInv, ChainInv', Plain, calls' # <<>>, calls' # calls
    PROVE  /\ Call'.phase = "handler" => StartAction
           /\ Call'.phase = "reviewing" => BeginReview
           /\ Call'.phase = "enter" /\ Kind[Call'.node] = "action"
                => BeginNode /\ Call'.node = Call.node
<1>0. calls \in Seq(Activation) /\ calls' \in Seq(Activation) /\ frames' \in Seq(Frame)
  BY DEF IInv, InterpreterOK, RunOK
<1>1. CASE calls # <<>> /\ \E q \in Phases \ {"child"} :
               /\ Phase(q)
               /\ q = "enter" => BeginNode
               /\ q = "handler" => StartAction
               /\ q = "reviewing" => BeginReview
  <2>1. PICK q \in Phases \ {"child"} :
               /\ Phase(q)
               /\ q = "enter" => BeginNode
               /\ q = "handler" => StartAction
               /\ q = "reviewing" => BeginReview
    BY <1>1
  <2> DEFINE c == [Call EXCEPT !.phase = q]
  <2>2. Call \in Activation /\ Call = Last(calls)
    BY <1>1, CurrentCall DEF IInv, Call
  <2>3. c \in Activation /\ c.node = Call.node /\ c.phase = q
    BY <2>2 DEF Activation
  <2>4. calls' = [calls EXCEPT ![Len(calls)] = c]
    BY <2>1 DEF Phase, SetCall
  <2> HIDE DEF c
  <2>5. Call' = c
    BY <1>0, <1>1, <2>2, <2>3, <2>4, PhaseStack DEF Call
  <2> QED BY <2>1, <2>3, <2>5
<1>2. CASE calls # <<>> /\ Call.phase # "child" /\ Return
  <2>1. Chain(calls, frames) /\ Chain(calls', frames') /\ calls' = Front(calls)
    BY <1>2 DEF ChainInv, Return
  <2>2. Called(Last(calls'))
    BY <1>0, <1>2, <2>1, ChainBelow DEF IInv, RunOK
  <2> QED BY <1>0, <2>1, <2>2, CalledInside DEF Call
<1>3. CASE calls # <<>> /\ \E i \in 1..Len(ChildrenOf(Call)) : ExecuteChild(i)
  <2>1. PICK i \in 1..Len(ChildrenOf(Call)) : ExecuteChild(i)
    BY <1>3
  <2> DEFINE c == [Call EXCEPT !.next = i]
             v == VisitOf(ChildrenOf(Call)[i])
  <2>2. Call \in Activation /\ Call = Last(calls) /\ ChildrenOf(Call) \in Seq(Nodes)
    BY <1>3, ChildIndex DEF IInv, Call
  <2>3. c \in Activation /\ c.node = Call.node /\ v \in Activation /\ v.phase = "visit"
    BY <2>2 DEF Activation, VisitOf, Phases
  <2>4. calls' = Append([calls EXCEPT ![Len(calls)] = c], v)
    BY <2>1 DEF ExecuteChild, Invoke
  <2> HIDE DEF c, v
  <2>5. Call' = v
    BY <1>0, <1>3, <2>2, <2>3, <2>4, InvokeStack DEF Call
  <2> QED BY <2>3, <2>5
<1>4. CASE calls' = <<VisitOf(Root[definition])>>
  <2>1. Call'.phase = "visit"
    BY <1>4 DEF Call, Last, VisitOf
  <2> QED BY <2>1
<1> QED BY <1>1, <1>2, <1>3, <1>4, PlainMove DEF CallMove

\* The activations stay in the run's own definition.
LEMMA OwnerStep ==
    ASSUME IInv, IInv', ChainInv, Plain,
           \A i \in 1..Len(calls) : Owner[calls[i].node] = definition
    PROVE  \A i \in 1..Len(calls') : Owner[calls'[i].node] = definition
<1>0. /\ calls \in Seq(Activation) /\ calls' \in Seq(Activation) /\ Len(calls) \in Nat
      /\ definition \in Workflows
  BY DEF IInv, InterpreterOK, RunOK
<1>1. ASSUME calls # <<>>, NEW c \in Activation, c.node = Call.node
      PROVE  /\ Len([calls EXCEPT ![Len(calls)] = c]) = Len(calls)
             /\ [calls EXCEPT ![Len(calls)] = c] \in Seq(Activation)
             /\ \A i \in 1..Len(calls) :
                   Owner[[calls EXCEPT ![Len(calls)] = c][i].node] = definition
  <2> DEFINE r == [calls EXCEPT ![Len(calls)] = c]
  <2>1. /\ r \in Seq(Activation) /\ Len(r) = Len(calls) /\ r[Len(calls)] = c
        /\ \A i \in 1..(Len(calls) - 1) : r[i] = calls[i]
    BY <1>0, <1>1, ReplaceLast
  <2>2. Owner[c.node] = definition
    <3>1. Len(calls) \in 1..Len(calls)
      BY <1>0, <1>1, LastFront
    <3> QED BY <1>1, <3>1 DEF Call, Last
  <2> HIDE DEF r
  <2>3. ASSUME NEW i \in 1..Len(calls) PROVE Owner[r[i].node] = definition
    <3>1. CASE i = Len(calls)
      BY <2>1, <2>2, <3>1
    <3>2. CASE i # Len(calls)
      <4>1. i \in 1..(Len(calls) - 1)
        BY <1>0, <3>2
      <4> QED BY <2>1, <4>1
    <3> QED BY <3>1, <3>2
  <2> QED BY <2>1, <2>3 DEF r
<1>2. CASE UNCHANGED calls
  BY <1>2
<1>3. CASE calls # <<>> /\ \E q \in Phases \ {"child"} : Phase(q)
  <2>1. PICK q \in Phases \ {"child"} : Phase(q)
    BY <1>3
  <2> DEFINE c == [Call EXCEPT !.phase = q]
  <2>2. c \in Activation /\ c.node = Call.node
    BY <1>3, CurrentCall DEF IInv, Activation
  <2>3. calls' = [calls EXCEPT ![Len(calls)] = c]
    BY <2>1 DEF Phase, SetCall
  <2> HIDE DEF c
  <2> QED BY <1>1, <1>3, <2>2, <2>3
<1>4. CASE calls # <<>> /\ Return
  <2>1. /\ Len(calls') = Len(calls) - 1
        /\ \A i \in 1..(Len(calls) - 1) : calls'[i] = calls[i]
    BY <1>0, <1>4, LastFront DEF Return
  <2> QED BY <1>0, <2>1
<1>5. CASE calls # <<>> /\ \E i \in 1..Len(ChildrenOf(Call)) : ExecuteChild(i)
  <2>1. PICK i \in 1..Len(ChildrenOf(Call)) : ExecuteChild(i)
    BY <1>5
  <2> DEFINE c == [Call EXCEPT !.next = i]
             v == VisitOf(ChildrenOf(Call)[i])
             r == [calls EXCEPT ![Len(calls)] = c]
  <2>2. /\ Call \in Activation /\ ChildrenOf(Call) = Children[Call.node]
        /\ ChildrenOf(Call) \in Seq(Nodes)
    BY <1>5, ChildIndex DEF IInv, ChildrenOf
  <2>3. c \in Activation /\ c.node = Call.node
    BY <2>2 DEF Activation
  <2>4. v \in Activation /\ v.node = Children[Call.node][i]
    BY <2>2 DEF Activation, VisitOf, Phases
  <2>5. calls' = Append(r, v)
    BY <2>1 DEF ExecuteChild, Invoke
  <2>6. Owner[v.node] = definition
    <3>1. Owner[Call.node] = definition
      <4>1. Len(calls) \in 1..Len(calls)
        BY <1>0, <1>5, LastFront
      <4> QED BY <4>1 DEF Call, Last
    <3>2. Call.node \in Nodes /\ i \in 1..Len(Children[Call.node])
      BY <2>2 DEF Activation
    <3> HIDE DEF v
    <3>3. \A j \in 1..Len(Children[Call.node]) :
             Owner[Children[Call.node][j]] = Owner[Call.node]
      BY <3>2, GraphAssumption
    <3> QED BY <2>4, <3>1, <3>2, <3>3
  <2> HIDE DEF c, v
  <2>7. /\ r \in Seq(Activation) /\ Len(r) = Len(calls)
        /\ \A k \in 1..Len(calls) : Owner[r[k].node] = definition
    BY <1>1, <1>5, <2>3
  <2> HIDE DEF r
  <2>8. /\ Len(calls') = Len(calls) + 1 /\ calls'[Len(calls) + 1] = v
        /\ \A k \in 1..Len(calls) : calls'[k] = r[k]
    BY <2>4, <2>5, <2>7
  <2>9. ASSUME NEW k \in 1..Len(calls') PROVE Owner[calls'[k].node] = definition
    <3>1. CASE k = Len(calls) + 1
      BY <2>6, <2>8, <3>1
    <3>2. CASE k # Len(calls) + 1
      <4>1. k \in 1..Len(calls)
        BY <1>0, <2>8, <3>2
      <4> QED BY <2>7, <2>8, <4>1
    <3> QED BY <3>1, <3>2
  <2> QED BY <2>9
<1>6. CASE calls' = <<VisitOf(Root[definition])>>
  <2>1. Len(calls') = 1 /\ calls'[1].node = Root[definition]
    BY <1>6 DEF VisitOf
  <2>2. Owner[Root[definition]] = definition
    BY <1>0, GraphAssumption
  <2> QED BY <2>1, <2>2
<1> QED BY <1>2, <1>3, <1>4, <1>5, <1>6, PlainMove DEF CallMove

\* Only FinishNode records a node, and it records one of the top frame's definition.
LEMMA KeysStep ==
    ASSUME IInv, IInv', ChainInv, Plain
    PROVE  \A k \in Top'.done : k \in Top.done \/ k[1] = Top.wf
<1>1. frames # <<>> /\ RunOK /\ Top \in Frame /\ (~FinishNode => Top'.done = Top.done)
  BY PlainStep DEF IInv
<1>2. CASE FinishNode
  <2> DEFINE f == [Top EXCEPT !.done = @ \cup {KeyOf(Call.node)}]
  <2>1. Call.node \in Nodes /\ At("exit")
    BY <1>2, AtWork DEF FinishNode
  <2>2. f \in Frame /\ Grown(Top, f) /\ f.done = Top.done \cup {<<Top.wf, Call.node>>}
    BY <1>1, <2>1 DEF Frame, Grown, KeyOf, Key
  <2>3. SetTop(f)
    BY <1>2 DEF FinishNode
  <2> HIDE DEF f
  <2>4. Top'.done = Top.done \cup {<<Top.wf, Call.node>>}
    BY <1>1, <2>2, <2>3, TopLearns
  <2> QED BY <2>4
<1> QED BY <1>1, <1>2

\* A step keeps a flat run in its one frame.
LEMMA OneFrameStep ==
    ASSUME IInv, IInv', ChainInv, OneFrame, Plain
    PROVE  OneFrame' /\ Len(frames') = 1 /\ Top = frames[1] /\ Top' = frames'[1]
<1>1. /\ frames # <<>> /\ frames' # <<>> /\ definition' = definition
      /\ Learns /\ LowerSame /\ (Checkpoint \/ NoCheckpointTaken)
  BY PlainStep
<1>2. Len(frames) = 1 /\ Len(frames') = 1 /\ Top = frames[1] /\ Top' = frames'[1]
  <2>1. Len(frames) \in Nat \ {0} /\ Len(frames') = Len(frames)
    BY <1>1, TopFrame DEF IInv, LowerSame
  <2>2. Len(frames) = 1
    <3>1. Len(frames) \in 1..Len(frames)
      BY <2>1
    <3> QED BY <3>1 DEF OneFrame, Alone
  <2> QED BY <2>1, <2>2 DEF Top, Last
<1>3. Top.wf = definition /\ \A k \in Top.done : k[1] = definition
  BY <1>2 DEF OneFrame, Alone
<1>4. Top'.wf = definition /\ \A k \in Top'.done : k[1] = definition
  <2>1. Top'.wf = Top.wf
    BY <1>1, TopGrows DEF Grown
  <2> QED BY <1>3, <2>1, KeysStep
<1>5. Alone(frames)'
  BY <1>1, <1>2, <1>4 DEF Alone
<1>6. Alone(saved.frames)'
  <2>1. saved'.frames = frames' \/ saved' = saved
    BY <1>1 DEF Checkpoint, NoCheckpointTaken
  <2> QED BY <1>1, <1>5, <2>1 DEF Alone, OneFrame
<1>7. \A i \in 1..Len(calls') : Owner[calls'[i].node] = definition'
  BY <1>1, OwnerStep DEF OneFrame
<1> QED BY <1>2, <1>5, <1>6, <1>7 DEF OneFrame

\* An announced pause holds: only a resumption and a cancellation end it.
LEMMA PausesStep ==
    ASSUME IInv, IInv', ChainInv, ChainInv', Pauses, Plain
    PROVE  Pauses'
<1>1. /\ frames # <<>> /\ frames' # <<>> /\ Top \in Frame /\ (Checkpoint \/ NoCheckpointTaken)
  BY PlainStep
<1>2. awaiting => Top.status = "waiting_for_approval"
  BY <1>1 DEF Pauses, ApprovalHolds, Live
<1>3. ~(awaiting /\ (HandlerReturns \/ EndReview))
  BY DEF Pauses, HandlerReturns, EndReview, At
<1>4. awaiting' => Top'.status = "waiting_for_approval" /\ (awaiting \/ PauseForApproval)
  BY <1>2, <1>3, PlainStatus DEF StatusMove, Free
<1>5. awaiting' => saved'.frames # <<>> /\ Last(saved'.frames).status = "waiting_for_approval"
  <2>1. CASE Checkpoint
    <3>1. saved'.frames = frames'
      BY <2>1 DEF Checkpoint
    <3> QED BY <1>1, <1>4, <3>1 DEF Top
  <2>2. CASE NoCheckpointTaken /\ ~Checkpoint
    <3>1. ~PauseForApproval
      BY <2>2 DEF PauseForApproval
    <3> QED BY <1>4, <2>2, <3>1 DEF Pauses, NoCheckpointTaken
  <2> QED BY <1>1, <2>1, <2>2
<1>6. ASSUME awaiting', calls' # <<>> PROVE Call'.phase \notin {"handler", "reviewing"}
  <2>1. CASE calls' = calls /\ awaiting
    BY <1>6, <2>1 DEF Pauses, Call
  <2>2. CASE PauseForApproval
    <3>1. Phase("exit") /\ calls # <<>> /\ calls \in Seq(Activation) /\ Call \in Activation
      BY <2>2, CurrentCall DEF PauseForApproval, In, At, IInv, InterpreterOK
    <3> DEFINE c == [Call EXCEPT !.phase = "exit"]
    <3>2. c \in Activation /\ c.node = Call.node /\ c.phase = "exit" /\ Call = Last(calls)
      BY <3>1 DEF Activation, Phases, Call
    <3>3. calls' = [calls EXCEPT ![Len(calls)] = c]
      BY <3>1 DEF Phase, SetCall
    <3> HIDE DEF c
    <3>4. Call' = c
      BY <3>1, <3>2, <3>3, PhaseStack DEF Call
    <3> QED BY <3>2, <3>4
  <2>3. CASE calls' # calls /\ awaiting
    <3>1. ~StartAction
      BY <1>2, <2>3 DEF StartAction
    <3>2. ~BeginReview
      BY <1>1, <1>2, <2>3, TableFacts DEF BeginReview
    <3> QED BY <1>6, <2>3, <3>1, <3>2, PlainArrives
  <2> QED BY <1>4, <1>6, <2>1, <2>2, <2>3
<1>7. ApprovalHolds'
  BY <1>4 DEF ApprovalHolds
<1> QED BY <1>5, <1>6, <1>7 DEF Pauses

\* An announced end is final.
LEMMA EndsStep == ASSUME IInv, IInv', ChainInv, Ends, Plain PROVE Ends'
<1>1. /\ frames # <<>> /\ frames' # <<>> /\ Top \in Frame /\ (Checkpoint \/ NoCheckpointTaken)
  BY PlainStep
<1>2. ended # "none" => Top.status = ended /\ ended \in Terminal
  BY <1>1 DEF Ends, EndIsFinal, Live, IInv, HistoryOK
<1>3. ended # "none" => ~Free /\ ~CanGo("running")
  BY <1>1, <1>2, TableFacts DEF Free
<1>4. ended' # "none" => Top'.status = ended' /\ (ended' = ended \/ Checkpoint)
  <2>1. CASE Cancel
    <3>1. "cancelled" \in Status
      BY Statuses
    <3> QED BY <1>1, <2>1, <3>1, GoesTo DEF Cancel, IInv
  <2>2. CASE ~Cancel
    <3>1. CASE ended' = ended
      <4>1. \/ Top'.status = Top.status \/ Free \/ CanGo("running")
        BY <2>2, PlainStatus DEF StatusMove
      <4> QED BY <1>2, <1>3, <3>1, <4>1
    <3>2. CASE ended' # ended
      <4>1. ended' = "completed" /\ Top'.status = "completed" /\ Checkpoint
        BY <2>2, <3>2, PlainStatus DEF StatusMove
      <4> QED BY <4>1
    <3> QED BY <3>1, <3>2
  <2> QED BY <2>1, <2>2
<1>5. CASE Checkpoint
  <2>1. saved'.frames = frames'
    BY <1>5 DEF Checkpoint
  <2> QED BY <1>1, <1>4, <2>1 DEF Ends, EndIsFinal, Top
<1>6. CASE NoCheckpointTaken /\ ~Checkpoint
  BY <1>4, <1>6 DEF Ends, EndIsFinal, NoCheckpointTaken
<1> QED BY <1>1, <1>5, <1>6

\* What a checkpoint recorded stays recorded in the run and in its checkpoint.
LEMMA CursorsStep ==
    ASSUME IInv, IInv', ChainInv, ChainInv', OneFrame, Cursors, Plain
    PROVE  Cursors'
<1>1. /\ frames # <<>> /\ frames' # <<>> /\ Learns /\ definition' = definition
      /\ (Checkpoint \/ NoCheckpointTaken)
      /\ ~FinishNode => Top'.done = Top.done
  BY PlainStep
<1>2. /\ Alone(frames)' /\ Len(frames') = 1 /\ Top' = frames'[1]
  BY OneFrameStep DEF OneFrame
<1>3. Top.done \subseteq Top'.done /\ Top'.wf = Top.wf
  BY <1>1, TopGrows DEF Grown
<1>4. \A n \in recorded : <<definition, n>> \in Top'.done
  BY <1>1, <1>3 DEF Cursors, Live
<1>5. ASSUME NEW n \in recorded'
      PROVE  /\ <<definition, n>> \in Top'.done
             /\ saved'.frames # <<>> /\ <<definition, n>> \in Last(saved'.frames).done
  <2>1. CASE Checkpoint
    <3>1. saved'.frames = frames' /\ recorded' = recorded \cup NodesIn(frames')
      BY <2>1 DEF Checkpoint
    <3>2. CASE n \in NodesIn(frames')
      <4>1. PICK i \in 1..Len(frames'), w \in Workflows : <<w, n>> \in frames'[i].done
        BY <3>2 DEF NodesIn
      <4>2. frames'[i] = Top' /\ <<w, n>>[1] = definition
        BY <1>1, <1>2, <4>1 DEF Alone
      <4> QED BY <1>1, <3>1, <4>1, <4>2 DEF Top
    <3> QED BY <1>1, <1>4, <1>5, <3>1, <3>2 DEF Top
  <2>2. CASE NoCheckpointTaken
    BY <1>4, <1>5, <2>2 DEF Cursors, NoCheckpointTaken
  <2> QED BY <1>1, <2>1, <2>2
<1>6. ASSUME calls' # <<>>, Call'.phase = "enter", Kind[Call'.node] = "action"
      PROVE  <<Top'.wf, Call'.node>> \notin Top'.done
  <2>1. CASE calls' = calls
    <3>1. Call' = Call /\ calls # <<>>
      BY <1>6, <2>1 DEF Call
    <3>2. ~FinishNode
      BY <1>6, <3>1 DEF FinishNode, At
    <3> QED BY <1>1, <1>3, <1>6, <3>1, <3>2 DEF Cursors, KeyOf
  <2>2. CASE calls' # calls
    <3>1. BeginNode /\ Call'.node = Call.node
      BY <1>6, <2>2, PlainArrives
    <3>2. ~FinishNode /\ KeyOf(Call.node) \notin Top.done
      BY <3>1 DEF BeginNode, FinishNode, At, IsRecorded
    <3> QED BY <1>1, <1>3, <3>1, <3>2 DEF KeyOf
  <2> QED BY <2>1, <2>2
<1> QED BY <1>1, <1>5, <1>6 DEF Cursors, KeyOf

\* A flat run calls no subworkflow, and returns from none.
LEMMA FlatCalls ==
    ASSUME IInv, ChainInv, Flat, OneFrame
    PROVE  /\ ~CallSubworkflow /\ ~ChildReturns
           /\ ~(Propagate /\ Call.phase = "child")
<1>1. ASSUME calls # <<>> PROVE Kind[Call.node] # "subworkflow" /\ Call.phase # "child"
  <2>1. /\ calls \in Seq(Activation) /\ frames \in Seq(Frame) /\ Call = Last(calls)
        /\ Call \in Activation /\ Chain(calls, frames)
    BY <1>1, CurrentCall DEF IInv, RunOK, InterpreterOK, Call, ChainInv
  <2>2. Owner[Call.node] = definition
    <3>1. Len(calls) \in 1..Len(calls)
      BY <1>1, <2>1, LastFront
    <3> QED BY <3>1 DEF OneFrame, Call, Last
  <2>3. Kind[Call.node] # "subworkflow"
    BY <2>1, <2>2 DEF Flat, Activation
  <2>4. Call.phase = "child" => Kind[Call.node] = "subworkflow"
    BY <1>1, <2>1, ChainTop DEF Work
  <2> QED BY <2>3, <2>4
<1> QED BY <1>1 DEF CallSubworkflow, ChildReturns, Propagate, Unwinding, In, At

\* A crash forgets the frame, a restoration starts from the checkpoint.
LEMMA FlatCrash ==
    ASSUME IInv, OneFrame, Pauses, Ends, Cursors, Crash \/ Restore
    PROVE  OneFrame' /\ Pauses' /\ Ends' /\ Cursors'
<1>1. CASE Crash
  <2>1. /\ frames' = <<>> /\ calls' = <<>>
        /\ UNCHANGED <<definition, saved, recorded, awaiting, ended>>
    BY <1>1 DEF Crash, history
  <2>2. OneFrame'
    BY <2>1 DEF OneFrame, Alone
  <2>3. ~Live'
    BY <2>1 DEF Live
  <2> QED BY <2>1, <2>2, <2>3 DEF Pauses, ApprovalHolds, Ends, EndIsFinal, Cursors
<1>2. CASE Restore
  <2>1. /\ frames' = saved.frames /\ frames = <<>> /\ saved.frames # <<>>
        /\ UNCHANGED <<definition, saved, recorded, awaiting, ended, calls>>
    BY <1>2 DEF Restore, Live, interpreter, history
  <2>2. calls = <<>>
    <3>1. Nested(calls, 0) /\ calls \in Seq(Activation)
      BY <2>1, EmptyStacks DEF IInv, InterpreterOK
    <3> QED BY <3>1, NestedNoFrame
  <2>3. OneFrame'
    BY <2>1 DEF OneFrame, Alone
  <2>4. Top' = Last(saved.frames)
    BY <2>1 DEF Top
  <2>5. Pauses' /\ Ends'
    BY <2>1, <2>2, <2>4 DEF Pauses, ApprovalHolds, Ends, EndIsFinal
  <2>6. Cursors'
    BY <2>1, <2>2, <2>4 DEF Cursors
  <2> QED BY <2>3, <2>5, <2>6
<1> QED BY <1>1, <1>2

\* A new run has recorded and announced nothing.
LEMMA FlatInit == Init => FlatInv
<1> SUFFICES ASSUME Init PROVE OneFrame /\ Pauses /\ Ends /\ Cursors
  BY DEF FlatInv
<1>1. /\ frames = <<NewFrame(definition, "pending", {}, {})>> /\ saved = NoCheckpoint
      /\ calls = <<>> /\ recorded = {} /\ awaiting = FALSE /\ ended = "none"
  BY DEF Init
<1>2. /\ Len(frames) = 1 /\ frames[1].wf = definition /\ frames[1].done = {}
      /\ Len(saved.frames) = 0 /\ Len(calls) = 0
  BY <1>1 DEF NewFrame, NoCheckpoint
<1>3. OneFrame
  BY <1>2 DEF OneFrame, Alone
<1>4. Pauses /\ Ends /\ Cursors
  BY <1>1 DEF Pauses, ApprovalHolds, Ends, EndIsFinal, Cursors
<1> QED BY <1>3, <1>4

\* Every step keeps the invariant of a flat run.
LEMMA FlatStep ==
    ASSUME SoundInv, SoundInv', FlatInv, [Next]_vars
    PROVE  FlatInv'
<1>1. CASE UNCHANGED vars
  BY <1>1 DEF vars, run, interpreter, history, FlatInv, Flat, OneFrame, Alone, Pauses,
              ApprovalHolds, Ends, EndIsFinal, Cursors, Live, Top, Call, KeyOf
<1>2. CASE ~UNCHANGED vars
  <2>0. definition' = definition
    <3>1. CASE Plain
      BY <3>1, PlainStep DEF SoundInv
    <3>2. CASE CallSubworkflow \/ ChildReturns \/ (Propagate /\ Call.phase = "child")
      BY <3>2 DEF CallSubworkflow, ChildReturns, Propagate, Quiet, Kept
    <3>3. CASE Crash \/ Restore
      BY <3>3 DEF Crash, Restore
    <3> QED BY <1>2, <3>1, <3>2, <3>3, StepKinds
  <2> SUFFICES ASSUME Flat PROVE OneFrame' /\ Pauses' /\ Ends' /\ Cursors'
    BY <2>0 DEF FlatInv, Flat
  <2>1. OneFrame /\ Pauses /\ Ends /\ Cursors
    BY DEF FlatInv
  <2>2. Plain \/ Crash \/ Restore
    BY <1>2, <2>1, StepKinds, FlatCalls DEF SoundInv
  <2>3. CASE Plain
    BY <2>1, <2>3, OneFrameStep, PausesStep, EndsStep, CursorsStep DEF SoundInv
  <2>4. CASE Crash \/ Restore
    BY <2>1, <2>4, FlatCrash DEF SoundInv
  <2> QED BY <2>2, <2>3, <2>4
<1> QED BY <1>1, <1>2

\* The invariant of a flat run.
LEMMA FlatInvariant == Spec => [](SoundInv /\ FlatInv)
<1>1. SoundInv /\ SoundInv' /\ FlatInv /\ [Next]_vars => FlatInv'
  BY FlatStep
<1> QED BY <1>1, FlatInit, SoundInvariant, PTL DEF Spec

\* In a run that calls no subworkflow an announced approval, completion or
\* cancellation holds, in memory and in the store, for every graph.
THEOREM FlatStatusIsKept == Spec => []FlatStatusHolds
<1>1. FlatInv => FlatStatusHolds
  BY DEF FlatInv, Pauses, Ends, FlatStatusHolds
<1> QED BY <1>1, FlatInvariant, PTL

\* The handler of a node that a checkpoint recorded does not start.
LEMMA NotStarted ==
    ASSUME SoundInv, SoundInv', FlatInv, FlatInv', [Next]_vars, Flat
    PROVE  ~StartsRecorded
<1> SUFFICES ASSUME StartsRecorded PROVE FALSE
  OBVIOUS
<1>1. /\ IInv /\ IInv' /\ ChainInv /\ ChainInv' /\ OneFrame /\ Cursors
      /\ calls \in Seq(Activation)
  BY DEF SoundInv, FlatInv, IInv, InterpreterOK
<1>2. /\ calls # <<>> /\ Len(calls') = Len(calls) /\ Call.phase = "enter"
      /\ Call'.phase = "handler" /\ Call.node \in recorded
  BY DEF StartsRecorded, Call
<1>3. Len(calls) # 0 /\ calls' # calls /\ calls' # <<>>
  <2>1. Len(calls) \in Nat \ {0}
    BY <1>1, <1>2, LastFront
  <2>2. calls' # calls
    BY <1>2 DEF Call
  <2>3. calls' # <<>>
    BY <1>2, <2>1, EmptyStacks
  <2> QED BY <2>1, <2>2, <2>3
<1>4. Plain
  <2>1. ~Crash /\ ~Restore /\ ~UNCHANGED vars
    BY <1>3 DEF Crash, Restore, interpreter, vars
  <2> QED BY <1>1, <2>1, StepKinds, FlatCalls
<1>5. StartAction
  BY <1>1, <1>2, <1>3, <1>4, PlainArrives
<1>6. Kind[Call.node] = "action"
  BY <1>5 DEF StartAction, In
<1>7. KeyOf(Call.node) \notin Top.done
  BY <1>1, <1>2, <1>6 DEF Cursors
<1>8. Live /\ Top.wf = definition
  BY <1>1, <1>4, PlainStep, OneFrameStep DEF Live, OneFrame, Alone
<1> QED BY <1>1, <1>2, <1>7, <1>8 DEF Cursors, KeyOf

\* A node that a checkpoint recorded as completed is not executed again, whatever
\* is retried, resumed, crashed and restored, in every graph that calls no
\* subworkflow.
THEOREM RecordedNotExecuted == Spec => FlatNotExecutedAgain
<1>1. SoundInv /\ SoundInv' /\ FlatInv /\ FlatInv' /\ [Next]_vars
        => [Flat => ~StartsRecorded]_vars
  BY NotStarted
<1> QED BY <1>1, FlatInvariant, PTL DEF Spec, FlatNotExecutedAgain

=============================================================================
