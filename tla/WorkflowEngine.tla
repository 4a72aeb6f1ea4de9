--------------------------- MODULE WorkflowEngine ---------------------------
(***************************************************************************)
(* The recoverable workflow engine of aipg (aipg/engine.py, recovery.py,   *)
(* runtime.py, checkpoints.py): one run of a workflow graph, interpreted   *)
(* node by node.                                                           *)
(*                                                                         *)
(* The engine is a recursive interpreter, so its state has two stacks: the *)
(* workflow frames (run.stack, checkpointed) and the Python activations of *)
(* _execute_node (calls, lost by a crash).  A step ends wherever the       *)
(* engine publishes an event or calls a handler: those are the points      *)
(* where other code runs and may call back into the engine.                *)
(***************************************************************************)
EXTENDS Naturals, SequencesExt

CONSTANTS
    Workflows,   \* registered workflow definitions
    Mains,       \* the definitions a run may be created for
    Nodes,       \* node ids, unique over all definitions
    Owner,       \* [Nodes -> Workflows]: the definition a node belongs to
    Root,        \* [Workflows -> Nodes]: definition.root
    Kind,        \* [Nodes -> NodeKind]
    Children,    \* [Nodes -> Seq(Nodes)]: node.children
    Sub,         \* [Nodes -> Workflows]: node.workflow_id of a subworkflow node
    Registered,  \* action nodes whose action_id has a handler
    Names,       \* names of output values
    Result,      \* [Nodes -> SUBSET Names]: what an action's handler returns
    Outputs,     \* [Workflows -> SUBSET Names]: definition.outputs
    MaxDepth,    \* definition.max_depth
    MaxRetries,  \* definition.max_retries
    MaxCrashes,  \* bound of the model: process crashes
    HostCalls,   \* calls the program makes while execute() is not running
    Reentrant    \* calls that handlers and event subscribers make while it is

NodeKind == {"sequence", "selector", "parallel", "condition",
             "subworkflow", "action", "approval", "review"}

Calls == {"pause", "resume", "retry", "cancel", "complete", "fail", "capability"}

\* definition.validate() and validate_workflow_references() accept the graph.
ASSUME GraphAssumption ==
    /\ Mains \subseteq Workflows
    /\ Root \in [Workflows -> Nodes]
    /\ Kind \in [Nodes -> NodeKind]
    /\ Children \in [Nodes -> Seq(Nodes)]
    /\ Owner \in [Nodes -> Workflows]
    /\ \A w \in Workflows : Owner[Root[w]] = w
    /\ \A n \in Nodes : \A i \in 1..Len(Children[n]) : Owner[Children[n][i]] = Owner[n]
    /\ Sub \in [Nodes -> Workflows]
    /\ Registered \subseteq Nodes
    /\ Result \in [Nodes -> SUBSET Names]
    /\ Outputs \in [Workflows -> SUBSET Names]

ASSUME BoundAssumption ==
    /\ MaxDepth \in Nat \ {0}
    /\ MaxRetries \in Nat
    /\ MaxCrashes \in Nat
    /\ HostCalls \subseteq Calls
    /\ Reentrant \subseteq Calls \ {"capability"}

VARIABLES
    definition,  \* run.definition
    frames,      \* run.stack.frames, <<>> while no process holds the run
    outputs,     \* run.outputs
    error,       \* run.error is set
    executing,   \* execute() is on the Python stack
    calls,       \* activations of _execute_node, innermost last
    raising,     \* an exception is propagating
    saved,       \* the latest checkpoint; its frames are <<>> before the first
    crashes,     \* process crashes so far
    recorded,    \* history: nodes some checkpoint recorded as completed
    awaiting,    \* history: an approval node paused the run, nobody resumed it
    ended        \* history: the terminal status the run announced, or "none"

run == <<definition, frames, outputs, error>>
interpreter == <<executing, calls, raising>>
history == <<recorded, awaiting, ended>>
vars == <<run, interpreter, saved, crashes, history>>

-----------------------------------------------------------------------------
(* The lifecycle table and the two stacks *)

Allowed ==
    [ pending              |-> {"running", "cancelled"},
      running              |-> {"waiting_for_child", "waiting_for_tool",
                                "waiting_for_approval", "reviewing",
                                "completed", "failed", "cancelled"},
      waiting_for_child    |-> {"running", "failed", "cancelled"},
      waiting_for_tool     |-> {"running", "failed", "cancelled"},
      waiting_for_approval |-> {"running", "cancelled"},
      reviewing            |-> {"running", "revising", "completed", "failed"},
      revising             |-> {"running", "failed", "cancelled"},
      failed               |-> {"running", "cancelled"},
      completed            |-> {},
      cancelled            |-> {} ]

Status == DOMAIN Allowed
Terminal == {"completed", "cancelled"}

Key == Workflows \X Nodes

\* WorkflowFrame: done is local_context["_completed_node_ids"], vals the names
\* of the other values in local_context.
Frame == [wf : Workflows, at : Nodes, status : Status, done : SUBSET Key,
          vals : SUBSET Names, retries : 0..MaxRetries]

NewFrame(w, status, done, vals) ==
    [wf |-> w, at |-> Root[w], status |-> status, done |-> done,
     vals |-> vals, retries |-> 0]

\* run.frame and run.status
Live == frames # <<>>
Top == Last(frames)
SetTop(f) == frames' = [frames EXCEPT ![Len(frames)] = f]
KeyOf(n) == <<Top.wf, n>>

\* _transition raises unless the table lists the target.
CanGo(target) == target \in Allowed[Top.status]
GoTo(target) == SetTop([Top EXCEPT !.status = target])

\* WorkflowStack.push
CanPush == Len(frames) < MaxDepth

\* An activation of _execute_node: which child it executes next is its loop
\* variable, and phase is the event or call it has reached.
Phases == {"visit", "enter", "children", "handler", "reviewing", "child", "exit"}
Activation == [node : Nodes, phase : Phases, next : Nat]
VisitOf(n) == [node |-> n, phase |-> "visit", next |-> 0]

Call == Last(calls)
ChildrenOf(c) == Children[c.node]
SetCall(c) == calls' = [calls EXCEPT ![Len(calls)] = c]
Phase(p) == SetCall([Call EXCEPT !.phase = p])
Return == calls' = Front(calls)
Invoke(c, n) == calls' = Append([calls EXCEPT ![Len(calls)] = c], VisitOf(n))
ExecuteChild(i) == Invoke([Call EXCEPT !.next = i], ChildrenOf(Call)[i])

\* The interpreter is about to run the next statement of an activation.
At(phase) == executing /\ ~raising /\ calls # <<>> /\ Call.phase = phase
In(phase, kinds) == At(phase) /\ Kind[Call.node] \in kinds

\* A statement of the activation raises.
Raise == raising' = TRUE /\ UNCHANGED <<executing, calls>>

-----------------------------------------------------------------------------
(* Checkpoints *)

NoCheckpoint == [frames |-> <<>>, outputs |-> {}, error |-> FALSE]

NodesIn(fs) == {n \in Nodes : \E i \in 1..Len(fs), w \in Workflows :
                                 <<w, n>> \in fs[i].done}

\* RecoverableWorkflowEngine._checkpoint, of the run as the step leaves it.
Checkpoint ==
    /\ saved' = [frames |-> frames', outputs |-> outputs', error |-> error']
    /\ recorded' = recorded \cup NodesIn(frames')

NoCheckpointTaken == UNCHANGED <<saved, recorded>>

-----------------------------------------------------------------------------
(* The interpreter: execute(), _execute_node() and what it calls *)

Kept == UNCHANGED <<definition, crashes>>
Quiet == Kept /\ UNCHANGED <<outputs, error, executing, raising, awaiting, ended>>

\* mutant: the status is assigned without asking the table
FailRun_Unguarded ==
    /\ error' = TRUE
    /\ UNCHANGED outputs
    /\ GoTo("failed") /\ Checkpoint

\* fail(): the error is set before the transition is tried, and the transition
\* may raise (from waiting_for_approval, for one).
FailRun ==
    /\ error' = TRUE
    /\ UNCHANGED outputs
    /\ IF CanGo("failed") THEN GoTo("failed") /\ Checkpoint
                          ELSE UNCHANGED frames /\ NoCheckpointTaken

Execute ==
    /\ Live /\ ~executing
    /\ Top.status \in {"pending", "running"}
    /\ GoTo("running")
    /\ executing' = TRUE
    /\ calls' = <<VisitOf(Root[definition])>>
    /\ Kept /\ NoCheckpointTaken
    /\ UNCHANGED <<outputs, error, raising, awaiting, ended>>

\* mutant: no cursor is consulted, as in the engine recovery.py extends
IsRecorded_Never(n) == FALSE

\* The cursor is looked up in the frame on top of the stack.
IsRecorded(n) == KeyOf(n) \in Top.done

SkipNode ==
    /\ At("visit") /\ IsRecorded(Call.node)
    /\ Return
    /\ Quiet /\ NoCheckpointTaken /\ UNCHANGED frames

BeginNode ==
    /\ At("visit") /\ ~IsRecorded(Call.node)
    /\ SetTop([Top EXCEPT !.at = Call.node])
    /\ Phase("enter")
    /\ Quiet /\ NoCheckpointTaken

FinishNode ==
    /\ At("exit")
    /\ SetTop([Top EXCEPT !.done = @ \cup {KeyOf(Call.node)}])
    /\ Return
    /\ Quiet
    /\ Checkpoint

\* Sequence and parallel nodes, and the children of a review, one after another.
Looping == In("enter", {"sequence", "parallel"}) \/ In("children", {"review"})

NextChild ==
    /\ Looping /\ Call.next < Len(ChildrenOf(Call))
    /\ ExecuteChild(Call.next + 1)
    /\ Quiet /\ NoCheckpointTaken /\ UNCHANGED frames

LastChildReturned ==
    /\ Looping /\ Call.next = Len(ChildrenOf(Call))
    /\ Phase("exit")
    /\ Quiet /\ NoCheckpointTaken /\ UNCHANGED frames

\* A selector stops at the first child that returns (TryAnother is the handler
\* of a child that raises).
TryFirst ==
    /\ In("enter", {"selector"}) /\ Call.next = 0 /\ ChildrenOf(Call) # <<>>
    /\ ExecuteChild(1)
    /\ Quiet /\ NoCheckpointTaken /\ UNCHANGED frames

ChildSelected ==
    /\ In("enter", {"selector"})
    /\ Call.next > 0 \/ ChildrenOf(Call) = <<>>
    /\ Phase("exit")
    /\ Quiet /\ NoCheckpointTaken /\ UNCHANGED frames

\* A condition handler answers; the branch it names may not exist.
TakeBranch ==
    /\ In("enter", {"condition"}) /\ Call.next = 0
    /\ \E branch \in {1, 2} :
          IF branch <= Len(ChildrenOf(Call)) THEN ExecuteChild(branch) ELSE Phase("exit")
    /\ Quiet /\ NoCheckpointTaken /\ UNCHANGED frames

BranchReturned ==
    /\ In("enter", {"condition"}) /\ Call.next > 0
    /\ Phase("exit")
    /\ Quiet /\ NoCheckpointTaken /\ UNCHANGED frames

\* execute_action up to the call of the handler.
StartAction ==
    /\ In("enter", {"action"})
    /\ Top.status = "running" /\ Call.node \in Registered
    /\ GoTo("waiting_for_tool")
    /\ Phase("handler")
    /\ Quiet /\ NoCheckpointTaken

\* mutant: no checkpoint after the action
HandlerReturns_NotSaved ==
    /\ At("handler") /\ CanGo("running")
    /\ SetTop([Top EXCEPT !.status = "running", !.vals = @ \cup Result[Call.node]])
    /\ Phase("exit")
    /\ Quiet /\ NoCheckpointTaken

HandlerReturns ==
    /\ At("handler") /\ CanGo("running")
    /\ SetTop([Top EXCEPT !.status = "running", !.vals = @ \cup Result[Call.node]])
    /\ Phase("exit")
    /\ Quiet
    /\ Checkpoint

HandlerRaises ==
    /\ At("handler")
    /\ FailRun
    /\ Raise
    /\ Kept /\ UNCHANGED <<awaiting, ended>>

\* _execute_subworkflow
CallSubworkflow ==
    /\ In("enter", {"subworkflow"})
    /\ CanGo("waiting_for_child") /\ CanPush
    /\ frames' = Append([frames EXCEPT ![Len(frames)].status = "waiting_for_child"],
                        NewFrame(Sub[Call.node], "running", Top.done, Top.vals))
    /\ Invoke([Call EXCEPT !.phase = "child"], Root[Sub[Call.node]])
    /\ Quiet /\ NoCheckpointTaken

TooDeep ==
    /\ In("enter", {"subworkflow"})
    /\ CanGo("waiting_for_child") /\ ~CanPush
    /\ GoTo("waiting_for_child")
    /\ Raise
    /\ Kept /\ NoCheckpointTaken /\ UNCHANGED <<outputs, error, awaiting, ended>>

\* The child's context is merged and the parent's status assigned, past the table.
ChildReturns ==
    /\ At("child")
    /\ LET parent == Last(Front(frames)) IN
       frames' = Append(Front(Front(frames)),
                        [parent EXCEPT !.status = "running",
                                       !.done = Top.done,
                                       !.vals = @ \cup Top.vals])
    /\ Phase("exit")
    /\ Quiet
    /\ Checkpoint

PauseForApproval ==
    /\ In("enter", {"approval"}) /\ CanGo("waiting_for_approval")
    /\ GoTo("waiting_for_approval")
    /\ Phase("exit")
    /\ awaiting' = TRUE
    /\ Kept /\ UNCHANGED <<outputs, error, executing, raising, ended>>
    /\ Checkpoint

BeginReview ==
    /\ In("enter", {"review"}) /\ CanGo("reviewing")
    /\ GoTo("reviewing")
    /\ Phase("reviewing")
    /\ Quiet /\ NoCheckpointTaken

EndReview ==
    /\ At("reviewing") /\ CanGo("running")
    /\ GoTo("running")
    /\ Phase("children")
    /\ Quiet /\ NoCheckpointTaken

\* The statements that raise and change nothing: a condition handler, a refused
\* transition, an action of a run that is not running or that nobody registered.
StatementRaises ==
    /\ \/ In("enter", {"condition"}) /\ Call.next = 0
       \/ In("enter", {"action"}) /\ (Top.status # "running" \/ Call.node \notin Registered)
       \/ At("handler") /\ ~CanGo("running")
       \/ In("enter", {"subworkflow"}) /\ ~CanGo("waiting_for_child")
       \/ In("enter", {"approval"}) /\ ~CanGo("waiting_for_approval")
       \/ In("enter", {"review"}) /\ ~CanGo("reviewing")
       \/ At("reviewing") /\ ~CanGo("running")
    /\ Raise
    /\ Kept /\ NoCheckpointTaken /\ UNCHANGED <<frames, outputs, error, awaiting, ended>>

\* An exception propagates: a selector catches it while it has another child, a
\* subworkflow call pops its frame on the way out.
Unwinding == executing /\ raising /\ calls # <<>>
Catches(c) == Kind[c.node] = "selector" /\ c.next < Len(ChildrenOf(c))

\* mutant: the loop over the children does not advance
TryAnother_SameChild ==
    /\ Unwinding /\ Catches(Call)
    /\ ExecuteChild(Call.next)
    /\ raising' = FALSE
    /\ Kept /\ NoCheckpointTaken
    /\ UNCHANGED <<frames, outputs, error, executing, awaiting, ended>>

TryAnother ==
    /\ Unwinding /\ Catches(Call)
    /\ ExecuteChild(Call.next + 1)
    /\ raising' = FALSE
    /\ Kept /\ NoCheckpointTaken
    /\ UNCHANGED <<frames, outputs, error, executing, awaiting, ended>>

Propagate ==
    /\ Unwinding /\ ~Catches(Call)
    /\ frames' = IF Call.phase = "child" THEN Front(frames) ELSE frames
    /\ Return
    /\ Quiet /\ NoCheckpointTaken

\* The end of execute().
Returned == executing /\ ~raising /\ calls = <<>>

\* mutant: outputs that are missing are not noticed
ExecuteCompletes_Partial ==
    /\ Returned /\ Top.status = "running"
    /\ outputs' = Outputs[definition] \cap Top.vals
    /\ GoTo("completed")
    /\ executing' = FALSE /\ ended' = "completed"
    /\ Kept /\ UNCHANGED <<error, calls, raising, awaiting>>
    /\ Checkpoint

ExecuteCompletes ==
    /\ Returned /\ Top.status = "running"
    /\ Outputs[definition] \subseteq Top.vals
    /\ outputs' = Outputs[definition]
    /\ GoTo("completed")
    /\ executing' = FALSE /\ ended' = "completed"
    /\ Kept /\ UNCHANGED <<error, calls, raising, awaiting>>
    /\ Checkpoint

\* A run that is waiting or cancelled by now is returned as it is; one that
\* misses an output raises and stays running.
ExecuteStops ==
    /\ Returned
    /\ Top.status # "running" \/ ~(Outputs[definition] \subseteq Top.vals)
    /\ executing' = FALSE
    /\ Kept /\ NoCheckpointTaken
    /\ UNCHANGED <<frames, outputs, error, calls, raising, awaiting, ended>>

ExecuteRaises ==
    /\ executing /\ raising /\ calls = <<>>
    /\ IF Top.status \in {"failed", "cancelled"}
         THEN UNCHANGED <<frames, outputs, error>> /\ NoCheckpointTaken
         ELSE FailRun
    /\ executing' = FALSE /\ raising' = FALSE
    /\ Kept /\ UNCHANGED <<calls, awaiting, ended>>

Interpret ==
    \/ SkipNode \/ BeginNode \/ FinishNode
    \/ NextChild \/ LastChildReturned \/ TryFirst \/ ChildSelected
    \/ TakeBranch \/ BranchReturned
    \/ StartAction \/ HandlerReturns \/ HandlerRaises
    \/ CallSubworkflow \/ TooDeep \/ ChildReturns
    \/ PauseForApproval \/ BeginReview \/ EndReview
    \/ StatementRaises \/ TryAnother \/ Propagate
    \/ ExecuteCompletes \/ ExecuteStops \/ ExecuteRaises

-----------------------------------------------------------------------------
(* Calls of the embedding program, an event subscriber or a handler.  All of *)
(* them act on the frame on top of the stack.                                *)

Host(call) ==
    /\ Live
    /\ call \in IF executing THEN Reentrant ELSE HostCalls
    /\ UNCHANGED <<interpreter, definition, crashes>>

\* start() and resume() are this transition; neither takes a checkpoint.
Resume ==
    /\ Host("resume") /\ CanGo("running")
    /\ GoTo("running")
    /\ awaiting' = FALSE
    /\ NoCheckpointTaken /\ UNCHANGED <<outputs, error, ended>>

Pause ==
    /\ Host("pause") /\ CanGo("waiting_for_approval")
    /\ GoTo("waiting_for_approval")
    /\ UNCHANGED <<outputs, error, awaiting, ended>>
    /\ Checkpoint

Cancel ==
    /\ Host("cancel") /\ CanGo("cancelled")
    /\ GoTo("cancelled")
    /\ error' = TRUE
    /\ awaiting' = FALSE /\ ended' = "cancelled"
    /\ UNCHANGED outputs
    /\ Checkpoint

\* mutant: the limit is checked with <=
CanRetry_OneMore == Top.status = "failed" /\ Top.retries <= MaxRetries

CanRetry == Top.status = "failed" /\ Top.retries < MaxRetries

Retry ==
    /\ Host("retry") /\ CanRetry
    /\ SetTop([Top EXCEPT !.status = "running", !.retries = @ + 1])
    /\ error' = FALSE
    /\ NoCheckpointTaken /\ UNCHANGED <<outputs, awaiting, ended>>

\* complete() with every output supplied; the outputs are assigned before the
\* transition is tried.
Complete ==
    /\ Host("complete")
    /\ outputs' = Outputs[definition]
    /\ UNCHANGED <<error, awaiting>>
    /\ IF CanGo("completed")
         THEN GoTo("completed") /\ Checkpoint /\ ended' = "completed"
         ELSE UNCHANGED <<frames, ended>> /\ NoCheckpointTaken

Fail ==
    /\ Host("fail")
    /\ FailRun
    /\ UNCHANGED <<awaiting, ended>>

\* execute_capability outside a graph: the tool answers with some values.
Capability ==
    /\ Host("capability") /\ Top.status = "running"
    /\ \/ /\ \E vals \in SUBSET Names : SetTop([Top EXCEPT !.vals = @ \cup vals])
          /\ UNCHANGED error
       \/ GoTo("failed") /\ error' = TRUE
    /\ UNCHANGED <<outputs, awaiting, ended>>
    /\ Checkpoint

HostCall == Resume \/ Pause \/ Cancel \/ Retry \/ Complete \/ Fail \/ Capability

-----------------------------------------------------------------------------
(* The process dies; another engine restores the run from the store *)

Crash ==
    /\ Live /\ crashes < MaxCrashes
    /\ crashes' = crashes + 1
    /\ frames' = <<>> /\ outputs' = {} /\ error' = FALSE
    /\ executing' = FALSE /\ calls' = <<>> /\ raising' = FALSE
    /\ UNCHANGED <<definition, saved, history>>

\* restore_run: every frame comes back, no activation does.
Restore ==
    /\ ~Live /\ saved.frames # <<>>
    /\ frames' = saved.frames /\ outputs' = saved.outputs /\ error' = saved.error
    /\ UNCHANGED <<definition, interpreter, saved, crashes, history>>

\* create_run
Init ==
    /\ definition \in Mains
    /\ frames = <<NewFrame(definition, "pending", {}, {})>>
    /\ outputs = {} /\ error = FALSE
    /\ executing = FALSE /\ calls = <<>> /\ raising = FALSE
    /\ saved = NoCheckpoint
    /\ crashes = 0
    /\ recorded = {} /\ awaiting = FALSE /\ ended = "none"

Next == Execute \/ Interpret \/ HostCall \/ Crash \/ Restore

\* The interpreter is synchronous code that runs on once it is called, and its
\* handlers return or raise; nobody has to call it, and nobody has to crash.
Spec == Init /\ [][Next]_vars /\ WF_vars(Interpret)

-----------------------------------------------------------------------------
(* Properties *)

\* The fields of the run and of its checkpoint have their types; no frame was
\* retried more often than definition.max_retries.
TypeOK ==
    /\ definition \in Workflows
    /\ frames \in Seq(Frame)
    /\ outputs \in SUBSET Names /\ error \in BOOLEAN
    /\ executing \in BOOLEAN /\ raising \in BOOLEAN
    /\ calls \in Seq(Activation)
    /\ saved \in [frames : Seq(Frame), outputs : SUBSET Names, error : BOOLEAN]
    /\ crashes \in 0..MaxCrashes
    /\ recorded \in SUBSET Nodes /\ awaiting \in BOOLEAN
    /\ ended \in Terminal \cup {"none"}

\* A workflow that calls itself, or a child restored and called again, cannot
\* grow the stack past definition.max_depth, in memory or in the store.
DepthBounded == Len(frames) <= MaxDepth /\ Len(saved.frames) <= MaxDepth

\* A cursor says that the node's work is done: a recorded composite node has its
\* children recorded with it, a recorded action has its result in the context,
\* a recorded subworkflow node has the child's root.  (A retry or a restoration
\* trusts the outer cursor and never looks inside.)
Justified(f, w, n) ==
    CASE Kind[n] \in {"sequence", "parallel", "review"} ->
           \A i \in 1..Len(Children[n]) : <<w, Children[n][i]>> \in f.done
      [] Kind[n] = "selector" ->
           Children[n] = <<>> \/ \E i \in 1..Len(Children[n]) : <<w, Children[n][i]>> \in f.done
      [] Kind[n] = "action" -> Result[n] \subseteq f.vals
      [] Kind[n] = "subworkflow" -> <<Sub[n], Root[Sub[n]]>> \in f.done
      [] OTHER -> TRUE

CursorsClosed ==
    \A fs \in {frames, saved.frames} : \A i \in 1..Len(fs) :
        \A k \in fs[i].done : Justified(fs[i], k[1], k[2])

\* Nothing the run has recorded or produced is lost by a crash now: what a
\* frame in memory knows, the frame a restoration would continue in knows too.
ProgressIsSaved ==
    \A i \in 1..Len(frames) :
        frames[i].done # {} \/ frames[i].vals # {} =>
            /\ saved.frames # <<>>
            /\ frames[i].done \subseteq Last(saved.frames).done
            /\ frames[i].vals \subseteq Last(saved.frames).vals

\* A restoration neither repeats work nor skips it: the checkpoint it starts from
\* is never behind the run, and no cursor in either is ahead of the work.
CheckpointsAreSound == ProgressIsSaved /\ CursorsClosed

\* The definition of the run calls no subworkflow.
Flat == \A n \in Nodes : Owner[n] = definition => Kind[n] # "subworkflow"

\* The handler of a node starts only if no checkpoint has recorded the node as
\* completed ("A node recorded as completed is not executed again after
\* restoration"), whatever was retried, resumed, crashed and restored between.
StartsRecorded ==
    /\ Len(calls') = Len(calls) /\ calls # <<>>
    /\ Call.phase = "enter" /\ Last(calls').phase = "handler"
    /\ Call.node \in recorded
NotExecutedAgain == [][~StartsRecorded]_vars
FlatNotExecutedAgain == [][Flat => ~StartsRecorded]_vars

\* A run that an approval node paused stays paused until somebody resumes or
\* cancels it, through crashes and restorations ("pauses in Waiting Approval
\* without auto-completing the run").
ApprovalHolds == awaiting /\ Live => Top.status = "waiting_for_approval"

\* A run that was announced as completed or cancelled keeps that status, also in
\* its checkpoint ("Terminal states cannot be resumed or completed again").
EndIsFinal ==
    ended # "none" => /\ Live => Top.status = ended
                      /\ Last(saved.frames).status = ended

\* In a run that calls no subworkflow, a status that was announced (waiting for
\* approval, completed, cancelled) holds against handlers and subscribers that
\* pause, fail, cancel or complete the run in the middle of a step, and through
\* crashes and restorations.
FlatStatusHolds == Flat => ApprovalHolds /\ EndIsFinal

\* execute() completes a run only when the root of its graph was executed to its
\* end and every declared output was produced, however often the run was paused,
\* retried and restored before.
CompletesOnlyFinished ==
    [][ executing /\ Live' /\ Last(frames').status = "completed" /\ ~executing'
          => /\ \/ Top.status = "completed"
                \/ KeyOf(Root[definition]) \in Last(frames').done
             /\ Outputs[definition] \subseteq outputs' ]_vars

\* Every call of execute() ends, for recursive workflows too.
ExecuteReturns == executing ~> ~executing

=============================================================================
