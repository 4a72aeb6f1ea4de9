-------------------------- MODULE OperationLedger --------------------------
(***************************************************************************)
(* The operation ledger (guif/operation_ledger.py) and the way the runtime *)
(* wraps an authenticated operation in it (_ledgered, runtime/gateway.py). *)
(*                                                                         *)
(* The ledger is three files: entries.jsonl, head.json and                 *)
(* signing-key.json.  Threads of one process share an OperationLedger and  *)
(* its RLock; other processes on the workspace (the gateway and the CLI,   *)
(* say) have their own.  A step of a thread is one file access, and a      *)
(* process may die between any two.                                        *)
(***************************************************************************)
EXTENDS Naturals, Sequences, FiniteSets

CONSTANTS
    Processes,   \* one OperationLedger each
    Threads,
    Placements,  \* the ways the threads may be spread over the processes
    Events,      \* operation_ids a caller chose itself (uuid4 ones are <<thread, n>>)
    Quota,       \* [Threads -> Nat], bound of the model: calls of a thread
    MaxCrashes,  \* bound of the model: process crashes
    None

ASSUME LedgerAssumption ==
    /\ Placements \subseteq [Threads -> Processes]
    /\ Quota \in [Threads -> Nat] /\ MaxCrashes \in Nat
    /\ None \notin Processes \cup Threads

VARIABLES
    entries,   \* the lines of entries.jsonl
    head,      \* head.json, NoHead before the first append
    key,       \* the process that made signing-key.json, None before
    place,     \* [Threads -> Processes], chosen once
    lock,      \* [Processes -> the thread that holds the RLock, or None]
    thread,    \* [Threads -> where the thread is in append() and _ledgered()]
    crashes,   \* process crashes so far
    effects,   \* history: the operations whose action took effect
    unreported,\* history: the ones whose result could not be summarized
    writers,   \* history: the processes that ever entered append()
    sealed     \* history: the files did not verify while nobody was appending

files == <<entries, head, key>>
vars == <<files, place, lock, thread, crashes, effects, unreported, writers, sealed>>

-----------------------------------------------------------------------------
(* Entries, head and verify() *)

Operations == UNION {{t} \X (1..Quota[t]) : t \in Threads}
Stages == {"started", "failed", "completed"}
OperationIds == (Operations \X Stages) \cup (Events \X {"event"})

\* The hash covers the whole payload, which names the time and the operation,
\* so an entry's hash stands for its writer and its operation_id; a signature
\* for the hash and the key.
Hashes == (Threads \X OperationIds) \cup {None}
Entry == [sequence : Nat, id : OperationIds, previous : Hashes,
          hash : Hashes, key : Processes]
NoHead == [sequence |-> 0, hash |-> None, key |-> None]
HeadRecord == [sequence : Nat, hash : Hashes, key : Processes \cup {None}]

Genesis == None

Chained(es) ==
    \A i \in 1..Len(es) :
        /\ es[i].sequence = i
        /\ es[i].previous = IF i = 1 THEN Genesis ELSE es[i - 1].hash

Signed(es, k) == \A i \in 1..Len(es) : es[i].key = k

HeadMatches(es, h) ==
    /\ h.sequence = Len(es)
    /\ h.hash = es[Len(es)].hash
    /\ h.key = es[Len(es)].key

\* verify() finds no error in what it read: status "empty" or "verified".
Valid(es, h, k) ==
    IF es = <<>> THEN h.sequence = 0
                 ELSE Chained(es) /\ Signed(es, k) /\ HeadMatches(es, h)

Damaged == ~Valid(entries, head, key)

-----------------------------------------------------------------------------
(* Threads *)

\* Waiting for the RLock, running the action, or in append() with the lock held;
\* an appending thread's phase names the file access that comes next.
Appending == {"verify", "key", "make_key", "read", "head", "line", "point"}
Phases == {"idle", "lock", "act"} \cup Appending

\* What a thread knows: op counts its operations, id is the operation_id it
\* appends, view the entries verify() read, mine the key it loaded, next its entry.
NoEntry == [sequence |-> 0, id |-> None, previous |-> None, hash |-> None, key |-> None]
Idle(n) == [phase |-> "idle", op |-> n, id |-> None, view |-> <<>>, mine |-> None,
            next |-> NoEntry]

Current(t) == <<t, thread[t].op>>
At(t, phase) == thread[t].phase = phase
Set(t, r) == thread' = [thread EXCEPT ![t] = r]
Free(t) == lock' = [lock EXCEPT ![place[t]] = None]

\* append() returns: _ledgered goes on to the action after "started".
Recorded == {entries[i].id : i \in 1..Len(entries)}
AfterAppend(t) ==
    IF thread[t].id = <<Current(t), "started">>
      THEN [thread[t] EXCEPT !.phase = "act", !.mine = None, !.next = NoEntry]
      ELSE Idle(thread[t].op)

Resting == \A t \in Threads : thread[t].phase \notin Appending
Seal == sealed' = (sealed \/ (Damaged' /\ Resting'))
Quiet == UNCHANGED <<place, crashes, effects, unreported, writers>> /\ Seal

-----------------------------------------------------------------------------
(* _ledgered *)

\* mutant: the action runs before "started" is appended
Begin_ActsFirst(t) ==
    /\ At(t, "idle") /\ thread[t].op < Quota[t]
    /\ lock[place[t]] = None
    /\ Set(t, [Idle(thread[t].op + 1) EXCEPT !.phase = IF Damaged THEN "idle" ELSE "act"])
    /\ UNCHANGED <<files, lock>> /\ Quiet

\* The ledger is verified, under the lock, before the operation gets an id.
Begin(t) ==
    /\ At(t, "idle") /\ thread[t].op < Quota[t]
    /\ lock[place[t]] = None
    /\ LET n == thread[t].op + 1 IN
       Set(t, IF Damaged THEN Idle(n)
                         ELSE [Idle(n) EXCEPT !.phase = "lock", !.id = <<<<t, n>>, "started">>])
    /\ UNCHANGED <<files, lock>> /\ Quiet

\* The action returns, and its result is summarized for the "completed" entry.
ActReturns(t) ==
    /\ Set(t, [thread[t] EXCEPT !.phase = "lock", !.id = <<Current(t), "completed">>])
    /\ effects' = effects \cup {Current(t)}
    /\ UNCHANGED unreported

\* The action raises, before it took effect or after: a decision is saved, say,
\* before task_leases.consume() finds the lease expired.
ActRaises(t) ==
    /\ Set(t, [thread[t] EXCEPT !.phase = "lock", !.id = <<Current(t), "failed">>])
    /\ effects' \in {effects, effects \cup {Current(t)}}
    /\ UNCHANGED unreported

\* summarize(result) raises outside of the try: no entry follows.
SummaryRaises(t) ==
    /\ Set(t, Idle(thread[t].op))
    /\ effects' = effects \cup {Current(t)}
    /\ unreported' = unreported \cup {Current(t)}

Act(t) ==
    /\ At(t, "act")
    /\ ActReturns(t) \/ ActRaises(t) \/ SummaryRaises(t)
    /\ UNCHANGED <<files, place, lock, crashes, writers>> /\ Seal

\* append() with an operation_id of the caller's own, perhaps one used before.
AppendEvent(t) ==
    /\ At(t, "idle") /\ thread[t].op < Quota[t]
    /\ \E e \in Events :
          Set(t, [Idle(thread[t].op + 1) EXCEPT !.phase = "lock", !.id = <<e, "event">>])
    /\ UNCHANGED <<files, lock>> /\ Quiet

-----------------------------------------------------------------------------
(* append(), one file access after another *)

\* mutant: nobody waits for the lock
Lock_NotExclusive(t) ==
    /\ At(t, "lock")
    /\ lock' = [lock EXCEPT ![place[t]] = t]
    /\ Set(t, [thread[t] EXCEPT !.phase = "verify", !.view = entries])
    /\ writers' = writers \cup {place[t]}
    /\ UNCHANGED <<files, place, crashes, effects, unreported>> /\ Seal

\* Takes the RLock; verify() reads the entries.
Lock(t) ==
    /\ At(t, "lock") /\ lock[place[t]] = None
    /\ lock' = [lock EXCEPT ![place[t]] = t]
    /\ Set(t, [thread[t] EXCEPT !.phase = "verify", !.view = entries])
    /\ writers' = writers \cup {place[t]}
    /\ UNCHANGED <<files, place, crashes, effects, unreported>> /\ Seal

\* mutant: the head file is not compared with the last entry
Verify_ChainOnly(t) ==
    /\ At(t, "verify")
    /\ IF Chained(thread[t].view) /\ Signed(thread[t].view, key)
         THEN Set(t, [thread[t] EXCEPT !.phase = "key", !.view = <<>>]) /\ UNCHANGED lock
         ELSE Set(t, Idle(thread[t].op)) /\ Free(t)
    /\ UNCHANGED files /\ Quiet

\* mutant: the lock is not given back when append() raises
Verify_KeepsLock(t) ==
    /\ At(t, "verify")
    /\ IF Valid(thread[t].view, head, key)
         THEN Set(t, [thread[t] EXCEPT !.phase = "key", !.view = <<>>])
         ELSE Set(t, Idle(thread[t].op))
    /\ UNCHANGED <<files, lock>> /\ Quiet

\* verify() reads the key and the head, and append() raises on an error.
Verify(t) ==
    /\ At(t, "verify")
    /\ IF Valid(thread[t].view, head, key)
         THEN Set(t, [thread[t] EXCEPT !.phase = "key", !.view = <<>>]) /\ UNCHANGED lock
         ELSE Set(t, Idle(thread[t].op)) /\ Free(t)
    /\ UNCHANGED files /\ Quiet

\* mutant: a missing key is not made
LoadKey_NotCreated(t) ==
    /\ At(t, "key")
    /\ Set(t, [thread[t] EXCEPT !.phase = "read", !.mine = key])
    /\ UNCHANGED <<files, lock>> /\ Quiet

\* _load_key(create=True) looks for the key file, and later writes a new one.
LoadKey(t) ==
    /\ At(t, "key")
    /\ Set(t, IF key = None THEN [thread[t] EXCEPT !.phase = "make_key"]
                            ELSE [thread[t] EXCEPT !.phase = "read", !.mine = key])
    /\ UNCHANGED <<files, lock>> /\ Quiet

MakeKey(t) ==
    /\ At(t, "make_key")
    /\ key' = place[t]
    /\ Set(t, [thread[t] EXCEPT !.phase = "read", !.mine = place[t]])
    /\ UNCHANGED <<entries, head, lock>> /\ Quiet

\* The entries are read again: an operation_id that is there is not appended.
ReadEntries(t) ==
    /\ At(t, "read")
    /\ IF thread[t].id \in Recorded
         THEN Set(t, AfterAppend(t)) /\ Free(t)
         ELSE Set(t, [thread[t] EXCEPT !.phase = "head"]) /\ UNCHANGED lock
    /\ UNCHANGED files /\ Quiet

\* The entry continues what the head file says, not what the entries say.
BuildEntry(t) ==
    /\ At(t, "head")
    /\ Set(t, [thread[t] EXCEPT !.phase = "line",
                 !.next = [sequence |-> head.sequence + 1, id |-> thread[t].id,
                           previous |-> head.hash, hash |-> <<t, thread[t].id>>,
                           key |-> thread[t].mine]])
    /\ UNCHANGED <<files, lock>> /\ Quiet

WriteLine(t) ==
    /\ At(t, "line")
    /\ entries' = Append(entries, thread[t].next)
    /\ Set(t, [thread[t] EXCEPT !.phase = "point"])
    /\ UNCHANGED <<head, key, lock>> /\ Quiet

WriteHead(t) ==
    /\ At(t, "point")
    /\ head' = [sequence |-> thread[t].next.sequence, hash |-> thread[t].next.hash,
                key |-> thread[t].next.key]
    /\ Set(t, AfterAppend(t)) /\ Free(t)
    /\ UNCHANGED <<entries, key>> /\ Quiet

\* The process dies: its threads and its lock are gone, the files stay.
Crash(p) ==
    /\ crashes < MaxCrashes
    /\ crashes' = crashes + 1
    /\ thread' = [t \in Threads |-> IF place[t] = p THEN Idle(thread[t].op) ELSE thread[t]]
    /\ lock' = [lock EXCEPT ![p] = None]
    /\ UNCHANGED <<files, place, effects, unreported, writers>> /\ Seal

Run(t) ==
    \/ Act(t) \/ Lock(t) \/ Verify(t) \/ LoadKey(t) \/ MakeKey(t)
    \/ ReadEntries(t) \/ BuildEntry(t) \/ WriteLine(t) \/ WriteHead(t)

Init ==
    /\ place \in Placements
    /\ entries = <<>> /\ head = NoHead /\ key = None
    /\ lock = [p \in Processes |-> None]
    /\ thread = [t \in Threads |-> Idle(0)]
    /\ crashes = 0 /\ effects = {} /\ unreported = {} /\ writers = {} /\ sealed = FALSE

Next ==
    \/ \E t \in Threads : Begin(t) \/ AppendEvent(t) \/ Run(t)
    \/ \E p \in Processes : Crash(p)

\* A thread inside a call runs on; nobody has to call, and nobody has to crash.
Spec == Init /\ [][Next]_vars /\ \A t \in Threads : WF_vars(Run(t))

-----------------------------------------------------------------------------
(* Properties *)

\* The files hold entries, a head and a key as append() writes them, and a thread
\* that builds an entry has loaded a key to sign it with.
TypeOK ==
    /\ entries \in Seq(Entry) /\ head \in HeadRecord /\ key \in Processes \cup {None}
    /\ place \in [Threads -> Processes]
    /\ lock \in [Processes -> Threads \cup {None}]
    /\ \A t \in Threads :
          /\ thread[t].phase \in Phases /\ thread[t].op \in 0..Quota[t]
          /\ thread[t].id \in OperationIds \cup {None}
          /\ thread[t].view \in Seq(Entry)
          /\ thread[t].mine \in Processes \cup {None}
          /\ thread[t].next \in Entry \cup {NoEntry}
    /\ DOMAIN thread = Threads
    /\ crashes \in 0..MaxCrashes
    /\ effects \in SUBSET Operations /\ unreported \in SUBSET Operations
    /\ writers \in SUBSET Processes
    /\ sealed \in BOOLEAN

Alone == Cardinality(writers) <= 1

\* While one process writes the ledger and it does not crash, its files verify
\* whenever none of its threads is appending, however the threads interleave.
VerifiedAtRest == Alone /\ crashes = 0 /\ Resting => ~Damaged

\* One process never appends an operation_id twice, even across crashes.
IdsUnique ==
    Alone => \A i, j \in 1..Len(entries) : entries[i].id = entries[j].id => i = j

\* An action took effect only after its "started" entry was in the file, an outcome
\* comes after "started", and "completed" stands for an effect and never beside
\* "failed".  "failed" says nothing of the effect: the action may have had it.
Position(id) == {i \in 1..Len(entries) : entries[i].id = id}
Outcomes == {"completed", "failed"}
EntriesStandForEffects ==
    /\ \A o \in effects : Position(<<o, "started">>) # {}
    /\ \A o \in Operations, s \in Outcomes : \A i \in Position(<<o, s>>) :
          \E j \in Position(<<o, "started">>) : j < i
    /\ \A o \in Operations : Position(<<o, "completed">>) # {} =>
          o \in effects /\ Position(<<o, "failed">>) = {}

\* While one process writes and does not crash, an action that took effect has
\* the entry of its outcome, or the thread is still on its way to write it; only
\* a result that could not be summarized leaves "started" alone.
EffectsRecorded ==
    Alone /\ crashes = 0 =>
        \A o \in effects \ unreported : \E s \in Outcomes :
            <<o, s>> \in Recorded \/ thread[o[1]].id = <<o, s>>

\* Every effect is bracketed: announced before it happens, given one outcome when
\* it has, and never called completed without it, whatever is repeated or dies.
Bracketed == EntriesStandForEffects /\ EffectsRecorded /\ IdsUnique

\* Files that do not verify while nobody is appending are never written again,
\* by any process: the damage a crash left is not built upon.
SealedIsFinal == [][sealed => UNCHANGED files]_vars

\* Every call ends, so that each thread is idle again and again: the RLock is
\* given back on every path out of append().
CallsEnd == \A t \in Threads : []<>At(t, "idle")

=============================================================================
