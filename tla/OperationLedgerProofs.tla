----------------------- MODULE OperationLedgerProofs -----------------------
(***************************************************************************)
(* What the operation ledger keeps, for any number of processes, threads   *)
(* and calls: damaged files are final, every effect is bracketed by its    *)
(* entries, and the files of a single writer that does not crash verify.   *)
(***************************************************************************)
EXTENDS OperationLedger, FiniteSetTheorems, SequenceTheorems, TLAPS

(***************************************************************************)
(* Types                                                                   *)
(***************************************************************************)

Thread == [phase : Phases, op : Nat, id : OperationIds \cup {None}, view : Seq(Entry),
           mine : Processes \cup {None}, next : Entry \cup {NoEntry}]

\* What a thread knows where it is.
ThreadOK(t) ==
    /\ thread[t].phase # "idle" => thread[t].id \in OperationIds
    /\ thread[t].phase = "act" => thread[t].id = <<Current(t), "started">>
    /\ thread[t].phase # "idle" => thread[t].op \in 1..Quota[t]
    /\ thread[t].phase \in {"read", "head"} => thread[t].mine \in Processes
    /\ thread[t].phase \in {"line", "point"} => thread[t].next \in Entry

TypeInv ==
    /\ TypeOK /\ thread \in [Threads -> Thread] /\ IsFiniteSet(writers)
    /\ \A t \in Threads : ThreadOK(t)

LEMMA OperationType ==
    ASSUME NEW t \in Threads, NEW n \in 1..Quota[t]
    PROVE  <<t, n>> \in Operations /\ \A s \in Stages : <<<<t, n>>, s>> \in OperationIds
<1>1. <<t, n>> \in {t} \X (1..Quota[t])
  OBVIOUS
<1>2. <<t, n>> \in Operations
  BY <1>1 DEF Operations
<1> QED
  BY <1>2 DEF OperationIds

LEMMA IdleType ==
    ASSUME NEW n \in Nat
    PROVE  Idle(n) \in Thread /\ Idle(n).phase = "idle" /\ Idle(n).op = n
<1>1. <<>> \in Seq(Entry)
  OBVIOUS
<1> QED
  BY <1>1 DEF Idle, Thread, Phases

LEMMA InitTypeInv == Init => TypeInv
<1> SUFFICES ASSUME Init PROVE TypeInv
  OBVIOUS
<1>1. Idle(0) \in Thread /\ Idle(0).phase = "idle" /\ Idle(0).op = 0
  BY IdleType
<1>2. thread \in [Threads -> Thread] /\ \A t \in Threads : thread[t] = Idle(0)
  BY <1>1 DEF Init
<1>3. NoHead \in HeadRecord
  BY DEF NoHead, HeadRecord, Hashes
<1>4. place \in [Threads -> Processes] /\ entries \in Seq(Entry)
  BY LedgerAssumption DEF Init
<1>5. IsFiniteSet(writers)
  BY FS_EmptySet DEF Init
<1>6. \A t \in Threads :
        /\ thread[t].phase \in Phases /\ thread[t].op \in 0..Quota[t]
        /\ thread[t].id \in OperationIds \cup {None} /\ thread[t].view \in Seq(Entry)
        /\ thread[t].mine \in Processes \cup {None} /\ thread[t].next \in Entry \cup {NoEntry}
  BY <1>1, <1>2, LedgerAssumption DEF Thread
<1>7. \A t \in Threads : ThreadOK(t)
  BY <1>1, <1>2 DEF ThreadOK
<1>8. /\ head \in HeadRecord /\ key \in Processes \cup {None} /\ crashes \in 0..MaxCrashes
      /\ lock \in [Processes -> Threads \cup {None}] /\ effects \in SUBSET Operations
      /\ unreported \in SUBSET Operations
      /\ writers \in SUBSET Processes /\ sealed \in BOOLEAN /\ DOMAIN thread = Threads
  <2>1. /\ head \in HeadRecord /\ key \in Processes \cup {None} /\ crashes \in 0..MaxCrashes
        /\ effects = {} /\ unreported = {} /\ writers = {} /\ sealed = FALSE
    BY <1>3, LedgerAssumption DEF Init
  <2>2. lock \in [Processes -> Threads \cup {None}]
    BY DEF Init
  <2>3. DOMAIN thread = Threads
    BY DEF Init
  <2> QED
    BY <2>1, <2>2, <2>3
<1>9. TypeOK
  BY <1>4, <1>6, <1>8 DEF TypeOK
<1> QED
  BY <1>2, <1>5, <1>7, <1>9 DEF TypeInv


LEMMA StepTypeInv == TypeInv /\ [Next]_vars => TypeInv'
<1> SUFFICES ASSUME TypeInv, [Next]_vars PROVE TypeInv'
  OBVIOUS
<1> USE DEF TypeInv
<1>a. ASSUME NEW t \in Threads
      PROVE  /\ thread[t] \in Thread /\ thread[t].op \in 0..Quota[t] /\ Quota[t] \in Nat
             /\ place[t] \in Processes /\ thread[t].phase \in Phases
             /\ thread[t].next \in Entry \cup {NoEntry} /\ thread[t].mine \in Processes \cup {None}
             /\ thread[t].view \in Seq(Entry) /\ thread[t].id \in OperationIds \cup {None}
  BY LedgerAssumption DEF TypeOK
\* A thread that goes on with a sound record leaves the threads sound.
<1>b. ASSUME NEW t \in Threads, NEW r \in Thread, Set(t, r), r.op \in 0..Quota[t],
             r.phase # "idle" => r.id \in OperationIds /\ r.op \in 1..Quota[t],
             r.phase = "act" => r.id = <<<<t, r.op>>, "started">>,
             r.phase \in {"read", "head"} => r.mine \in Processes,
             r.phase \in {"line", "point"} => r.next \in Entry
      PROVE  /\ thread' \in [Threads -> Thread]
             /\ \A u \in Threads : thread'[u].op \in 0..Quota[u] /\ ThreadOK(u)'
  <2>1. thread' = [thread EXCEPT ![t] = r]
    BY <1>b DEF Set
  <2>2. \A u \in Threads : thread'[u] = IF u = t THEN r ELSE thread[u]
    BY <2>1
  <2>3. thread' \in [Threads -> Thread]
    BY <2>1
  <2>4. thread'[t] = r /\ ThreadOK(t)'
    BY <1>b, <2>2 DEF ThreadOK, Current
  <2>5. ASSUME NEW u \in Threads, u # t
        PROVE  thread'[u].op \in 0..Quota[u] /\ ThreadOK(u)'
    BY <1>a, <2>2, <2>5 DEF ThreadOK, Current
  <2> QED
    BY <1>b, <2>3, <2>4, <2>5
<1>c. ASSUME NEW t \in Threads, NEW n \in 0..Quota[t], Set(t, Idle(n))
      PROVE  /\ thread' \in [Threads -> Thread]
             /\ \A u \in Threads : thread'[u].op \in 0..Quota[u] /\ ThreadOK(u)'
  <2>1. n \in Nat
    BY <1>a
  <2> QED
    BY <1>b, <1>c, <2>1, IdleType
<1>e. ASSUME NEW t \in Threads, Free(t)
      PROVE  lock' \in [Processes -> Threads \cup {None}]
  BY <1>e DEF Free, TypeOK
<1>f. ASSUME NEW t \in Threads, thread[t].phase \in Appending, Set(t, AfterAppend(t))
      PROVE  /\ thread' \in [Threads -> Thread]
             /\ \A u \in Threads : thread'[u].op \in 0..Quota[u] /\ ThreadOK(u)'
  <2>1. CASE thread[t].id = <<Current(t), "started">>
    <3> DEFINE r == [thread[t] EXCEPT !.phase = "act", !.mine = None, !.next = NoEntry]
    <3>1. Set(t, r)
      BY <1>f, <2>1 DEF AfterAppend
    <3>2. r \in Thread /\ r.phase = "act" /\ r.op = thread[t].op /\ r.id = thread[t].id
      BY <1>a DEF Phases, Thread
    <3>3. thread[t].phase # "idle" /\ ThreadOK(t)
      BY <1>f DEF Appending
    <3> HIDE DEF r
    <3> QED
      BY <1>a, <1>b, <2>1, <3>1, <3>2, <3>3 DEF ThreadOK, Current
  <2>2. CASE thread[t].id # <<Current(t), "started">>
    BY <1>a, <1>c, <1>f, <2>2 DEF AfterAppend
  <2> QED
    BY <2>1, <2>2
<1>s. sealed \in BOOLEAN /\ (Seal => sealed' \in BOOLEAN)
  BY DEF Seal, TypeOK
\* What is left to show of each action is that its variables keep their types.
<1>t. ASSUME thread' \in [Threads -> Thread],
             \A u \in Threads : thread'[u].op \in 0..Quota[u] /\ ThreadOK(u)',
             entries' \in Seq(Entry), head' \in HeadRecord, key' \in Processes \cup {None},
             place' = place, lock' \in [Processes -> Threads \cup {None}],
             crashes' \in 0..MaxCrashes, effects' \in SUBSET Operations,
             unreported' \in SUBSET Operations,
             writers' \in SUBSET Processes, IsFiniteSet(writers'), sealed' \in BOOLEAN
      PROVE  TypeInv'
  <2>1. TypeOK'
    BY <1>t DEF TypeOK, Thread
  <2> QED
    BY <1>t, <2>1
<1>u. /\ entries \in Seq(Entry) /\ head \in HeadRecord /\ key \in Processes \cup {None}
      /\ lock \in [Processes -> Threads \cup {None}] /\ crashes \in 0..MaxCrashes
      /\ effects \in SUBSET Operations /\ unreported \in SUBSET Operations
      /\ writers \in SUBSET Processes /\ IsFiniteSet(writers)
  BY DEF TypeOK
<1>1. ASSUME NEW t \in Threads, Begin(t) PROVE TypeInv'
  <2> DEFINE n == thread[t].op + 1
             r == [Idle(n) EXCEPT !.phase = "lock", !.id = <<<<t, n>>, "started">>]
  <2>1. n \in 1..Quota[t] /\ n \in 0..Quota[t] /\ n \in Nat
    BY <1>1, <1>a DEF Begin
  <2>2. Idle(n) \in Thread /\ <<<<t, n>>, "started">> \in OperationIds
    BY <2>1, IdleType, OperationType DEF Stages
  <2>3. r \in Thread /\ r.phase = "lock" /\ r.op = n /\ r.id \in OperationIds
    BY <2>2 DEF Idle, Thread, Phases
  <2>4. Set(t, Idle(n)) \/ Set(t, r)
    BY <1>1 DEF Begin
  <2> HIDE DEF r, n
  <2>5. /\ thread' \in [Threads -> Thread]
        /\ \A u \in Threads : thread'[u].op \in 0..Quota[u] /\ ThreadOK(u)'
    BY <1>b, <1>c, <2>1, <2>3, <2>4
  <2> QED
    BY <1>1, <1>s, <1>t, <1>u, <2>5 DEF Begin, files, Quiet
<1>2. ASSUME NEW t \in Threads, AppendEvent(t) PROVE TypeInv'
  <2> DEFINE n == thread[t].op + 1
  <2>1. n \in 1..Quota[t] /\ n \in 0..Quota[t] /\ n \in Nat
    BY <1>2, <1>a DEF AppendEvent
  <2>2. PICK e \in Events : Set(t, [Idle(n) EXCEPT !.phase = "lock", !.id = <<e, "event">>])
    BY <1>2 DEF AppendEvent
  <2> DEFINE r == [Idle(n) EXCEPT !.phase = "lock", !.id = <<e, "event">>]
  <2>3. Idle(n) \in Thread /\ <<e, "event">> \in OperationIds
    BY <2>1, IdleType DEF OperationIds
  <2>4. r \in Thread /\ r.phase = "lock" /\ r.op = n /\ r.id \in OperationIds
    BY <2>3 DEF Idle, Thread, Phases
  <2>5. Set(t, r)
    BY <2>2
  <2> HIDE DEF r, n
  <2>6. /\ thread' \in [Threads -> Thread]
        /\ \A u \in Threads : thread'[u].op \in 0..Quota[u] /\ ThreadOK(u)'
    BY <1>b, <2>1, <2>4, <2>5
  <2> QED
    BY <1>2, <1>s, <1>t, <1>u, <2>6 DEF AppendEvent, files, Quiet
<1>3. ASSUME NEW t \in Threads, Act(t) PROVE TypeInv'
  <2>1. /\ \/ \E outcome \in Outcomes :
                Set(t, [thread[t] EXCEPT !.phase = "lock", !.id = <<Current(t), outcome>>])
           \/ Set(t, Idle(thread[t].op))
        /\ effects' \in {effects, effects \cup {Current(t)}}
        /\ unreported' \in {unreported, unreported \cup {Current(t)}}
    BY <1>3 DEF Act, ActReturns, ActRaises, SummaryRaises, Outcomes
  <2>2. thread[t].op \in 1..Quota[t]
    BY <1>3 DEF Act, At, ThreadOK
  <2>3. /\ Current(t) \in Operations
        /\ \A outcome \in Outcomes : <<Current(t), outcome>> \in OperationIds
    BY <2>2, OperationType DEF Current, Stages, Outcomes
  <2>6. /\ thread' \in [Threads -> Thread]
        /\ \A u \in Threads : thread'[u].op \in 0..Quota[u] /\ ThreadOK(u)'
    <3>1. CASE Set(t, Idle(thread[t].op))
      BY <1>a, <1>c, <3>1
    <3>2. ASSUME NEW outcome \in Outcomes,
                 Set(t, [thread[t] EXCEPT !.phase = "lock", !.id = <<Current(t), outcome>>])
          PROVE  /\ thread' \in [Threads -> Thread]
                 /\ \A u \in Threads : thread'[u].op \in 0..Quota[u] /\ ThreadOK(u)'
      <4> DEFINE r == [thread[t] EXCEPT !.phase = "lock", !.id = <<Current(t), outcome>>]
      <4>1. r \in Thread /\ r.phase = "lock" /\ r.op = thread[t].op /\ r.id \in OperationIds
        BY <1>a, <2>3 DEF Phases, Thread
      <4>2. Set(t, r)
        BY <3>2
      <4> HIDE DEF r
      <4> QED
        BY <1>a, <1>b, <2>2, <4>1, <4>2
    <3> QED
      BY <2>1, <3>1, <3>2
  <2>7. effects' \in SUBSET Operations /\ unreported' \in SUBSET Operations
    BY <1>u, <2>1, <2>3
  <2> QED
    BY <1>3, <1>s, <1>t, <1>u, <2>6, <2>7 DEF Act, files
<1>4. ASSUME NEW t \in Threads, Lock(t) PROVE TypeInv'
  <2> DEFINE r == [thread[t] EXCEPT !.phase = "verify", !.view = entries]
  <2>1. r \in Thread /\ r.phase = "verify" /\ r.op = thread[t].op /\ r.id = thread[t].id
    BY <1>a, <1>u DEF Phases, Appending, Thread
  <2>2. Set(t, r) /\ thread[t].phase = "lock"
    BY <1>4 DEF Lock, At
  <2> HIDE DEF r
  <2>3. /\ thread' \in [Threads -> Thread]
        /\ \A u \in Threads : thread'[u].op \in 0..Quota[u] /\ ThreadOK(u)'
    BY <1>a, <1>b, <2>1, <2>2 DEF ThreadOK
  <2>4. writers' \in SUBSET Processes /\ IsFiniteSet(writers')
    <3>1. writers' = writers \cup {place[t]}
      BY <1>4 DEF Lock
    <3>2. IsFiniteSet(writers \cup {place[t]})
      BY <1>u, FS_AddElement
    <3> QED
      BY <1>a, <1>u, <3>1, <3>2
  <2>5. lock' \in [Processes -> Threads \cup {None}]
    BY <1>4, <1>u DEF Lock
  <2> QED
    BY <1>4, <1>s, <1>t, <1>u, <2>3, <2>4, <2>5 DEF Lock, files
<1>5. ASSUME NEW t \in Threads, Verify(t) PROVE TypeInv'
  <2> DEFINE r == [thread[t] EXCEPT !.phase = "key", !.view = <<>>]
  <2>e. <<>> \in Seq(Entry)
    OBVIOUS
  <2>1. r \in Thread /\ r.phase = "key" /\ r.op = thread[t].op /\ r.id = thread[t].id
    BY <1>a, <2>e DEF Phases, Appending, Thread
  <2>2. /\ thread[t].phase = "verify"
        /\ (Set(t, r) /\ lock' = lock) \/ (Set(t, Idle(thread[t].op)) /\ Free(t))
    BY <1>5 DEF Verify, At
  <2> HIDE DEF r
  <2>3. /\ thread' \in [Threads -> Thread]
        /\ \A u \in Threads : thread'[u].op \in 0..Quota[u] /\ ThreadOK(u)'
    BY <1>a, <1>b, <1>c, <2>1, <2>2 DEF ThreadOK
  <2>4. lock' \in [Processes -> Threads \cup {None}]
    BY <1>e, <1>u, <2>2
  <2> QED
    BY <1>5, <1>s, <1>t, <1>u, <2>3, <2>4 DEF Verify, files, Quiet
<1>6. ASSUME NEW t \in Threads, LoadKey(t) PROVE TypeInv'
  <2> DEFINE r == IF key = None THEN [thread[t] EXCEPT !.phase = "make_key"]
                                ELSE [thread[t] EXCEPT !.phase = "read", !.mine = key]
  <2>1. /\ r \in Thread /\ r.op = thread[t].op /\ r.id = thread[t].id
        /\ r.phase = "make_key" \/ (r.phase = "read" /\ r.mine \in Processes)
    BY <1>a, <1>u DEF Phases, Appending, Thread
  <2>2. thread[t].phase = "key" /\ Set(t, r)
    BY <1>6 DEF LoadKey, At
  <2> HIDE DEF r
  <2>3. /\ thread' \in [Threads -> Thread]
        /\ \A u \in Threads : thread'[u].op \in 0..Quota[u] /\ ThreadOK(u)'
    BY <1>a, <1>b, <2>1, <2>2 DEF ThreadOK
  <2> QED
    BY <1>6, <1>s, <1>t, <1>u, <2>3 DEF LoadKey, files, Quiet
<1>7. ASSUME NEW t \in Threads, MakeKey(t) PROVE TypeInv'
  <2> DEFINE r == [thread[t] EXCEPT !.phase = "read", !.mine = place[t]]
  <2>1. /\ r \in Thread /\ r.op = thread[t].op /\ r.id = thread[t].id
        /\ r.phase = "read" /\ r.mine \in Processes
    BY <1>a DEF Phases, Appending, Thread
  <2>2. thread[t].phase = "make_key" /\ Set(t, r)
    BY <1>7 DEF MakeKey, At
  <2> HIDE DEF r
  <2>3. /\ thread' \in [Threads -> Thread]
        /\ \A u \in Threads : thread'[u].op \in 0..Quota[u] /\ ThreadOK(u)'
    BY <1>a, <1>b, <2>1, <2>2 DEF ThreadOK
  <2> QED
    BY <1>7, <1>a, <1>s, <1>t, <1>u, <2>3 DEF MakeKey, Quiet
<1>8. ASSUME NEW t \in Threads, ReadEntries(t) PROVE TypeInv'
  <2> DEFINE r == [thread[t] EXCEPT !.phase = "head"]
  <2>1. /\ r \in Thread /\ r.op = thread[t].op /\ r.id = thread[t].id
        /\ r.phase = "head" /\ r.mine = thread[t].mine
    BY <1>a DEF Phases, Appending, Thread
  <2>2. /\ thread[t].phase = "read" /\ thread[t].phase \in Appending
        /\ (Set(t, r) /\ lock' = lock) \/ (Set(t, AfterAppend(t)) /\ Free(t))
    BY <1>8 DEF ReadEntries, At, Appending
  <2> HIDE DEF r
  <2>3. /\ thread' \in [Threads -> Thread]
        /\ \A u \in Threads : thread'[u].op \in 0..Quota[u] /\ ThreadOK(u)'
    BY <1>a, <1>b, <1>f, <2>1, <2>2 DEF ThreadOK
  <2>4. lock' \in [Processes -> Threads \cup {None}]
    BY <1>e, <1>u, <2>2
  <2> QED
    BY <1>8, <1>s, <1>t, <1>u, <2>3, <2>4 DEF ReadEntries, files, Quiet
<1>9. ASSUME NEW t \in Threads, BuildEntry(t) PROVE TypeInv'
  <2> DEFINE x == [sequence |-> head.sequence + 1, id |-> thread[t].id,
                   previous |-> head.hash, hash |-> <<t, thread[t].id>>,
                   key |-> thread[t].mine]
             r == [thread[t] EXCEPT !.phase = "line", !.next = x]
  <2>1. thread[t].phase = "head" /\ Set(t, r)
    BY <1>9 DEF BuildEntry, At
  <2>2. thread[t].id \in OperationIds /\ thread[t].mine \in Processes
    BY <2>1 DEF ThreadOK
  <2>3. x \in Entry
    BY <1>u, <2>2 DEF Entry, HeadRecord, Hashes
  <2> HIDE DEF x
  <2>4. /\ r \in Thread /\ r.op = thread[t].op /\ r.id = thread[t].id
        /\ r.phase = "line" /\ r.next \in Entry
    BY <1>a, <2>3 DEF Phases, Appending, Thread
  <2> HIDE DEF r
  <2>5. /\ thread' \in [Threads -> Thread]
        /\ \A u \in Threads : thread'[u].op \in 0..Quota[u] /\ ThreadOK(u)'
    BY <1>a, <1>b, <2>1, <2>4 DEF ThreadOK
  <2> QED
    BY <1>9, <1>s, <1>t, <1>u, <2>5 DEF BuildEntry, files, Quiet
<1>10. ASSUME NEW t \in Threads, WriteLine(t) PROVE TypeInv'
  <2> DEFINE r == [thread[t] EXCEPT !.phase = "point"]
  <2>1. thread[t].phase = "line" /\ Set(t, r) /\ thread[t].next \in Entry
    BY <1>10 DEF WriteLine, At, ThreadOK
  <2>2. /\ r \in Thread /\ r.op = thread[t].op /\ r.id = thread[t].id
        /\ r.phase = "point" /\ r.next = thread[t].next
    BY <1>a DEF Phases, Appending, Thread
  <2> HIDE DEF r
  <2>3. /\ thread' \in [Threads -> Thread]
        /\ \A u \in Threads : thread'[u].op \in 0..Quota[u] /\ ThreadOK(u)'
    BY <1>a, <1>b, <2>1, <2>2 DEF ThreadOK
  <2>4. entries' \in Seq(Entry)
    BY <1>10, <1>u, <2>1, AppendProperties DEF WriteLine
  <2> QED
    BY <1>10, <1>s, <1>t, <1>u, <2>3, <2>4 DEF WriteLine, Quiet
<1>11. ASSUME NEW t \in Threads, WriteHead(t) PROVE TypeInv'
  <2>1. /\ thread[t].phase = "point" /\ thread[t].phase \in Appending
        /\ Set(t, AfterAppend(t)) /\ Free(t)
    BY <1>11 DEF WriteHead, At, Appending
  <2>2. thread[t].next \in Entry
    BY <2>1 DEF ThreadOK
  <2>3. head' \in HeadRecord
    BY <1>11, <2>2 DEF WriteHead, Entry, HeadRecord
  <2> QED
    BY <1>11, <1>e, <1>f, <1>s, <1>t, <1>u, <2>1, <2>3 DEF WriteHead, Quiet
<1>12. ASSUME NEW p \in Processes, Crash(p) PROVE TypeInv'
  <2>1. \A u \in Threads :
          thread'[u] = IF place[u] = p THEN Idle(thread[u].op) ELSE thread[u]
    BY <1>12 DEF Crash
  <2>2. \A u \in Threads : thread[u].op \in Nat
    BY <1>a
  <2>3. ASSUME NEW u \in Threads
        PROVE  thread'[u] \in Thread /\ thread'[u].op \in 0..Quota[u] /\ ThreadOK(u)'
    BY <1>a, <2>1, <2>2, IdleType DEF ThreadOK, Current
  <2>4. thread' \in [Threads -> Thread]
    BY <1>12, <2>3 DEF Crash
  <2>5. crashes' \in 0..MaxCrashes
    BY <1>12, <1>u, LedgerAssumption DEF Crash
  <2>6. lock' \in [Processes -> Threads \cup {None}]
    BY <1>12, <1>u DEF Crash
  <2> QED
    BY <1>12, <1>s, <1>t, <1>u, <2>3, <2>4, <2>5, <2>6 DEF Crash, files
<1>13. CASE UNCHANGED vars
  BY <1>13, <1>a, <1>s, <1>t, <1>u DEF vars, files, ThreadOK, Current
<1> QED
  BY <1>1, <1>2, <1>3, <1>4, <1>5, <1>6, <1>7, <1>8, <1>9, <1>10, <1>11, <1>12, <1>13
     DEF Next, Run

\* The three files, the locks and every thread keep their types, and a thread
\* that signs an entry has loaded a key (operation_ledger.py, append).
THEOREM TypeCorrect == Spec => []TypeOK
<1>1. TypeInv => TypeOK
  BY DEF TypeInv
<1> QED
  BY InitTypeInv, StepTypeInv, <1>1, PTL DEF Spec

(***************************************************************************)
(* What a step does to the threads                                         *)
(***************************************************************************)

Settled == {"idle", "lock", "act", "verify"}

LEMMA ThreadsAfter ==
    ASSUME TypeInv, NEW t \in Threads, NEW r, Set(t, r)
    PROVE  \A u \in Threads : thread'[u] = IF u = t THEN r ELSE thread[u]
BY DEF TypeInv, Set

\* append() returns to an idle thread or to the action.
LEMMA AfterAppendPhase ==
    ASSUME TypeInv, NEW t \in Threads
    PROVE  /\ AfterAppend(t).op = thread[t].op
           /\ \/ /\ thread[t].id = <<Current(t), "started">>
                 /\ AfterAppend(t).phase = "act" /\ AfterAppend(t).id = thread[t].id
              \/ /\ thread[t].id # <<Current(t), "started">>
                 /\ AfterAppend(t).phase = "idle"
<1>1. thread[t] \in Thread /\ thread[t].op \in Nat
  BY DEF TypeInv, Thread
<1>2. Idle(thread[t].op).phase = "idle" /\ Idle(thread[t].op).op = thread[t].op
  BY <1>1, IdleType
<1> QED
  BY <1>1, <1>2 DEF AfterAppend, Thread

(***************************************************************************)
(* Damage is final                                                         *)
(***************************************************************************)

\* Once the files rested damaged, nobody is past verify(), and whoever is in
\* verify() has read them as they are.
SealInv ==
    sealed => /\ Damaged
              /\ \A t \in Threads : /\ thread[t].phase \in Settled
                                    /\ thread[t].phase = "verify" => thread[t].view = entries

LEMMA StepSealInv ==
    TypeInv /\ SealInv /\ [Next]_vars => SealInv' /\ (sealed => UNCHANGED files)
<1> SUFFICES ASSUME TypeInv, SealInv, [Next]_vars
             PROVE  SealInv' /\ (sealed => UNCHANGED files)
  OBVIOUS
<1>t. ASSUME NEW t \in Threads
      PROVE  thread[t] \in Thread /\ thread[t].op \in Nat /\ thread[t].op + 1 \in Nat
  BY DEF TypeInv, Thread
<1>1. ASSUME NEW p \in Processes, Crash(p)
      PROVE  \A u \in Threads :
                thread'[u] = thread[u] \/ thread'[u] = Idle(thread[u].op)
  BY <1>1 DEF Crash
\* Damage that is new in this step is found when nobody is in append().
<1>2. ASSUME ~sealed PROVE SealInv'
  <2> SUFFICES ASSUME sealed' PROVE SealInv'
    BY DEF SealInv
  <2>1. Seal \/ UNCHANGED vars
    BY DEF Next, Run, Begin, AppendEvent, Act, Lock, Verify, LoadKey, MakeKey, ReadEntries,
           BuildEntry, WriteLine, WriteHead, Crash, Quiet
  <2>2. Damaged' /\ Resting'
    BY <1>2, <2>1 DEF Seal, vars
  <2>3. \A t \in Threads : thread'[t].phase \in {"idle", "lock", "act"}
    <3>1. TypeInv'
      BY StepTypeInv
    <3> QED
      BY <2>2, <3>1 DEF TypeInv, Thread, Phases, Resting, Appending
  <2> QED
    BY <2>2, <2>3 DEF SealInv, Settled, At
<1>3. ASSUME sealed PROVE SealInv' /\ UNCHANGED files
  <2>d. Damaged
    BY <1>3 DEF SealInv
  <2>a. \A t \in Threads : /\ thread[t].phase \in Settled
                           /\ thread[t].phase = "verify" => thread[t].view = entries
    BY <1>3 DEF SealInv
  <2>b. ASSUME UNCHANGED files,
               NEW u \in Threads, \A v \in Threads \ {u} : thread'[v] = thread[v],
               thread'[u].phase \in Settled,
               thread'[u].phase = "verify" => thread'[u].view = entries
        PROVE  SealInv' /\ UNCHANGED files
    <3>1. Damaged'
      BY <2>a, <2>d, <2>b DEF Damaged, files
    <3>2. \A v \in Threads : /\ thread'[v].phase \in Settled
                             /\ thread'[v].phase = "verify" => thread'[v].view = entries
      BY <2>a, <2>b
    <3> QED
      BY <2>b, <3>1, <3>2 DEF SealInv, At, files
  <2>1. ASSUME NEW t \in Threads, Begin(t) PROVE SealInv' /\ UNCHANGED files
    <3>1. Set(t, Idle(thread[t].op + 1)) /\ UNCHANGED files
      BY <2>a, <2>d, <2>1 DEF Begin
    <3>2. thread'[t].phase = "idle" /\ \A v \in Threads \ {t} : thread'[v] = thread[v]
      BY <1>t, <3>1, IdleType, ThreadsAfter
    <3> QED
      BY <2>b, <3>1, <3>2 DEF Settled
  <2>2. ASSUME NEW t \in Threads, AppendEvent(t) PROVE SealInv' /\ UNCHANGED files
    <3>1. PICK e \in Events :
            Set(t, [Idle(thread[t].op + 1) EXCEPT !.phase = "lock", !.id = <<e, "event">>])
      BY <2>2 DEF AppendEvent
    <3>2. Idle(thread[t].op + 1) \in Thread
      BY <1>t, IdleType
    <3>3. thread'[t].phase = "lock" /\ \A v \in Threads \ {t} : thread'[v] = thread[v]
      <4> DEFINE r == [Idle(thread[t].op + 1) EXCEPT !.phase = "lock", !.id = <<e, "event">>]
      <4>1. r.phase = "lock"
        BY <3>2 DEF Thread
      <4>2. Set(t, r)
        BY <3>1
      <4> HIDE DEF r
      <4> QED
        BY <4>1, <4>2, ThreadsAfter
    <3>4. UNCHANGED files
      BY <2>2 DEF AppendEvent
    <3> QED
      BY <2>b, <3>3, <3>4 DEF Settled
  <2>3. ASSUME NEW t \in Threads, Act(t) PROVE SealInv' /\ UNCHANGED files
    <3>1. \/ \E o \in Outcomes :
               Set(t, [thread[t] EXCEPT !.phase = "lock", !.id = <<Current(t), o>>])
          \/ Set(t, Idle(thread[t].op))
      BY <2>3 DEF Act, ActReturns, ActRaises, SummaryRaises, Outcomes
    <3>2. /\ thread'[t].phase \in {"lock", "idle"}
          /\ \A v \in Threads \ {t} : thread'[v] = thread[v]
      <4>1. CASE Set(t, Idle(thread[t].op))
        <5>1. Idle(thread[t].op).phase = "idle"
          BY <1>t, IdleType DEF Thread
        <5> QED
          BY <4>1, <5>1, ThreadsAfter
      <4>2. ASSUME NEW o \in Outcomes,
                   Set(t, [thread[t] EXCEPT !.phase = "lock", !.id = <<Current(t), o>>])
            PROVE  /\ thread'[t].phase = "lock"
                   /\ \A v \in Threads \ {t} : thread'[v] = thread[v]
        <5> DEFINE r == [thread[t] EXCEPT !.phase = "lock", !.id = <<Current(t), o>>]
        <5>1. r.phase = "lock"
          BY <1>t DEF Thread
        <5>2. Set(t, r)
          BY <4>2
        <5> HIDE DEF r
        <5> QED
          BY <5>1, <5>2, ThreadsAfter
      <4> QED
        BY <3>1, <4>1, <4>2
    <3>3. UNCHANGED files
      BY <2>3 DEF Act
    <3> QED
      BY <2>b, <3>2, <3>3 DEF Settled
  <2>4. ASSUME NEW t \in Threads, Lock(t) PROVE SealInv' /\ UNCHANGED files
    <3>1. Set(t, [thread[t] EXCEPT !.phase = "verify", !.view = entries]) /\ UNCHANGED files
      BY <2>4 DEF Lock
    <3>2. /\ thread'[t].phase = "verify" /\ thread'[t].view = entries
          /\ \A v \in Threads \ {t} : thread'[v] = thread[v]
      <4> DEFINE r == [thread[t] EXCEPT !.phase = "verify", !.view = entries]
      <4>1. r.phase = "verify" /\ r.view = entries
        BY <1>t DEF Thread
      <4>2. Set(t, r)
        BY <3>1
      <4> HIDE DEF r
      <4> QED
        BY <4>1, <4>2, ThreadsAfter
    <3> QED
      BY <2>b, <3>1, <3>2 DEF Settled
  \* verify() fails, since the files are as damaged as they were.
  <2>5. ASSUME NEW t \in Threads, Verify(t) PROVE SealInv' /\ UNCHANGED files
    <3>0. thread[t].phase = "verify"
      BY <2>5 DEF Verify, At
    <3>1. thread[t].view = entries /\ ~Valid(thread[t].view, head, key)
      BY <2>a, <2>d, <3>0 DEF Damaged
    <3>2. Set(t, Idle(thread[t].op)) /\ UNCHANGED files
      BY <2>5, <3>1 DEF Verify
    <3>3. thread'[t].phase = "idle" /\ \A v \in Threads \ {t} : thread'[v] = thread[v]
      BY <1>t, <3>2, IdleType, ThreadsAfter
    <3> QED
      BY <2>b, <3>2, <3>3 DEF Settled
  \* Nobody is anywhere else in append().
  <2>6. ASSUME NEW t \in Threads
        PROVE  ~(LoadKey(t) \/ MakeKey(t) \/ ReadEntries(t) \/ BuildEntry(t)
                 \/ WriteLine(t) \/ WriteHead(t))
    BY <2>a DEF LoadKey, MakeKey, ReadEntries, BuildEntry, WriteLine, WriteHead, At, Settled
  <2>7. ASSUME NEW p \in Processes, Crash(p) PROVE SealInv' /\ UNCHANGED files
    <3>1. UNCHANGED files
      BY <2>7 DEF Crash
    <3>2. \A u \in Threads : thread'[u] = thread[u] \/ thread'[u].phase = "idle"
      BY <1>1, <1>t, <2>7, IdleType
    <3>3. Damaged'
      BY <2>a, <2>d, <3>1 DEF Damaged, files
    <3>4. \A u \in Threads : /\ thread'[u].phase \in Settled
                             /\ thread'[u].phase = "verify" => thread'[u].view = entries
      BY <2>a, <3>2 DEF Settled
    <3> QED
      BY <3>1, <3>3, <3>4 DEF SealInv, At, files
  <2>8. CASE UNCHANGED vars
    <3>1. Damaged'
      BY <2>a, <2>d, <2>8 DEF vars, Damaged, files
    <3> QED
      BY <2>a, <2>8, <3>1 DEF vars, SealInv, At, files
  <2> QED
    BY <2>1, <2>2, <2>3, <2>4, <2>5, <2>6, <2>7, <2>8 DEF Next, Run
<1> QED
  BY <1>2, <1>3

\* Files that do not verify while nobody is appending are never written again,
\* by any thread of any process (operation_ledger.py, verify before append).
THEOREM DamageIsFinal == Spec => SealedIsFinal
<1>1. Init => SealInv
  BY DEF Init, SealInv
<1>2. TypeInv /\ SealInv /\ [Next]_vars => [sealed => UNCHANGED files]_vars
  BY StepSealInv
<1> QED
  BY InitTypeInv, StepTypeInv, StepSealInv, <1>1, <1>2, PTL DEF Spec, SealedIsFinal

(***************************************************************************)
(* What each action does, field by field                                   *)
(***************************************************************************)

Others(t) == \A u \in Threads \ {t} : thread'[u] = thread[u]

\* t goes on in the call it is in.
Moves(t, from, to) ==
    /\ thread[t].phase = from /\ thread'[t].phase = to
    /\ thread'[t].op = thread[t].op /\ thread'[t].id = thread[t].id
    /\ Others(t)

\* append() returns to t.
Returns(t) ==
    /\ thread'[t].op = thread[t].op /\ Others(t)
    /\ lock' = [lock EXCEPT ![place[t]] = None]
    /\ \/ thread'[t].phase = "idle" /\ thread[t].id # <<Current(t), "started">>
       \/ /\ thread'[t].phase = "act" /\ thread'[t].id = thread[t].id
          /\ thread[t].id = <<Current(t), "started">>

LEMMA Becomes ==
    ASSUME TypeInv, NEW t \in Threads, NEW r, Set(t, r)
    PROVE  thread'[t] = r /\ Others(t)
BY ThreadsAfter DEF Others

LEMMA BeginDoes ==
    ASSUME TypeInv, NEW t \in Threads, Begin(t)
    PROVE  /\ thread[t].phase = "idle" /\ thread'[t].op = thread[t].op + 1 /\ Others(t)
           /\ \/ Damaged /\ thread'[t].phase = "idle"
              \/ /\ thread'[t].phase = "lock"
                 /\ thread'[t].id = <<<<t, thread[t].op + 1>>, "started">>
           /\ UNCHANGED <<entries, head, key, lock, place, crashes, effects, unreported, writers>>
<1> DEFINE n == thread[t].op + 1
           r == [Idle(n) EXCEPT !.phase = "lock", !.id = <<<<t, n>>, "started">>]
<1>1. n \in Nat
  BY DEF TypeInv, Thread
<1>2. Idle(n) \in Thread /\ Idle(n).phase = "idle" /\ Idle(n).op = n
  BY <1>1, IdleType
<1>3. r.phase = "lock" /\ r.op = n /\ r.id = <<<<t, n>>, "started">>
  BY <1>2 DEF Thread
<1>4. (Damaged /\ Set(t, Idle(n))) \/ Set(t, r)
  BY DEF Begin
<1>5. UNCHANGED <<entries, head, key, lock, place, crashes, effects, unreported, writers>>
  BY DEF Begin, Quiet, files
<1>6. thread[t].phase = "idle"
  BY DEF Begin, At
<1> HIDE DEF r
<1> QED
  BY <1>2, <1>3, <1>4, <1>5, <1>6, Becomes

LEMMA AppendEventDoes ==
    ASSUME TypeInv, NEW t \in Threads, AppendEvent(t)
    PROVE  /\ thread[t].phase = "idle" /\ thread'[t].op = thread[t].op + 1 /\ Others(t)
           /\ thread'[t].phase = "lock" /\ \E e \in Events : thread'[t].id = <<e, "event">>
           /\ UNCHANGED <<entries, head, key, lock, place, crashes, effects, unreported, writers>>
<1> DEFINE n == thread[t].op + 1
<1>1. PICK e \in Events : Set(t, [Idle(n) EXCEPT !.phase = "lock", !.id = <<e, "event">>])
  BY DEF AppendEvent
<1> DEFINE r == [Idle(n) EXCEPT !.phase = "lock", !.id = <<e, "event">>]
<1>2. n \in Nat
  BY DEF TypeInv, Thread
<1>3. r.phase = "lock" /\ r.op = n /\ r.id = <<e, "event">>
  BY <1>2, IdleType DEF Thread
<1>4. Set(t, r)
  BY <1>1
<1>5. UNCHANGED <<entries, head, key, lock, place, crashes, effects, unreported, writers>>
  BY DEF AppendEvent, Quiet, files
<1>6. thread[t].phase = "idle"
  BY DEF AppendEvent, At
<1> HIDE DEF r
<1> QED
  BY <1>3, <1>4, <1>5, <1>6, Becomes

LEMMA ActDoes ==
    ASSUME TypeInv, NEW t \in Threads, Act(t)
    PROVE  /\ thread[t].phase = "act" /\ thread'[t].op = thread[t].op /\ Others(t)
           /\ \/ /\ thread'[t].phase = "lock"
                 /\ thread'[t].id = <<Current(t), "completed">>
                 /\ effects' = effects \cup {Current(t)} /\ unreported' = unreported
              \/ /\ thread'[t].phase = "lock" /\ thread'[t].id = <<Current(t), "failed">>
                 /\ effects' \in {effects, effects \cup {Current(t)}}
                 /\ unreported' = unreported
              \/ /\ thread'[t].phase = "idle"
                 /\ effects' = effects \cup {Current(t)}
                 /\ unreported' = unreported \cup {Current(t)}
           /\ UNCHANGED <<entries, head, key, lock, place, crashes, writers>>
<1>1. UNCHANGED <<entries, head, key, lock, place, crashes, writers>> /\ thread[t].phase = "act"
  BY DEF Act, files, At
<1>2. ASSUME NEW outcome \in Outcomes,
             Set(t, [thread[t] EXCEPT !.phase = "lock", !.id = <<Current(t), outcome>>])
      PROVE  /\ thread'[t].phase = "lock" /\ thread'[t].op = thread[t].op /\ Others(t)
             /\ thread'[t].id = <<Current(t), outcome>>
  <2> DEFINE r == [thread[t] EXCEPT !.phase = "lock", !.id = <<Current(t), outcome>>]
  <2>1. r.phase = "lock" /\ r.op = thread[t].op /\ r.id = <<Current(t), outcome>>
    BY DEF TypeInv, Thread
  <2>2. Set(t, r)
    BY <1>2
  <2> HIDE DEF r
  <2> QED
    BY <2>1, <2>2, Becomes
<1>3. CASE ActReturns(t)
  BY <1>1, <1>2, <1>3 DEF ActReturns, Outcomes
<1>4. CASE ActRaises(t)
  BY <1>1, <1>2, <1>4 DEF ActRaises, Outcomes
<1>5. CASE SummaryRaises(t)
  <2>1. /\ Set(t, Idle(thread[t].op)) /\ effects' = effects \cup {Current(t)}
        /\ unreported' = unreported \cup {Current(t)}
    BY <1>5 DEF SummaryRaises
  <2>2. Idle(thread[t].op).phase = "idle" /\ Idle(thread[t].op).op = thread[t].op
    BY IdleType DEF TypeInv, Thread
  <2> QED
    BY <1>1, <2>1, <2>2, Becomes
<1> QED
  BY <1>3, <1>4, <1>5 DEF Act

LEMMA LockDoes ==
    ASSUME TypeInv, NEW t \in Threads, Lock(t)
    PROVE  /\ Moves(t, "lock", "verify") /\ thread'[t].view = entries
           /\ lock[place[t]] = None /\ lock' = [lock EXCEPT ![place[t]] = t]
           /\ writers' = writers \cup {place[t]}
           /\ UNCHANGED <<entries, head, key, place, crashes, effects, unreported>>
<1> DEFINE r == [thread[t] EXCEPT !.phase = "verify", !.view = entries]
<1>1. r.phase = "verify" /\ r.op = thread[t].op /\ r.id = thread[t].id /\ r.view = entries
  BY DEF TypeInv, Thread
<1>2. /\ Set(t, r) /\ thread[t].phase = "lock"
      /\ lock[place[t]] = None /\ lock' = [lock EXCEPT ![place[t]] = t]
      /\ writers' = writers \cup {place[t]}
      /\ UNCHANGED <<entries, head, key, place, crashes, effects, unreported>>
  BY DEF Lock, files, At
<1> HIDE DEF r
<1> QED
  BY <1>1, <1>2, Becomes DEF Moves

LEMMA VerifyDoes ==
    ASSUME TypeInv, NEW t \in Threads, Verify(t)
    PROVE  /\ \/ /\ Valid(thread[t].view, head, key)
                 /\ Moves(t, "verify", "key") /\ lock' = lock
              \/ /\ ~Valid(thread[t].view, head, key)
                 /\ thread[t].phase = "verify" /\ thread'[t].phase = "idle"
                 /\ thread'[t].op = thread[t].op /\ Others(t)
                 /\ lock' = [lock EXCEPT ![place[t]] = None]
           /\ UNCHANGED <<entries, head, key, place, crashes, effects, unreported, writers>>
<1> DEFINE r == [thread[t] EXCEPT !.phase = "key", !.view = <<>>]
<1>1. r.phase = "key" /\ r.op = thread[t].op /\ r.id = thread[t].id
  BY DEF TypeInv, Thread
<1>2. thread[t].phase = "verify" /\ thread[t].op \in Nat
  BY DEF Verify, At, TypeInv, Thread
<1>3. Idle(thread[t].op).phase = "idle" /\ Idle(thread[t].op).op = thread[t].op
  BY <1>2, IdleType
<1>4. \/ Valid(thread[t].view, head, key) /\ Set(t, r) /\ lock' = lock
      \/ ~Valid(thread[t].view, head, key) /\ Set(t, Idle(thread[t].op)) /\ Free(t)
  BY DEF Verify
<1>5. UNCHANGED <<entries, head, key, place, crashes, effects, unreported, writers>>
  BY DEF Verify, Quiet, files
<1> HIDE DEF r
<1> QED
  BY <1>1, <1>2, <1>3, <1>4, <1>5, Becomes DEF Moves, Free

LEMMA LoadKeyDoes ==
    ASSUME TypeInv, NEW t \in Threads, LoadKey(t)
    PROVE  /\ \/ key = None /\ Moves(t, "key", "make_key")
              \/ Moves(t, "key", "read") /\ thread'[t].mine = key
           /\ UNCHANGED <<entries, head, key, lock, place, crashes, effects, unreported, writers>>
<1> DEFINE r == [thread[t] EXCEPT !.phase = "make_key"]
           q == [thread[t] EXCEPT !.phase = "read", !.mine = key]
<1>1. /\ r.phase = "make_key" /\ r.op = thread[t].op /\ r.id = thread[t].id
      /\ q.phase = "read" /\ q.op = thread[t].op /\ q.id = thread[t].id /\ q.mine = key
  BY DEF TypeInv, Thread
<1>2. thread[t].phase = "key" /\ ((key = None /\ Set(t, r)) \/ Set(t, q))
  BY DEF LoadKey, At
<1>3. UNCHANGED <<entries, head, key, lock, place, crashes, effects, unreported, writers>>
  BY DEF LoadKey, Quiet, files
<1> HIDE DEF r, q
<1> QED
  BY <1>1, <1>2, <1>3, Becomes DEF Moves

LEMMA MakeKeyDoes ==
    ASSUME TypeInv, NEW t \in Threads, MakeKey(t)
    PROVE  /\ Moves(t, "make_key", "read") /\ thread'[t].mine = key' /\ key' = place[t]
           /\ UNCHANGED <<entries, head, lock, place, crashes, effects, unreported, writers>>
<1> DEFINE r == [thread[t] EXCEPT !.phase = "read", !.mine = place[t]]
<1>1. r.phase = "read" /\ r.op = thread[t].op /\ r.id = thread[t].id /\ r.mine = place[t]
  BY DEF TypeInv, Thread
<1>2. /\ thread[t].phase = "make_key" /\ Set(t, r) /\ key' = place[t]
      /\ UNCHANGED <<entries, head, lock, place, crashes, effects, unreported, writers>>
  BY DEF MakeKey, At, Quiet
<1> HIDE DEF r
<1> QED
  BY <1>1, <1>2, Becomes DEF Moves

LEMMA ReadEntriesDoes ==
    ASSUME TypeInv, NEW t \in Threads, ReadEntries(t)
    PROVE  /\ \/ thread[t].id \in Recorded /\ thread[t].phase = "read" /\ Returns(t)
              \/ /\ thread[t].id \notin Recorded /\ Moves(t, "read", "head")
                 /\ thread'[t].mine = thread[t].mine /\ lock' = lock
           /\ UNCHANGED <<entries, head, key, place, crashes, effects, unreported, writers>>
<1> DEFINE r == [thread[t] EXCEPT !.phase = "head"]
<1>1. r.phase = "head" /\ r.op = thread[t].op /\ r.id = thread[t].id /\ r.mine = thread[t].mine
  BY DEF TypeInv, Thread
<1>2. /\ thread[t].phase = "read"
      /\ \/ thread[t].id \in Recorded /\ Set(t, AfterAppend(t)) /\ Free(t)
         \/ thread[t].id \notin Recorded /\ Set(t, r) /\ lock' = lock
  BY DEF ReadEntries, At
<1>3. UNCHANGED <<entries, head, key, place, crashes, effects, unreported, writers>>
  BY DEF ReadEntries, Quiet, files
<1> HIDE DEF r
<1> QED
  BY <1>1, <1>2, <1>3, Becomes, AfterAppendPhase DEF Moves, Returns, Free

LEMMA BuildEntryDoes ==
    ASSUME TypeInv, NEW t \in Threads, BuildEntry(t)
    PROVE  /\ Moves(t, "head", "line") /\ thread[t].mine \in Processes
           /\ thread'[t].next.id = thread[t].id
           /\ thread'[t].next.sequence = head.sequence + 1
           /\ thread'[t].next.previous = head.hash
           /\ thread'[t].next.key = thread[t].mine
           /\ UNCHANGED <<entries, head, key, lock, place, crashes, effects, unreported, writers>>
<1> DEFINE x == [sequence |-> head.sequence + 1, id |-> thread[t].id,
                 previous |-> head.hash, hash |-> <<t, thread[t].id>>,
                 key |-> thread[t].mine]
           r == [thread[t] EXCEPT !.phase = "line", !.next = x]
<1>1. /\ x.id = thread[t].id /\ x.sequence = head.sequence + 1
      /\ x.previous = head.hash /\ x.key = thread[t].mine
  OBVIOUS
<1>2. thread[t].phase = "head" /\ Set(t, r)
  BY DEF BuildEntry, At
<1> HIDE DEF x
<1>3. r.phase = "line" /\ r.op = thread[t].op /\ r.id = thread[t].id /\ r.next = x
  BY DEF TypeInv, Thread
<1>4. UNCHANGED <<entries, head, key, lock, place, crashes, effects, unreported, writers>>
  BY DEF BuildEntry, Quiet, files
<1>5. thread[t].mine \in Processes
  BY <1>2 DEF TypeInv, ThreadOK
<1> HIDE DEF r
<1> QED
  BY <1>1, <1>2, <1>3, <1>4, <1>5, Becomes DEF Moves

\* The line is the last one, and the others are where they were.
LEMMA WriteLineDoes ==
    ASSUME TypeInv, NEW t \in Threads, WriteLine(t)
    PROVE  /\ Moves(t, "line", "point") /\ thread'[t].next = thread[t].next
           /\ thread[t].next \in Entry
           /\ Len(entries) \in Nat /\ Len(entries') = Len(entries) + 1
           /\ \A i \in 1..Len(entries) : entries'[i] = entries[i]
           /\ entries'[Len(entries) + 1] = thread[t].next
           /\ Recorded' = Recorded \cup {thread[t].next.id}
           /\ UNCHANGED <<head, key, lock, place, crashes, effects, unreported, writers>>
<1> DEFINE r == [thread[t] EXCEPT !.phase = "point"]
<1>1. /\ r.phase = "point" /\ r.op = thread[t].op /\ r.id = thread[t].id
      /\ r.next = thread[t].next
  BY DEF TypeInv, Thread
<1>2. /\ thread[t].phase = "line" /\ Set(t, r) /\ entries' = Append(entries, thread[t].next)
      /\ UNCHANGED <<head, key, lock, place, crashes, effects, unreported, writers>>
  BY DEF WriteLine, At, Quiet
<1>3. thread[t].next \in Entry /\ entries \in Seq(Entry)
  BY <1>2 DEF TypeInv, ThreadOK, TypeOK
<1>4. /\ Len(entries) \in Nat /\ Len(entries') = Len(entries) + 1
      /\ \A i \in 1..Len(entries) : entries'[i] = entries[i]
      /\ entries'[Len(entries) + 1] = thread[t].next
  BY <1>2, <1>3, AppendProperties
<1>5. Recorded' = Recorded \cup {thread[t].next.id}
  <2>1. \A x : x \in Recorded' <=> \E i \in 1..(Len(entries) + 1) : x = entries'[i].id
    BY <1>4 DEF Recorded
  <2>2. \A x : x \in Recorded <=> \E i \in 1..Len(entries) : x = entries[i].id
    BY DEF Recorded
  <2> QED
    BY <1>4, <2>1, <2>2
<1> HIDE DEF r
<1> QED
  BY <1>1, <1>2, <1>3, <1>4, <1>5, Becomes DEF Moves

LEMMA WriteHeadDoes ==
    ASSUME TypeInv, NEW t \in Threads, WriteHead(t)
    PROVE  /\ thread[t].phase = "point" /\ Returns(t) /\ thread[t].next \in Entry
           /\ head'.sequence = thread[t].next.sequence /\ head'.hash = thread[t].next.hash
           /\ head'.key = thread[t].next.key
           /\ UNCHANGED <<entries, key, place, crashes, effects, unreported, writers>>
<1>1. /\ thread[t].phase = "point" /\ Set(t, AfterAppend(t)) /\ Free(t)
      /\ head' = [sequence |-> thread[t].next.sequence, hash |-> thread[t].next.hash,
                  key |-> thread[t].next.key]
      /\ UNCHANGED <<entries, key, place, crashes, effects, unreported, writers>>
  BY DEF WriteHead, At, Quiet
<1>2. thread[t].next \in Entry
  BY <1>1 DEF TypeInv, ThreadOK
<1> QED
  BY <1>1, <1>2, Becomes, AfterAppendPhase DEF Returns, Free

LEMMA CrashDoes ==
    ASSUME TypeInv, NEW p \in Processes, Crash(p)
    PROVE  /\ \A u \in Threads : /\ thread'[u].op = thread[u].op
                                 /\ place[u] = p => thread'[u].phase = "idle"
                                 /\ place[u] # p => thread'[u] = thread[u]
           /\ lock' = [lock EXCEPT ![p] = None] /\ crashes' = crashes + 1
           /\ UNCHANGED <<entries, head, key, place, effects, unreported, writers>>
<1>1. \A u \in Threads :
        thread'[u] = IF place[u] = p THEN Idle(thread[u].op) ELSE thread[u]
  BY DEF Crash
<1>2. \A u \in Threads : thread[u].op \in Nat
  BY DEF TypeInv, Thread
<1>3. /\ lock' = [lock EXCEPT ![p] = None] /\ crashes' = crashes + 1
      /\ UNCHANGED <<entries, head, key, place, effects, unreported, writers>>
  BY DEF Crash, files
<1> QED
  BY <1>1, <1>2, <1>3, IdleType

(***************************************************************************)
(* The lock                                                                *)
(***************************************************************************)

\* Who is in append() holds the lock of its process, which is then a writer.
Held(t) == thread[t].phase \in Appending => lock[place[t]] = t /\ place[t] \in writers
HeldInv == \A t \in Threads : Held(t)

LEMMA StepHeldInv == TypeInv /\ HeldInv /\ [Next]_vars => HeldInv'
<1> SUFFICES ASSUME TypeInv, HeldInv, [Next]_vars PROVE HeldInv'
  OBVIOUS
<1>a. /\ \A t \in Threads : place[t] \in Processes /\ t # None
      /\ lock \in [Processes -> Threads \cup {None}]
  BY LedgerAssumption DEF TypeInv, TypeOK
<1> USE DEF HeldInv, Held
\* Locks and writers as they were, and nobody new is in append().
<1>b. ASSUME NEW t \in Threads, Others(t), lock' = lock, place' = place, writers' = writers,
             thread'[t].phase \in Appending => thread[t].phase \in Appending
      PROVE  HeldInv'
  BY <1>b DEF Others
\* t leaves append(): nobody else held its lock.
<1>c. ASSUME NEW t \in Threads, Others(t), lock' = [lock EXCEPT ![place[t]] = None],
             thread[t].phase \in Appending, thread'[t].phase \notin Appending,
             place' = place, writers' = writers
      PROVE  HeldInv'
  <2>1. ASSUME NEW u \in Threads, u # t PROVE Held(u)'
    <3> SUFFICES ASSUME thread[u].phase \in Appending PROVE Held(u)'
      BY <1>c, <2>1 DEF Others
    <3>1. place[u] # place[t]
      BY <1>c, <2>1
    <3> QED
      BY <1>a, <1>c, <2>1, <3>1 DEF Others
  <2> QED
    BY <1>c, <2>1
<1>1. ASSUME NEW t \in Threads, Begin(t) PROVE HeldInv'
  BY <1>1, <1>b, BeginDoes DEF Appending
<1>2. ASSUME NEW t \in Threads, AppendEvent(t) PROVE HeldInv'
  BY <1>2, <1>b, AppendEventDoes DEF Appending
<1>3. ASSUME NEW t \in Threads, Act(t) PROVE HeldInv'
  BY <1>3, <1>b, ActDoes DEF Appending
<1>4. ASSUME NEW t \in Threads, Lock(t) PROVE HeldInv'
  <2>1. /\ lock[place[t]] = None /\ lock' = [lock EXCEPT ![place[t]] = t] /\ Others(t)
        /\ writers' = writers \cup {place[t]} /\ place' = place
    BY <1>4, LockDoes DEF Moves
  <2>2. Held(t)'
    BY <1>a, <2>1
  <2>3. ASSUME NEW u \in Threads, u # t PROVE Held(u)'
    <3> SUFFICES ASSUME thread[u].phase \in Appending PROVE Held(u)'
      BY <2>1, <2>3 DEF Others
    <3>1. place[u] # place[t]
      BY <1>a, <2>1
    <3> QED
      BY <1>a, <2>1, <2>3, <3>1 DEF Others
  <2> QED
    BY <2>2, <2>3
<1>5. ASSUME NEW t \in Threads, Verify(t) PROVE HeldInv'
  BY <1>5, <1>b, <1>c, VerifyDoes DEF Moves, Appending
<1>6. ASSUME NEW t \in Threads, LoadKey(t) PROVE HeldInv'
  BY <1>6, <1>b, LoadKeyDoes DEF Moves, Appending
<1>7. ASSUME NEW t \in Threads, MakeKey(t) PROVE HeldInv'
  BY <1>7, <1>b, MakeKeyDoes DEF Moves, Appending
<1>8. ASSUME NEW t \in Threads, ReadEntries(t) PROVE HeldInv'
  BY <1>8, <1>b, <1>c, ReadEntriesDoes DEF Moves, Returns, Appending
<1>9. ASSUME NEW t \in Threads, BuildEntry(t) PROVE HeldInv'
  BY <1>9, <1>b, BuildEntryDoes DEF Moves, Appending
<1>10. ASSUME NEW t \in Threads, WriteLine(t) PROVE HeldInv'
  BY <1>10, <1>b, WriteLineDoes DEF Moves, Appending
<1>11. ASSUME NEW t \in Threads, WriteHead(t) PROVE HeldInv'
  BY <1>11, <1>c, WriteHeadDoes DEF Returns, Appending
<1>12. ASSUME NEW p \in Processes, Crash(p) PROVE HeldInv'
  <2>1. /\ \A u \in Threads : /\ place[u] = p => thread'[u].phase = "idle"
                              /\ place[u] # p => thread'[u] = thread[u]
        /\ lock' = [lock EXCEPT ![p] = None] /\ place' = place /\ writers' = writers
    BY <1>12, CrashDoes
  <2>2. ASSUME NEW u \in Threads PROVE Held(u)'
    BY <1>a, <2>1 DEF Appending
  <2> QED
    BY <2>2
<1>13. CASE UNCHANGED vars
  BY <1>13 DEF vars
<1> QED
  BY <1>1, <1>2, <1>3, <1>4, <1>5, <1>6, <1>7, <1>8, <1>9, <1>10, <1>11, <1>12, <1>13
     DEF Next, Run

\* One process at most has written the ledger: its appending thread is alone.
LEMMA AloneMeans ==
    ASSUME TypeInv, Alone, NEW p \in writers, NEW q \in writers
    PROVE  p = q
<1> SUFFICES ASSUME p # q PROVE FALSE
  OBVIOUS
<1>1. IsFiniteSet(writers) /\ Cardinality(writers) \in Nat
  BY FS_CardinalityType DEF TypeInv
<1>2. Cardinality({p}) = 1 /\ IsFiniteSet({p})
  BY FS_Singleton
<1>3. Cardinality({p} \cup {q}) = 2
  BY <1>2, FS_AddElement
<1>4. Cardinality({p} \cup {q}) <= Cardinality(writers)
  BY <1>1, FS_Subset
<1> QED
  BY <1>1, <1>3, <1>4 DEF Alone

LEMMA AloneAppender ==
    ASSUME TypeInv, HeldInv, Alone, NEW t \in Threads, NEW u \in Threads,
           thread[t].phase \in Appending, thread[u].phase \in Appending
    PROVE  t = u
BY AloneMeans DEF HeldInv, Held

\* Who was not alone stays in company.
LEMMA AloneBefore ==
    ASSUME TypeInv, [Next]_vars, Alone'
    PROVE  Alone
<1>1. writers \subseteq writers'
  BY DEF Next, Run, vars, Begin, AppendEvent, Act, Lock, Verify, LoadKey, MakeKey,
         ReadEntries, BuildEntry, WriteLine, WriteHead, Crash, Quiet
<1>2. IsFiniteSet(writers')
  BY StepTypeInv DEF TypeInv
<1>3. Cardinality(writers) <= Cardinality(writers') /\ IsFiniteSet(writers)
  BY <1>1, <1>2, FS_Subset
<1>4. Cardinality(writers) \in Nat /\ Cardinality(writers') \in Nat
  BY <1>2, <1>3, FS_CardinalityType
<1> QED
  BY <1>3, <1>4 DEF Alone

(***************************************************************************)
(* The entries around an effect                                            *)
(***************************************************************************)

Clean(o) == /\ o \notin effects
            /\ <<o, "completed">> \notin Recorded /\ <<o, "failed">> \notin Recorded
Announced(o) == <<o, "started">> \in Recorded

\* What the id that t is about to append says is so, and its contrary is not recorded.
Truthful(t) ==
    LET o == Current(t) IN
    \/ thread[t].id = <<o, "started">> /\ Clean(o)
    \/ /\ thread[t].id = <<o, "completed">> /\ o \in effects
       /\ Announced(o) /\ <<o, "failed">> \notin Recorded
    \/ /\ thread[t].id = <<o, "failed">>
       /\ Announced(o) /\ <<o, "completed">> \notin Recorded
    \/ \E e \in Events : thread[t].id = <<e, "event">>

\* Nothing is known of the calls that t has not made.
Unmade(t) == \A n \in Nat : n > thread[t].op =>
                /\ <<t, n>> \notin effects
                /\ \A s \in Stages : <<<<t, n>>, s>> \notin Recorded

Path(t) ==
    /\ thread[t].phase = "act" => Clean(Current(t)) /\ Announced(Current(t))
    /\ thread[t].phase \notin {"idle", "act"} => Truthful(t)
    /\ thread[t].phase = "line" => thread[t].next.id = thread[t].id
    /\ thread[t].phase = "point" => thread[t].id \in Recorded
    /\ Unmade(t)

PathInv == \A t \in Threads : Path(t)

LEMMA StepPathInv == TypeInv /\ PathInv /\ [Next]_vars => PathInv'
<1> SUFFICES ASSUME TypeInv, PathInv, [Next]_vars PROVE PathInv'
  OBVIOUS
<1>o. \A t \in Threads : thread[t].op \in Nat
  BY DEF TypeInv, Thread
<1>p. \A t \in Threads : Path(t)
  BY DEF PathInv
<1>i. ASSUME NEW t \in Threads, thread[t].phase = "act"
      PROVE  thread[t].id = <<Current(t), "started">>
  BY <1>i DEF TypeInv, ThreadOK
\* While entries and effects stay, the other threads are where they were.
<1>b. ASSUME entries' = entries, effects' = effects, NEW u \in Threads,
             thread'[u] = thread[u]
      PROVE  Path(u)'
  <2>1. Recorded' = Recorded
    BY <1>b DEF Recorded
  <2> QED
    BY <1>b, <1>p, <2>1 DEF Path, Truthful, Unmade, Clean, Announced, Current
<1>c. ASSUME entries' = entries, effects' = effects, NEW t \in Threads, Others(t), Path(t)'
      PROVE  PathInv'
  BY <1>b, <1>c DEF PathInv, Others
\* t goes on in its call, or gives it up.
<1>d. ASSUME entries' = entries, effects' = effects, NEW t \in Threads, Others(t),
             thread'[t].op = thread[t].op,
             \/ thread'[t].phase = "idle"
             \/ /\ thread'[t].id = thread[t].id /\ thread[t].phase \notin {"idle", "act"}
                /\ thread'[t].phase \notin {"idle", "act", "line", "point"}
      PROVE  PathInv'
  <2>1. Recorded' = Recorded
    BY <1>d DEF Recorded
  <2>2. Path(t)'
    BY <1>d, <1>p, <2>1 DEF Path, Truthful, Unmade, Clean, Announced, Current
  <2> QED
    BY <1>c, <1>d, <2>2
\* append() returns: to the action only when "started" is in the file.
<1>e. ASSUME entries' = entries, effects' = effects, NEW t \in Threads, Returns(t),
             thread[t].phase \notin {"idle", "act"}, thread[t].id \in Recorded
      PROVE  PathInv'
  <2>1. CASE thread'[t].phase = "idle"
    BY <1>d, <1>e, <2>1 DEF Returns
  <2>2. CASE thread'[t].phase = "act"
    <3>1. /\ thread'[t].op = thread[t].op /\ thread[t].id = <<Current(t), "started">>
          /\ Others(t)
      BY <1>e, <2>2 DEF Returns
    <3>2. Truthful(t) /\ Unmade(t) /\ Recorded' = Recorded /\ Current(t)' = Current(t)
      BY <1>e, <1>p, <3>1 DEF Path, Recorded, Current
    <3>3. Clean(Current(t)) /\ Announced(Current(t))
      BY <1>e, <3>1, <3>2 DEF Truthful, Announced
    <3>4. Clean(Current(t))' /\ Announced(Current(t))' /\ Unmade(t)'
      BY <1>e, <3>1, <3>2, <3>3 DEF Clean, Announced, Unmade
    <3> QED
      BY <1>c, <1>e, <2>2, <3>1, <3>4 DEF Path
  <2> QED
    BY <1>e, <2>1, <2>2 DEF Returns
<1>1. ASSUME NEW t \in Threads, Begin(t) PROVE PathInv'
  <2>1. /\ thread'[t].op = thread[t].op + 1 /\ Others(t)
        /\ entries' = entries /\ effects' = effects
        /\ \/ thread'[t].phase = "idle"
           \/ /\ thread'[t].phase = "lock"
              /\ thread'[t].id = <<<<t, thread[t].op + 1>>, "started">>
    BY <1>1, BeginDoes
  <2>2. Recorded' = Recorded /\ Current(t)' = <<t, thread[t].op + 1>>
    BY <2>1 DEF Recorded, Current
  <2>3. Clean(Current(t))'
    <3> DEFINE n == thread[t].op + 1
    <3>1. n \in Nat /\ n > thread[t].op
      BY <1>o
    <3> HIDE DEF n
    <3>2. <<t, n>> \notin effects /\ \A s \in Stages : <<<<t, n>>, s>> \notin Recorded
      BY <1>p, <3>1 DEF Path, Unmade
    <3>3. Current(t)' = <<t, n>>
      BY <2>2 DEF n
    <3> QED
      BY <2>1, <2>2, <3>2, <3>3 DEF Clean, Stages
  <2>4. Unmade(t)'
    BY <1>o, <1>p, <2>1, <2>2 DEF Path, Unmade
  <2>5. Path(t)'
    BY <2>1, <2>2, <2>3, <2>4 DEF Path, Truthful
  <2> QED
    BY <1>c, <2>1, <2>5
<1>2. ASSUME NEW t \in Threads, AppendEvent(t) PROVE PathInv'
  <2>1. /\ thread'[t].op = thread[t].op + 1 /\ Others(t)
        /\ entries' = entries /\ effects' = effects
        /\ thread'[t].phase = "lock" /\ \E e \in Events : thread'[t].id = <<e, "event">>
    BY <1>2, AppendEventDoes
  <2>2. Recorded' = Recorded
    BY <2>1 DEF Recorded
  <2>3. Unmade(t)'
    BY <1>o, <1>p, <2>1, <2>2 DEF Path, Unmade
  <2>4. Path(t)'
    BY <2>1, <2>3 DEF Path, Truthful
  <2> QED
    BY <1>c, <2>1, <2>4
<1>3. ASSUME NEW t \in Threads, Act(t) PROVE PathInv'
  <2>1. /\ thread[t].phase = "act"
        /\ thread'[t].op = thread[t].op /\ Others(t) /\ entries' = entries
        /\ effects' \in {effects, effects \cup {Current(t)}}
        /\ \/ /\ thread'[t].phase = "lock" /\ thread'[t].id = <<Current(t), "completed">>
              /\ effects' = effects \cup {Current(t)}
           \/ thread'[t].phase = "lock" /\ thread'[t].id = <<Current(t), "failed">>
           \/ thread'[t].phase = "idle"
    BY <1>3, ActDoes
  <2>2. Recorded' = Recorded /\ Current(t)' = Current(t)
    BY <2>1 DEF Recorded, Current
  <2>3. Clean(Current(t)) /\ Announced(Current(t)) /\ Unmade(t)
    BY <1>p, <2>1 DEF Path
  <2>4. thread'[t].phase = "lock" => Truthful(t)'
    BY <2>1, <2>2, <2>3 DEF Truthful, Clean, Announced
  <2>5. Unmade(t)'
    BY <1>o, <2>1, <2>2, <2>3 DEF Unmade, Current
  <2>6. Path(t)'
    BY <2>1, <2>4, <2>5 DEF Path
  <2>7. ASSUME NEW u \in Threads, u # t PROVE Path(u)'
    <3>1. thread'[u] = thread[u] /\ Path(u)
      BY <1>p, <2>1, <2>7 DEF Others
    <3>2. \A n : <<u, n>> \in effects' <=> <<u, n>> \in effects
      BY <2>1, <2>7 DEF Current
    <3> QED
      BY <2>2, <3>1, <3>2 DEF Path, Truthful, Unmade, Clean, Announced, Current
  <2> QED
    BY <2>6, <2>7 DEF PathInv
<1>4. ASSUME NEW t \in Threads, Lock(t) PROVE PathInv'
  BY <1>4, <1>d, LockDoes DEF Moves
<1>5. ASSUME NEW t \in Threads, Verify(t) PROVE PathInv'
  BY <1>5, <1>d, VerifyDoes DEF Moves
<1>6. ASSUME NEW t \in Threads, LoadKey(t) PROVE PathInv'
  BY <1>6, <1>d, LoadKeyDoes DEF Moves
<1>7. ASSUME NEW t \in Threads, MakeKey(t) PROVE PathInv'
  BY <1>7, <1>d, MakeKeyDoes DEF Moves
<1>8. ASSUME NEW t \in Threads, ReadEntries(t) PROVE PathInv'
  BY <1>8, <1>d, <1>e, ReadEntriesDoes DEF Moves
<1>9. ASSUME NEW t \in Threads, BuildEntry(t) PROVE PathInv'
  <2>1. /\ thread[t].phase = "head" /\ thread'[t].phase = "line"
        /\ thread'[t].op = thread[t].op /\ thread'[t].id = thread[t].id /\ Others(t)
        /\ thread'[t].next.id = thread[t].id /\ entries' = entries /\ effects' = effects
    BY <1>9, BuildEntryDoes DEF Moves
  <2>2. Recorded' = Recorded
    BY <2>1 DEF Recorded
  <2>3. Path(t)'
    BY <1>p, <2>1, <2>2 DEF Path, Truthful, Unmade, Clean, Announced, Current
  <2> QED
    BY <1>c, <2>1, <2>3
<1>10. ASSUME NEW t \in Threads, WriteLine(t) PROVE PathInv'
  <2>1. /\ thread[t].phase = "line" /\ thread'[t].phase = "point"
        /\ thread'[t].op = thread[t].op /\ thread'[t].id = thread[t].id /\ Others(t)
        /\ Recorded' = Recorded \cup {thread[t].next.id} /\ effects' = effects
    BY <1>10, WriteLineDoes DEF Moves
  <2>2. Path(t) /\ Truthful(t) /\ Recorded' = Recorded \cup {thread[t].id}
    BY <1>p, <2>1 DEF Path
  \* What is appended is about the current call of t, or an event.
  <2>3. \A u \in Threads, n \in Nat, s \in Stages :
          <<<<u, n>>, s>> = thread[t].id => u = t /\ n = thread[t].op
    BY <2>2 DEF Truthful, Stages, Current
  <2>4. Truthful(t)'
    BY <2>1, <2>2 DEF Truthful, Clean, Announced, Current
  <2>5. Unmade(t)'
    BY <1>o, <2>1, <2>2, <2>3 DEF Path, Unmade
  <2>6. Path(t)'
    BY <2>1, <2>2, <2>4, <2>5 DEF Path
  <2>7. ASSUME NEW u \in Threads, u # t PROVE Path(u)'
    <3>1. thread'[u] = thread[u] /\ Path(u)
      BY <1>p, <2>1, <2>7 DEF Others
    <3>2. \A n \in Nat, s \in Stages :
            <<<<u, n>>, s>> \in Recorded' <=> <<<<u, n>>, s>> \in Recorded
      BY <2>2, <2>3, <2>7
    <3>3. Unmade(u)'
      BY <2>1, <3>1, <3>2 DEF Path, Unmade
    <3>4. \A s \in Stages : <<Current(u), s>> \in Recorded' <=> <<Current(u), s>> \in Recorded
      BY <1>o, <3>2 DEF Current
    <3>5. Current(u)' = Current(u)
      BY <3>1 DEF Current
    <3>6. (thread[u].phase = "act" => Clean(Current(u)) /\ Announced(Current(u)))'
      BY <2>1, <3>1, <3>4, <3>5 DEF Path, Clean, Announced, Stages
    <3>7. (thread[u].phase \notin {"idle", "act"} => Truthful(u))'
      BY <2>1, <3>1, <3>4, <3>5 DEF Path, Truthful, Clean, Announced, Stages
    <3>8. (thread[u].phase = "point" => thread[u].id \in Recorded)'
      BY <2>1, <3>1 DEF Path
    <3> QED
      BY <3>1, <3>3, <3>6, <3>7, <3>8 DEF Path
  <2> QED
    BY <2>6, <2>7 DEF PathInv
<1>11. ASSUME NEW t \in Threads, WriteHead(t) PROVE PathInv'
  <2>1. thread[t].phase = "point" /\ Returns(t) /\ entries' = entries /\ effects' = effects
    BY <1>11, WriteHeadDoes
  <2> QED
    BY <1>e, <1>p, <2>1 DEF Path
<1>12. ASSUME NEW p \in Processes, Crash(p) PROVE PathInv'
  <2>1. /\ \A u \in Threads : /\ thread'[u].op = thread[u].op
                              /\ place[u] = p => thread'[u].phase = "idle"
                              /\ place[u] # p => thread'[u] = thread[u]
        /\ entries' = entries /\ effects' = effects
    BY <1>12, CrashDoes
  <2>2. Recorded' = Recorded
    BY <2>1 DEF Recorded
  <2>3. ASSUME NEW u \in Threads PROVE Path(u)'
    <3>1. CASE place[u] = p
      BY <1>p, <2>1, <2>2, <3>1 DEF Path, Unmade
    <3>2. CASE place[u] # p
      BY <1>b, <2>1, <3>2
    <3> QED
      BY <3>1, <3>2
  <2> QED
    BY <2>3 DEF PathInv
<1>13. CASE UNCHANGED vars
  BY <1>13, <1>b DEF vars, files, PathInv
<1> QED
  BY <1>1, <1>2, <1>3, <1>4, <1>5, <1>6, <1>7, <1>8, <1>9, <1>10, <1>11, <1>12, <1>13
     DEF Next, Run

\* EntriesStandForEffects, with the indices spelled out.
Standing ==
    /\ \A o \in effects : Announced(o)
    /\ \A o \in Operations, s \in Outcomes : \A i \in 1..Len(entries) :
          entries[i].id = <<o, s>> =>
              \E j \in 1..Len(entries) : j < i /\ entries[j].id = <<o, "started">>
    /\ \A o \in Operations : <<o, "completed">> \in Recorded =>
          o \in effects /\ <<o, "failed">> \notin Recorded

LEMMA StandingMeans == Standing => EntriesStandForEffects
<1> SUFFICES ASSUME Standing PROVE EntriesStandForEffects
  OBVIOUS
<1>1. \A id : id \in Recorded <=> Position(id) # {}
  BY DEF Recorded, Position
<1>2. \A id, i : i \in Position(id) <=> i \in 1..Len(entries) /\ entries[i].id = id
  BY DEF Position
<1>3. \A o \in effects : Position(<<o, "started">>) # {}
  BY <1>1 DEF Standing, Announced
<1>4. ASSUME NEW o \in Operations, NEW s \in Outcomes, NEW i \in Position(<<o, s>>)
      PROVE  \E j \in Position(<<o, "started">>) : j < i
  <2>1. i \in 1..Len(entries) /\ entries[i].id = <<o, s>>
    BY <1>2
  <2>2. \E j \in 1..Len(entries) : j < i /\ entries[j].id = <<o, "started">>
    BY <2>1 DEF Standing
  <2> QED
    BY <1>2, <2>2
<1>5. ASSUME NEW o \in Operations, Position(<<o, "completed">>) # {}
      PROVE  o \in effects /\ Position(<<o, "failed">>) = {}
  BY <1>1, <1>5 DEF Standing
<1> QED
  BY <1>3, <1>4, <1>5 DEF EntriesStandForEffects

LEMMA StepStanding == TypeInv /\ PathInv /\ Standing /\ [Next]_vars => Standing'
<1> SUFFICES ASSUME TypeInv, PathInv, Standing, [Next]_vars PROVE Standing'
  OBVIOUS
<1>b. ASSUME entries' = entries, effects' = effects PROVE Standing'
  BY <1>b DEF Standing, Announced, Recorded
<1>3. ASSUME NEW t \in Threads, Act(t) PROVE Standing'
  <2>1. /\ thread[t].phase = "act" /\ entries' = entries
        /\ effects' \in {effects, effects \cup {Current(t)}}
    BY <1>3, ActDoes
  <2>2. Announced(Current(t)) /\ Recorded' = Recorded
    BY <2>1 DEF PathInv, Path, Recorded
  <2>3. \A o \in effects' : Announced(o)'
    BY <2>1, <2>2 DEF Standing, Announced
  <2>4. \A o : o \in effects => o \in effects'
    BY <2>1
  <2> QED
    BY <2>1, <2>2, <2>3, <2>4 DEF Standing
<1>10. ASSUME NEW t \in Threads, WriteLine(t) PROVE Standing'
  <2> DEFINE n == Len(entries)
  <2>1. /\ thread[t].phase = "line" /\ n \in Nat /\ Len(entries') = n + 1
        /\ \A i \in 1..n : entries'[i] = entries[i]
        /\ entries'[n + 1] = thread[t].next
        /\ Recorded' = Recorded \cup {thread[t].next.id} /\ effects' = effects
    BY <1>10, WriteLineDoes DEF Moves
  <2>2. thread[t].next.id = thread[t].id /\ Truthful(t)
    BY <2>1 DEF PathInv, Path
  <2>3. \A o \in effects' : Announced(o)'
    BY <2>1 DEF Standing, Announced
  <2>4. ASSUME NEW o \in Operations, NEW s \in Outcomes, NEW i \in 1..Len(entries'),
               entries'[i].id = <<o, s>>
        PROVE  \E j \in 1..Len(entries') : j < i /\ entries'[j].id = <<o, "started">>
    <3>1. CASE i \in 1..n
      <4>1. entries[i].id = <<o, s>>
        BY <2>1, <2>4, <3>1
      <4>2. PICK j \in 1..n : j < i /\ entries[j].id = <<o, "started">>
        BY <3>1, <4>1 DEF Standing
      <4> QED
        BY <2>1, <4>2
    <3>2. CASE i = n + 1
      <4>1. thread[t].id = <<o, s>>
        BY <2>1, <2>2, <2>4, <3>2
      <4>2. Announced(o)
        BY <2>2, <4>1 DEF Truthful, Outcomes
      <4>3. PICK j \in 1..n : entries[j].id = <<o, "started">>
        BY <4>2 DEF Announced, Recorded
      <4>4. j \in 1..Len(entries') /\ j < i /\ entries'[j].id = <<o, "started">>
        BY <2>1, <3>2, <4>3
      <4> QED
        BY <4>4
    <3> QED
      BY <2>1, <3>1, <3>2
  \* "failed" is not appended beside "completed", nor "completed" without an effect.
  <2>5. ASSUME NEW o \in Operations, <<o, "completed">> \in Recorded'
        PROVE  o \in effects' /\ <<o, "failed">> \notin Recorded'
    <3>1. CASE <<o, "completed">> \in Recorded
      <4>1. o \in effects /\ <<o, "failed">> \notin Recorded
        BY <3>1 DEF Standing
      <4>2. thread[t].id # <<o, "failed">>
        BY <2>2, <3>1 DEF Truthful
      <4> QED
        BY <2>1, <2>2, <4>1, <4>2
    <3>2. CASE thread[t].id = <<o, "completed">>
      <4>1. o \in effects /\ <<o, "failed">> \notin Recorded
        BY <2>2, <3>2 DEF Truthful
      <4> QED
        BY <2>1, <2>2, <3>2, <4>1
    <3> QED
      BY <2>1, <2>2, <2>5, <3>1, <3>2
  <2> QED
    BY <2>3, <2>4, <2>5 DEF Standing
\* Nothing else writes entries or has an effect.
<1>1. ASSUME NEW t \in Threads, ~Act(t), ~WriteLine(t), Begin(t) \/ AppendEvent(t) \/ Run(t)
      PROVE  entries' = entries /\ effects' = effects
  BY <1>1 DEF Run, Begin, AppendEvent, Lock, Verify, LoadKey, MakeKey, ReadEntries,
              BuildEntry, WriteHead, Quiet, files
<1>2. ASSUME NEW p \in Processes, Crash(p) PROVE entries' = entries /\ effects' = effects
  BY <1>2 DEF Crash, files
<1>4. CASE UNCHANGED vars
  BY <1>4, <1>b DEF vars, files
<1> QED
  BY <1>b, <1>1, <1>2, <1>3, <1>4, <1>10 DEF Next

\* An action takes effect only after its "started" entry is in the file, an outcome
\* comes after "started", and "completed" stands for an effect and never beside
\* "failed", whatever is repeated and whoever dies (runtime/gateway.py, _ledgered).
THEOREM EffectsAreBracketed == Spec => []EntriesStandForEffects
<1>1. Init => PathInv /\ Standing
  <2> SUFFICES ASSUME Init PROVE PathInv /\ Standing
    OBVIOUS
  <2>1. Recorded = {} /\ effects = {} /\ Len(entries) = 0
    BY DEF Init, Recorded
  <2>2. \A t \in Threads : thread[t].phase = "idle"
    BY IdleType DEF Init
  <2>3. Standing
    BY <2>1 DEF Standing
  <2>4. PathInv
    BY <2>1, <2>2 DEF PathInv, Path, Unmade
  <2> QED
    BY <2>3, <2>4
<1> QED
  BY InitTypeInv, StepTypeInv, StepPathInv, StepStanding, StandingMeans, <1>1, PTL DEF Spec

(***************************************************************************)
(* One writer                                                              *)
(***************************************************************************)

\* One writer appends no id twice: who passed the look for it is alone.
FreshInv ==
    /\ IdsUnique
    /\ Alone => \A t \in Threads :
          thread[t].phase \in {"head", "line"} => thread[t].id \notin Recorded

LEMMA StepFreshInv ==
    TypeInv /\ HeldInv /\ PathInv /\ FreshInv /\ [Next]_vars => FreshInv'
<1> SUFFICES ASSUME TypeInv, HeldInv, PathInv, FreshInv, [Next]_vars PROVE FreshInv'
  OBVIOUS
<1> SUFFICES ASSUME Alone' PROVE FreshInv'
  BY DEF FreshInv, IdsUnique
<1>a. Alone
  BY AloneBefore
<1>b. /\ \A i, j \in 1..Len(entries) : entries[i].id = entries[j].id => i = j
      /\ \A t \in Threads :
            thread[t].phase \in {"head", "line"} => thread[t].id \notin Recorded
  BY <1>a DEF FreshInv, IdsUnique
\* The entries stay, and who is to append an id was to append it or looked for it.
<1>c. ASSUME entries' = entries, NEW t \in Threads, Others(t),
             thread'[t].phase \in {"head", "line"} => thread'[t].id \notin Recorded
      PROVE  FreshInv'
  <2>1. Recorded' = Recorded
    BY <1>c DEF Recorded
  <2>2. \A u \in Threads : thread'[u].phase \in {"head", "line"} => thread'[u].id \notin Recorded
    BY <1>b, <1>c DEF Others
  <2> QED
    BY <1>b, <1>c, <2>1, <2>2 DEF FreshInv, IdsUnique
<1>1. ASSUME NEW t \in Threads, Begin(t) PROVE FreshInv'
  BY <1>1, <1>c, BeginDoes
<1>2. ASSUME NEW t \in Threads, AppendEvent(t) PROVE FreshInv'
  BY <1>2, <1>c, AppendEventDoes
<1>3. ASSUME NEW t \in Threads, Act(t) PROVE FreshInv'
  BY <1>3, <1>c, ActDoes
<1>4. ASSUME NEW t \in Threads, Lock(t) PROVE FreshInv'
  BY <1>4, <1>c, LockDoes DEF Moves
<1>5. ASSUME NEW t \in Threads, Verify(t) PROVE FreshInv'
  BY <1>5, <1>c, VerifyDoes DEF Moves
<1>6. ASSUME NEW t \in Threads, LoadKey(t) PROVE FreshInv'
  BY <1>6, <1>c, LoadKeyDoes DEF Moves
<1>7. ASSUME NEW t \in Threads, MakeKey(t) PROVE FreshInv'
  BY <1>7, <1>c, MakeKeyDoes DEF Moves
<1>8. ASSUME NEW t \in Threads, ReadEntries(t) PROVE FreshInv'
  BY <1>8, <1>c, ReadEntriesDoes DEF Moves, Returns
<1>9. ASSUME NEW t \in Threads, BuildEntry(t) PROVE FreshInv'
  BY <1>9, <1>b, <1>c, BuildEntryDoes DEF Moves
<1>10. ASSUME NEW t \in Threads, WriteLine(t) PROVE FreshInv'
  <2> DEFINE n == Len(entries)
  <2>1. /\ thread[t].phase = "line" /\ thread'[t].phase = "point" /\ Others(t)
        /\ n \in Nat /\ Len(entries') = n + 1
        /\ \A i \in 1..n : entries'[i] = entries[i]
        /\ entries'[n + 1] = thread[t].next
    BY <1>10, WriteLineDoes DEF Moves
  <2>2. thread[t].next.id = thread[t].id /\ thread[t].id \notin Recorded
    BY <1>b, <2>1 DEF PathInv, Path
  <2>3. \A i \in 1..n : entries[i].id # thread[t].id
    BY <2>2 DEF Recorded
  <2>4. \A i, j \in 1..Len(entries') : entries'[i].id = entries'[j].id => i = j
    <3> SUFFICES ASSUME NEW i \in 1..(n + 1), NEW j \in 1..(n + 1),
                        entries'[i].id = entries'[j].id
                 PROVE  i = j
      BY <2>1
    <3>1. (i \in 1..n \/ i = n + 1) /\ (j \in 1..n \/ j = n + 1)
      BY <2>1
    <3> QED
      BY <1>b, <2>1, <2>2, <2>3, <3>1
  <2>5. \A u \in Threads : thread'[u].phase \notin {"head", "line"}
    BY <1>a, <2>1, AloneAppender DEF Others, Appending
  <2> QED
    BY <2>4, <2>5 DEF FreshInv, IdsUnique
<1>11. ASSUME NEW t \in Threads, WriteHead(t) PROVE FreshInv'
  BY <1>11, <1>c, WriteHeadDoes DEF Returns
<1>12. ASSUME NEW p \in Processes, Crash(p) PROVE FreshInv'
  <2>1. /\ \A u \in Threads : /\ place[u] = p => thread'[u].phase = "idle"
                              /\ place[u] # p => thread'[u] = thread[u]
        /\ entries' = entries
    BY <1>12, CrashDoes
  <2>2. Recorded' = Recorded
    BY <2>1 DEF Recorded
  <2>3. \A u \in Threads : thread'[u].phase \in {"head", "line"} => thread'[u].id \notin Recorded
    BY <1>b, <2>1
  <2> QED
    BY <1>b, <2>1, <2>2, <2>3 DEF FreshInv, IdsUnique
<1>13. CASE UNCHANGED vars
  BY <1>13, <1>b DEF vars, files, FreshInv, IdsUnique, Recorded
<1> QED
  BY <1>1, <1>2, <1>3, <1>4, <1>5, <1>6, <1>7, <1>8, <1>9, <1>10, <1>11, <1>12, <1>13
     DEF Next, Run

\* What the thread in append() of the only writer, that never crashed, knows of the files.
Knows(t) ==
    /\ thread[t].phase = "verify" => thread[t].view = entries
    /\ thread[t].phase = "make_key" => entries = <<>>
    /\ thread[t].phase \in {"read", "head"} => thread[t].mine = key
    /\ thread[t].phase = "line" => /\ thread[t].next.sequence = head.sequence + 1
                                   /\ thread[t].next.previous = head.hash
                                   /\ thread[t].next.key = key
    /\ thread[t].phase = "point" => /\ entries # <<>> /\ Chained(entries) /\ Signed(entries, key)
                                    /\ thread[t].next = entries[Len(entries)]

\* An effect of t has the entry of its outcome, or t is on its way to write it.
Owes(t) == \A n \in Nat : <<t, n>> \in effects \ unreported =>
    \E s \in Outcomes :
        \/ <<<<t, n>>, s>> \in Recorded
        \/ thread[t].phase \notin {"idle", "act"} /\ thread[t].id = <<<<t, n>>, s>>

Good == Valid(entries, head, key) /\ (entries = <<>> => head.hash = Genesis)

Steady == /\ (\A t \in Threads : thread[t].phase # "point") => Good
          /\ \A t \in Threads : Knows(t) /\ Owes(t)

SteadyInv == Alone /\ crashes = 0 => Steady

LEMMA StepSteadyInv ==
    TypeInv /\ HeldInv /\ PathInv /\ SteadyInv /\ [Next]_vars => SteadyInv'
<1> SUFFICES ASSUME TypeInv, HeldInv, PathInv, SteadyInv, [Next]_vars,
                    Alone', crashes' = 0
             PROVE  Steady'
  BY DEF SteadyInv
<1>t. /\ crashes \in Nat /\ entries \in Seq(Entry) /\ head \in HeadRecord
      /\ \A t \in Threads : thread[t].op \in Nat
  BY LedgerAssumption DEF TypeInv, TypeOK, Thread
<1>a. Alone /\ \A t, u \in Threads :
        thread[t].phase \in Appending /\ thread[u].phase \in Appending => t = u
  BY AloneBefore, AloneAppender
<1>0. crashes = 0 /\ \A p \in Processes : ~Crash(p)
  <2>1. ASSUME NEW p \in Processes, Crash(p) PROVE FALSE
    <3>1. crashes' = crashes + 1
      BY <2>1, CrashDoes
    <3> QED
      BY <1>t, <3>1
  <2>2. ASSUME NEW t \in Threads, Begin(t) \/ AppendEvent(t) \/ Run(t)
        PROVE  crashes' = crashes
    BY <2>2, BeginDoes, AppendEventDoes, ActDoes, LockDoes, VerifyDoes, LoadKeyDoes,
       MakeKeyDoes, ReadEntriesDoes, BuildEntryDoes, WriteLineDoes, WriteHeadDoes DEF Run
  <2>3. UNCHANGED vars => crashes' = crashes
    BY DEF vars
  <2> QED
    BY <2>1, <2>2, <2>3 DEF Next
<1>s. Steady
  BY <1>0, <1>a DEF SteadyInv
\* Who appends finds good files, unless it is to write the head.
<1>g. ASSUME NEW t \in Threads, thread[t].phase \in Appending \ {"point"} PROVE Good
  BY <1>a, <1>g, <1>s DEF Steady, Appending
\* The files and the effects stay: only t is of interest.
<1>c. ASSUME NEW t \in Threads, Others(t), thread[t].phase # "point",
             entries' = entries, head' = head, key' = key, effects' = effects, unreported' = unreported,
             thread'[t].phase # "point", Knows(t)', Owes(t)'
      PROVE  Steady'
  <2>1. Recorded' = Recorded /\ Good' = Good
    BY <1>c DEF Recorded, Good, Valid, Chained, Signed, HeadMatches
  <2>2. (\A u \in Threads : thread'[u].phase # "point") => Good'
    BY <1>c, <1>s, <2>1 DEF Steady, Others
  <2>3. ASSUME NEW u \in Threads, u # t PROVE Knows(u)' /\ Owes(u)'
    <3>1. thread'[u] = thread[u] /\ Knows(u) /\ Owes(u)
      BY <1>c, <1>s, <2>3 DEF Others, Steady
    <3>2. Knows(u)'
      BY <1>c, <3>1 DEF Knows, Chained, Signed
    <3>3. Owes(u)'
      BY <1>c, <2>1, <3>1 DEF Owes
    <3> QED
      BY <3>2, <3>3
  <2> QED
    BY <1>c, <2>2, <2>3 DEF Steady
<1>d. ASSUME NEW t \in Threads, entries' = entries, effects' = effects, unreported' = unreported,
             thread'[t].id = thread[t].id,
             thread[t].phase \notin {"idle", "act"}, thread'[t].phase \notin {"idle", "act"}
      PROVE  Owes(t)'
  <2>1. Recorded' = Recorded
    BY <1>d DEF Recorded
  <2> QED
    BY <1>d, <1>s, <2>1 DEF Steady, Owes
\* t has nothing to write but what is written.
<1>e. ASSUME NEW t \in Threads, entries' = entries, effects' = effects, unreported' = unreported,
             thread[t].phase \in {"idle", "act"} \/ thread[t].id \in Recorded
      PROVE  Owes(t)'
  <2>1. Recorded' = Recorded
    BY <1>e DEF Recorded
  <2> QED
    BY <1>e, <1>s, <2>1 DEF Steady, Owes
<1>1. ASSUME NEW t \in Threads, Begin(t) PROVE Steady'
  <2>1. /\ thread[t].phase = "idle" /\ thread'[t].phase \in {"idle", "lock"} /\ Others(t)
        /\ entries' = entries /\ head' = head /\ key' = key /\ effects' = effects /\ unreported' = unreported
    BY <1>1, BeginDoes
  <2> QED
    BY <1>c, <1>e, <2>1 DEF Knows
<1>2. ASSUME NEW t \in Threads, AppendEvent(t) PROVE Steady'
  <2>1. /\ thread[t].phase = "idle" /\ thread'[t].phase = "lock" /\ Others(t)
        /\ entries' = entries /\ head' = head /\ key' = key /\ effects' = effects /\ unreported' = unreported
    BY <1>2, AppendEventDoes
  <2> QED
    BY <1>c, <1>e, <2>1 DEF Knows
<1>3. ASSUME NEW t \in Threads, Act(t) PROVE Steady'
  <2>1. /\ thread[t].phase = "act" /\ thread'[t].phase \in {"lock", "idle"} /\ Others(t)
        /\ entries' = entries /\ head' = head /\ key' = key
        /\ effects' \in {effects, effects \cup {Current(t)}}
        /\ unreported' \in {unreported, unreported \cup {Current(t)}}
        /\ \/ thread'[t].phase = "lock" /\ \E s \in Outcomes : thread'[t].id = <<Current(t), s>>
           \/ unreported' = unreported \cup {Current(t)}
    BY <1>3, ActDoes DEF Outcomes
  <2>2. Recorded' = Recorded /\ Good' = Good
    BY <2>1 DEF Recorded, Good, Valid, Chained, Signed, HeadMatches
  <2>3. (\A u \in Threads : thread'[u].phase # "point") => Good'
    BY <1>s, <2>1, <2>2 DEF Steady, Others
  <2>4. Knows(t)' /\ Owes(t)'
    <3>1. Owes(t)
      BY <1>s DEF Steady
    <3>2. Knows(t)'
      BY <2>1 DEF Knows
    <3>3. ASSUME NEW n \in Nat, <<t, n>> \in effects' \ unreported'
          PROVE  \E s \in Outcomes :
                   \/ <<<<t, n>>, s>> \in Recorded'
                   \/ thread'[t].phase \notin {"idle", "act"} /\ thread'[t].id = <<<<t, n>>, s>>
      <4>1. CASE <<t, n>> = Current(t)
        BY <2>1, <3>3, <4>1
      <4>2. CASE <<t, n>> # Current(t)
        <5>1. <<t, n>> \in effects \ unreported
          BY <2>1, <3>3, <4>2
        <5> QED
          BY <2>1, <2>2, <3>1, <5>1 DEF Owes
      <4> QED
        BY <4>1, <4>2
    <3> QED
      BY <3>2, <3>3 DEF Owes
  <2>5. ASSUME NEW u \in Threads, u # t PROVE Knows(u)' /\ Owes(u)'
    <3>1. thread'[u] = thread[u] /\ Knows(u) /\ Owes(u)
      BY <1>s, <2>1, <2>5 DEF Others, Steady
    <3>2. \A n : <<u, n>> \in effects' \ unreported' => <<u, n>> \in effects \ unreported
      BY <2>1, <2>5 DEF Current
    <3>3. Knows(u)'
      BY <2>1, <3>1 DEF Knows, Chained, Signed
    <3>4. Owes(u)'
      BY <2>2, <3>1, <3>2 DEF Owes
    <3> QED
      BY <3>3, <3>4
  <2> QED
    BY <2>3, <2>4, <2>5 DEF Steady
<1>4. ASSUME NEW t \in Threads, Lock(t) PROVE Steady'
  <2>1. /\ thread[t].phase = "lock" /\ thread'[t].phase = "verify" /\ Others(t)
        /\ thread'[t].id = thread[t].id /\ thread'[t].view = entries
        /\ entries' = entries /\ head' = head /\ key' = key /\ effects' = effects /\ unreported' = unreported
    BY <1>4, LockDoes DEF Moves
  <2>2. Knows(t)'
    BY <2>1 DEF Knows
  <2> QED
    BY <1>c, <1>d, <2>1, <2>2
\* verify() finds nothing wrong: the entries are those it has read.
<1>5. ASSUME NEW t \in Threads, Verify(t) PROVE Steady'
  <2>1. thread[t].phase = "verify"
    BY <1>5, VerifyDoes DEF Moves
  <2>2. Good /\ thread[t].view = entries
    BY <1>g, <1>s, <2>1 DEF Appending, Steady, Knows
  <2>3. /\ thread'[t].phase = "key" /\ thread'[t].id = thread[t].id /\ Others(t)
        /\ entries' = entries /\ head' = head /\ key' = key /\ effects' = effects /\ unreported' = unreported
    BY <1>5, <2>2, VerifyDoes DEF Moves, Good
  <2>4. Knows(t)'
    BY <2>3 DEF Knows
  <2> QED
    BY <1>c, <1>d, <2>1, <2>3, <2>4
<1>6. ASSUME NEW t \in Threads, LoadKey(t) PROVE Steady'
  <2>1. /\ thread[t].phase = "key" /\ thread'[t].id = thread[t].id /\ Others(t)
        /\ \/ key = None /\ thread'[t].phase = "make_key"
           \/ thread'[t].phase = "read" /\ thread'[t].mine = key
        /\ entries' = entries /\ head' = head /\ key' = key /\ effects' = effects /\ unreported' = unreported
    BY <1>6, LoadKeyDoes DEF Moves
  \* Entries are signed with some key: without a key there are none.
  <2>2. key = None => entries = <<>>
    <3> SUFFICES ASSUME key = None, entries # <<>> PROVE FALSE
      OBVIOUS
    <3>1. 1 \in 1..Len(entries) /\ entries[1] \in Entry
      BY <1>t
    <3>2. entries[1].key = None
      BY <1>g, <2>1, <3>1 DEF Appending, Good, Valid, Signed
    <3> QED
      BY <3>1, <3>2, LedgerAssumption DEF Entry
  <2>3. Knows(t)'
    BY <2>1, <2>2 DEF Knows
  <2>4. thread'[t].phase \in {"make_key", "read"}
    BY <2>1
  <2> QED
    BY <1>c, <1>d, <2>1, <2>3, <2>4
<1>7. ASSUME NEW t \in Threads, MakeKey(t) PROVE Steady'
  <2>1. /\ thread[t].phase = "make_key" /\ thread'[t].phase = "read" /\ Others(t)
        /\ thread'[t].id = thread[t].id /\ thread'[t].mine = key'
        /\ entries' = entries /\ head' = head /\ effects' = effects /\ unreported' = unreported
    BY <1>7, MakeKeyDoes DEF Moves
  <2>2. Good /\ entries = <<>>
    BY <1>g, <1>s, <2>1 DEF Appending, Steady, Knows
  <2>3. Good'
    BY <2>1, <2>2 DEF Good, Valid
  <2>4. Knows(t)' /\ Owes(t)'
    BY <1>d, <2>1 DEF Knows
  <2>5. ASSUME NEW u \in Threads, u # t PROVE Knows(u)' /\ Owes(u)'
    <3>1. thread'[u] = thread[u] /\ thread[u].phase \notin Appending
      BY <1>a, <2>1, <2>5 DEF Others, Appending
    <3>2. Owes(u) /\ Recorded' = Recorded
      BY <1>s, <2>1 DEF Steady, Recorded
    <3>3. Knows(u)'
      BY <3>1 DEF Knows, Appending
    <3>4. Owes(u)'
      BY <2>1, <3>1, <3>2 DEF Owes
    <3> QED
      BY <3>3, <3>4
  <2> QED
    BY <2>3, <2>4, <2>5 DEF Steady
<1>8. ASSUME NEW t \in Threads, ReadEntries(t) PROVE Steady'
  <2>1. /\ thread[t].phase = "read" /\ Others(t)
        /\ entries' = entries /\ head' = head /\ key' = key /\ effects' = effects /\ unreported' = unreported
    BY <1>8, ReadEntriesDoes DEF Moves, Returns
  <2>2. CASE thread[t].id \in Recorded
    <3>1. thread'[t].phase \in {"idle", "act"}
      BY <1>8, <2>2, ReadEntriesDoes DEF Returns
    <3>2. Knows(t)' /\ Owes(t)'
      BY <1>e, <2>1, <2>2, <3>1 DEF Knows
    <3> QED
      BY <1>c, <2>1, <3>1, <3>2
  <2>3. CASE thread[t].id \notin Recorded
    <3>1. /\ thread'[t].phase = "head" /\ thread'[t].id = thread[t].id
          /\ thread'[t].mine = thread[t].mine
      BY <1>8, <2>3, ReadEntriesDoes DEF Moves
    <3>2. Knows(t)
      BY <1>s DEF Steady
    <3>3. Knows(t)' /\ Owes(t)'
      BY <1>d, <2>1, <3>1, <3>2 DEF Knows
    <3> QED
      BY <1>c, <2>1, <3>1, <3>3
  <2> QED
    BY <2>2, <2>3
<1>9. ASSUME NEW t \in Threads, BuildEntry(t) PROVE Steady'
  <2>1. /\ thread[t].phase = "head" /\ thread'[t].phase = "line" /\ Others(t)
        /\ thread'[t].id = thread[t].id
        /\ thread'[t].next.sequence = head.sequence + 1
        /\ thread'[t].next.previous = head.hash /\ thread'[t].next.key = thread[t].mine
        /\ entries' = entries /\ head' = head /\ key' = key /\ effects' = effects /\ unreported' = unreported
    BY <1>9, BuildEntryDoes DEF Moves
  <2>2. thread[t].mine = key
    BY <1>s, <2>1 DEF Steady, Knows
  <2>3. Knows(t)'
    BY <2>1, <2>2 DEF Knows
  <2> QED
    BY <1>c, <1>d, <2>1, <2>3
\* The new line continues the last one, as the head file has it.
<1>10. ASSUME NEW t \in Threads, WriteLine(t) PROVE Steady'
  <2> DEFINE n == Len(entries)
  <2>1. /\ thread[t].phase = "line" /\ thread'[t].phase = "point" /\ Others(t)
        /\ thread'[t].id = thread[t].id /\ thread'[t].next = thread[t].next
        /\ n \in Nat /\ Len(entries') = n + 1
        /\ \A i \in 1..n : entries'[i] = entries[i]
        /\ entries'[n + 1] = thread[t].next
        /\ Recorded' = Recorded \cup {thread[t].next.id}
        /\ head' = head /\ key' = key /\ effects' = effects /\ unreported' = unreported
    BY <1>10, WriteLineDoes DEF Moves
  <2>2. /\ thread[t].next.sequence = head.sequence + 1
        /\ thread[t].next.previous = head.hash /\ thread[t].next.key = key
    BY <1>s, <2>1 DEF Steady, Knows
  <2>3. Good
    BY <1>g, <2>1 DEF Appending
  <2>4. /\ head.sequence = n /\ (n = 0 => head.hash = Genesis)
        /\ n > 0 => Chained(entries) /\ Signed(entries, key) /\ head.hash = entries[n].hash
    <3>1. CASE entries = <<>>
      BY <2>3, <3>1 DEF Good, Valid
    <3>2. CASE entries # <<>>
      <4>1. n > 0
        BY <1>t, <3>2
      <4> QED
        BY <2>3, <3>2, <4>1 DEF Good, Valid, HeadMatches
    <3> QED
      BY <3>1, <3>2
  <2>5. ASSUME NEW i \in 1..(n + 1)
        PROVE  /\ entries'[i].sequence = i /\ entries'[i].key = key
               /\ entries'[i].previous = IF i = 1 THEN Genesis ELSE entries'[i - 1].hash
    <3>1. CASE i = n + 1
      <4>1. CASE n = 0
        BY <2>1, <2>2, <2>4, <3>1, <4>1
      <4>2. CASE n > 0
        <5>1. n \in 1..n /\ i # 1 /\ i - 1 = n
          BY <2>1, <3>1, <4>2
        <5> QED
          BY <2>1, <2>2, <2>4, <3>1, <4>2, <5>1
      <4> QED
        BY <2>1, <4>1, <4>2
    <3>2. CASE i \in 1..n
      <4>1. entries[i].sequence = i /\ entries[i].key = key
        BY <2>1, <2>4, <3>2 DEF Chained, Signed
      <4>2. entries[i].previous = IF i = 1 THEN Genesis ELSE entries[i - 1].hash
        BY <2>1, <2>4, <3>2 DEF Chained
      <4>3. i # 1 => i - 1 \in 1..n
        BY <2>1, <3>2
      <4> QED
        BY <2>1, <3>2, <4>1, <4>2, <4>3
    <3> QED
      BY <2>1, <3>1, <3>2
  <2>6. Chained(entries') /\ Signed(entries', key')
    BY <2>1, <2>5 DEF Chained, Signed
  <2>7. entries' # <<>> /\ thread'[t].next = entries'[Len(entries')]
    BY <2>1
  <2>8. Knows(t)'
    BY <2>1, <2>6, <2>7 DEF Knows
  <2>9. ASSUME NEW u \in Threads PROVE Owes(u)'
    <3>1. Owes(u) /\ thread'[u].id = thread[u].id
      BY <1>s, <2>1 DEF Steady, Others
    <3>2. thread[u].phase \notin {"idle", "act"} => thread'[u].phase \notin {"idle", "act"}
      BY <2>1 DEF Others
    <3> QED
      BY <2>1, <3>1, <3>2 DEF Owes
  <2>10. ASSUME NEW u \in Threads, u # t PROVE Knows(u)'
    <3>1. thread'[u] = thread[u] /\ thread[u].phase \notin Appending
      BY <1>a, <2>1, <2>10 DEF Others, Appending
    <3> QED
      BY <3>1 DEF Knows, Appending
  <2> QED
    BY <2>1, <2>8, <2>9, <2>10 DEF Steady
<1>11. ASSUME NEW t \in Threads, WriteHead(t) PROVE Steady'
  <2>1. /\ thread[t].phase = "point" /\ Others(t) /\ thread'[t].phase \in {"idle", "act"}
        /\ head'.sequence = thread[t].next.sequence /\ head'.hash = thread[t].next.hash
        /\ head'.key = thread[t].next.key
        /\ entries' = entries /\ key' = key /\ effects' = effects /\ unreported' = unreported
    BY <1>11, WriteHeadDoes DEF Returns
  <2>2. /\ entries # <<>> /\ Chained(entries) /\ Signed(entries, key)
        /\ thread[t].next = entries[Len(entries)]
    BY <1>s, <2>1 DEF Steady, Knows
  <2>3. Len(entries) \in 1..Len(entries)
    BY <1>t, <2>2
  <2>4. Good'
    <3>1. HeadMatches(entries, head')
      BY <2>1, <2>2, <2>3 DEF HeadMatches, Chained
    <3>2. Chained(entries') /\ Signed(entries', key')
      BY <2>1, <2>2 DEF Chained, Signed
    <3> QED
      BY <2>1, <2>2, <3>1, <3>2 DEF Good, Valid
  <2>5. Owes(t)'
    BY <1>e, <2>1 DEF PathInv, Path
  <2>6. Knows(t)'
    BY <2>1 DEF Knows
  <2>7. ASSUME NEW u \in Threads, u # t PROVE Knows(u)' /\ Owes(u)'
    <3>1. thread'[u] = thread[u] /\ thread[u].phase \notin Appending
      BY <1>a, <2>1, <2>7 DEF Others, Appending
    <3>2. Owes(u) /\ Recorded' = Recorded
      BY <1>s, <2>1 DEF Steady, Recorded
    <3>3. Knows(u)'
      BY <3>1 DEF Knows, Appending
    <3>4. Owes(u)'
      BY <2>1, <3>1, <3>2 DEF Owes
    <3> QED
      BY <3>3, <3>4
  <2> QED
    BY <2>4, <2>5, <2>6, <2>7 DEF Steady
<1>12. CASE UNCHANGED vars
  <2>1. thread' = thread /\ entries' = entries /\ head' = head /\ key' = key /\ effects' = effects /\ unreported' = unreported
    BY <1>12 DEF vars, files
  <2>2. Recorded' = Recorded /\ Good' = Good
    BY <2>1 DEF Recorded, Good, Valid, Chained, Signed, HeadMatches
  <2> QED
    BY <1>s, <2>1, <2>2 DEF Steady, Knows, Owes, Chained, Signed
<1> QED
  BY <1>0, <1>1, <1>2, <1>3, <1>4, <1>5, <1>6, <1>7, <1>8, <1>9, <1>10, <1>11, <1>12
     DEF Next, Run

(***************************************************************************)
(* The properties of one writer                                            *)
(***************************************************************************)

\* The inductive invariant of the ledger: who holds the lock, what the ids on
\* their way say of effects and entries, and how the files and the one thread
\* that appends agree (operation_ledger.py, runtime/gateway.py).
Inv == TypeInv /\ HeldInv /\ PathInv /\ Standing /\ FreshInv /\ SteadyInv

THEOREM Invariant == Spec => []Inv
<1>1. Init => HeldInv /\ PathInv /\ Standing /\ FreshInv /\ SteadyInv
  <2> SUFFICES ASSUME Init PROVE HeldInv /\ PathInv /\ Standing /\ FreshInv /\ SteadyInv
    OBVIOUS
  <2>1. /\ Recorded = {} /\ effects = {} /\ Len(entries) = 0 /\ entries = <<>>
        /\ head.sequence = 0 /\ head.hash = Genesis
    BY DEF Init, Recorded, NoHead, Genesis
  <2>2. \A t \in Threads : thread[t].phase = "idle"
    BY IdleType DEF Init
  <2>3. HeldInv /\ Standing
    BY <2>1, <2>2 DEF HeldInv, Held, Appending, Standing
  <2>4. PathInv
    BY <2>1, <2>2 DEF PathInv, Path, Unmade
  <2>5. FreshInv
    BY <2>1, <2>2 DEF FreshInv, IdsUnique
  <2>6. SteadyInv
    BY <2>1, <2>2 DEF SteadyInv, Steady, Knows, Owes, Good, Valid
  <2> QED
    BY <2>3, <2>4, <2>5, <2>6
<1>2. Inv /\ [Next]_vars => Inv'
  BY StepTypeInv, StepHeldInv, StepPathInv, StepStanding, StepFreshInv, StepSteadyInv DEF Inv
<1>3. Init => Inv
  BY <1>1, InitTypeInv DEF Inv
<1> QED
  BY <1>2, <1>3, PTL DEF Spec

\* While one process writes the ledger and does not crash, its files verify
\* whenever none of its threads is appending (operation_ledger.py, verify).
THEOREM VerifiesAtRest == Spec => []VerifiedAtRest
<1>1. Inv => VerifiedAtRest
  BY DEF Inv, SteadyInv, Steady, Good, VerifiedAtRest, Resting, Appending, Damaged
<1> QED
  BY Invariant, <1>1, PTL

\* Every effect is announced before it happens, given one outcome when it has, even
\* where the action raises after it, and never called completed without it; and one
\* process appends no id twice (runtime/gateway.py).
THEOREM EveryEffectIsBracketed == Spec => []Bracketed
<1>1. Inv => EffectsRecorded
  <2> SUFFICES ASSUME Inv, Alone, crashes = 0, NEW o \in effects \ unreported
               PROVE  \E s \in Outcomes : <<o, s>> \in Recorded \/ thread[o[1]].id = <<o, s>>
    BY DEF EffectsRecorded
  <2>1. o \in Operations /\ \A t \in Threads : Quota[t] \in Nat
    BY LedgerAssumption DEF Inv, TypeInv, TypeOK
  <2>2. PICK t \in Threads : \E n \in 1..Quota[t] : o = <<t, n>>
    <3>1. PICK t \in Threads : o \in {t} \X (1..Quota[t])
      BY <2>1 DEF Operations
    <3> QED
      BY <3>1
  <2>4. PICK n \in 1..Quota[t] : o = <<t, n>>
    BY <2>2
  <2>3. n \in Nat /\ o[1] = t /\ Owes(t)
    BY <2>1, <2>4 DEF Inv, SteadyInv, Steady
  <2> QED
    BY <2>3, <2>4 DEF Owes
<1>2. Inv => EntriesStandForEffects /\ IdsUnique
  BY StandingMeans DEF Inv, FreshInv
<1> QED
  BY Invariant, <1>1, <1>2, PTL DEF Bracketed

=============================================================================
