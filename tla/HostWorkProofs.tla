--------------------------- MODULE HostWorkProofs ---------------------------
(***************************************************************************)
(* What the work for hosts keeps, for any number of hosts and handoffs,    *)
(* however old the copies of the task are that are saved, and however      *)
(* often a process dies or a claim or a lease expires: a save under the    *)
(* lease takes back no result that was accepted under one, and an item is  *)
(* answered once.                                                          *)
(***************************************************************************)
EXTENDS HostWork, TLAPS

(***************************************************************************)
(* Items, and what a host has where it is                                  *)
(***************************************************************************)

LEMMA ItemParts ==
    ASSUME NEW h \in Handoffs
    PROVE  /\ Image(h) \in Items /\ IsImage(Image(h)) /\ Image(h)[2] = h
           /\ Visual(h) \in Items /\ ~IsImage(Visual(h)) /\ Visual(h)[2] = h
BY DEF Image, Visual, Items, IsImage

LEMMA ItemIsOf ==
    ASSUME NEW i \in Items
    PROVE  i[2] \in Handoffs /\ i = IF IsImage(i) THEN Image(i[2]) ELSE Visual(i[2])
BY DEF Image, Visual, Items, IsImage

LEMMA NotNone ==
    /\ None \notin Items /\ None \notin Task /\ None \notin Hosts /\ None \notin Handoffs
    /\ \A s \in {"none", "available", "completed"} : s \notin Hosts
BY HostAssumption, NoneAssumption

Places == {"idle", "etag", "lease", "claim", "save", "attach", "run", "answer",
           "submit", "accept", "store", "callback", "consume", "prepare", "review",
           "reviewed", "look", "make", "done", "mark", "inspect", "inspected",
           "passed", "flawed", "revise", "revised", "fail"}

\* Where a host has a copy of the task.
Copying == {"store", "callback", "reviewed", "inspected", "revised"}

Verdicts == {"passed", "flawed"}

\* What a host must have to go on at pc: an item of the kind that is handled
\* there, an artifact to review, a lease that it acquired.
Ready(c, r, pc) ==
    /\ pc \in Places
    /\ pc \notin {"idle", "review", "reviewed", "look", "make", "done", "fail"} => r.item \in Items
    /\ pc \in {"accept", "store"} => IsImage(r.item)
    /\ pc \in {"inspect", "inspected"} \cup Verdicts => ~IsImage(r.item)
    /\ pc \in {"review", "reviewed", "look", "make"} => r.visual \in Handoffs
    /\ pc \in {"answer", "submit", "accept", "store", "inspect", "inspected"} \cup Verdicts
          => r.leased # "no"
    /\ pc \in {"claim", "save", "attach", "run"} /\ c \notin Clients => r.leased # "no"

\* A copy is kept from the load to the save, and has in it what it was loaded for.
Kept(r) ==
    /\ r.pc \in Copying <=> r.copy # None
    /\ r.pc = "store" => r.copy.hand[r.item[2]] = "completed"
    /\ r.pc = "inspected" => r.copy.qa[r.item[2]] \in Verdicts

Sound(c, r) == r \in Host /\ Ready(c, r, r.pc) /\ Kept(r) /\ (r.claim => r.item # None)

TypeInv == TypeOK /\ \A c \in Hosts : Sound(c, host[c])

LEMMA IdleSound ==
    \A c : /\ Sound(c, Idle) /\ Idle.pc = "idle" /\ Idle.leased = "no" /\ Idle.copy = None
           /\ Idle.item = None
BY DEF Idle, Sound, Ready, Kept, Host, Copying, Verdicts, Places

\* What a step and a load make of a host.
Moved(r, pc, s) == s = [r EXCEPT !.pc = pc]
Loaded(r, t, pc, s) == s = [r EXCEPT !.copy = t, !.pc = pc]

\* A step to another place keeps what the host has.
LEMMA MoveSound ==
    ASSUME NEW c, NEW r, Sound(c, r), NEW pc, Ready(c, r, pc), r.pc \notin Copying,
           pc \notin Copying, NEW s, Moved(r, pc, s)
    PROVE  /\ Sound(c, s) /\ s.pc = pc /\ s.item = r.item /\ s.leased = r.leased
           /\ s.copy = None /\ s.claim = r.claim
<1>1. /\ s \in Host /\ s.pc = pc /\ s.item = r.item /\ s.leased = r.leased
      /\ s.copy = r.copy /\ s.claim = r.claim /\ s.visual = r.visual
  BY DEF Sound, Ready, Host, Places, Moved
<1>2. r.copy = None
  BY DEF Sound, Kept
<1>3. Ready(c, s, pc)
  BY <1>1 DEF Ready
<1>4. Kept(s)
  BY <1>1, <1>2 DEF Kept, Copying
<1> QED
  BY <1>1, <1>2, <1>3, <1>4 DEF Sound

\* A load, or the last save of a copy.
LEMMA LoadSound ==
    ASSUME NEW c, NEW r, Sound(c, r), NEW pc, Ready(c, r, pc), NEW t \in Task \cup {None},
           pc \in Copying <=> t # None,
           pc = "store" => t.hand[r.item[2]] = "completed",
           pc = "inspected" => t.qa[r.item[2]] \in Verdicts,
           NEW s, Loaded(r, t, pc, s)
    PROVE  /\ Sound(c, s) /\ s.pc = pc /\ s.item = r.item /\ s.leased = r.leased
           /\ s.copy = t
<1>1. /\ s \in Host /\ s.pc = pc /\ s.item = r.item /\ s.leased = r.leased
      /\ s.copy = t /\ s.claim = r.claim /\ s.visual = r.visual
  BY DEF Sound, Ready, Host, Places, Loaded
<1>2. Ready(c, s, pc)
  BY <1>1 DEF Ready
<1>3. Kept(s)
  BY <1>1 DEF Kept
<1> QED
  BY <1>1, <1>2, <1>3 DEF Sound

\* Host c goes on with the record r, and the others stay.
Becomes(c, r) == host' = [host EXCEPT ![c] = r]

LEMMA BecomesDoes ==
    ASSUME TypeInv, NEW c \in Hosts, NEW r, Becomes(c, r), Sound(c, r)
    PROVE  /\ host' \in [Hosts -> Host] /\ \A d \in Hosts : Sound(d, host'[d])
           /\ host'[c] = r /\ \A d \in Hosts \ {c} : host'[d] = host[d]
<1>1. host \in [Hosts -> Host] /\ r \in Host
  BY DEF TypeInv, TypeOK, Sound
<1>2. host'[c] = r /\ \A d \in Hosts \ {c} : host'[d] = host[d]
  BY <1>1 DEF Becomes
<1>3. host' \in [Hosts -> Host]
  BY <1>1 DEF Becomes
<1> QED
  BY <1>2, <1>3 DEF TypeInv

\* What is left of the others, and how c goes on, in the three ways a host moves.
Going(c) ==
    /\ host' \in [Hosts -> Host] /\ \A d \in Hosts : Sound(d, host'[d])
    /\ \A d \in Hosts \ {c} : host'[d] = host[d]

LEMMA MovesDoes ==
    ASSUME TypeInv, NEW c \in Hosts, NEW pc, Moves(c, pc), Ready(c, host[c], pc),
           host[c].pc \notin Copying, pc \notin Copying
    PROVE  /\ Going(c)
           /\ host'[c].pc = pc /\ host'[c].item = host[c].item
           /\ host'[c].leased = host[c].leased /\ host'[c].copy = None
<1> DEFINE r == [host[c] EXCEPT !.pc = pc]
<1>1. Sound(c, host[c]) /\ host \in [Hosts -> Host]
  BY DEF TypeInv, TypeOK
<1>0. Moved(host[c], pc, r) /\ Becomes(c, r)
  BY DEF Moved, Moves, Becomes
<1> HIDE DEF r
<1>2. /\ Sound(c, r) /\ r.pc = pc /\ r.item = host[c].item /\ r.leased = host[c].leased
      /\ r.copy = None
  BY <1>1, <1>0, MoveSound
<1> QED
  BY <1>0, <1>2, BecomesDoes DEF Going

LEMMA LoadsDoes ==
    ASSUME TypeInv, NEW c \in Hosts, NEW pc, NEW t \in Task \cup {None}, Loads(c, t, pc),
           Ready(c, host[c], pc), pc \in Copying <=> t # None,
           pc = "store" => t.hand[host[c].item[2]] = "completed",
           pc = "inspected" => t.qa[host[c].item[2]] \in Verdicts
    PROVE  /\ Going(c)
           /\ host'[c].pc = pc /\ host'[c].item = host[c].item
           /\ host'[c].leased = host[c].leased /\ host'[c].copy = t
<1> DEFINE r == [host[c] EXCEPT !.copy = t, !.pc = pc]
<1>1. Sound(c, host[c]) /\ host \in [Hosts -> Host]
  BY DEF TypeInv, TypeOK
<1>0. Loaded(host[c], t, pc, r) /\ Becomes(c, r)
  BY <1>1 DEF Loaded, Loads, Becomes
<1> HIDE DEF r
<1>2. /\ Sound(c, r) /\ r.pc = pc /\ r.item = host[c].item /\ r.leased = host[c].leased
      /\ r.copy = t
  BY <1>1, <1>0, LoadSound
<1> QED
  BY <1>0, <1>2, BecomesDoes DEF Going

LEMMA ReturnDoes ==
    ASSUME TypeInv, NEW c \in Hosts, Return(c)
    PROVE  /\ Going(c) /\ host'[c] = Idle
           /\ cred' \in [Hosts -> {"active", "revoked", "replaced"}]
<1>1. Becomes(c, Idle)
  BY DEF Return, Becomes
<1>2. cred' \in [Hosts -> {"active", "revoked", "replaced"}]
  BY DEF Return, TypeInv, TypeOK
<1> QED
  BY <1>1, <1>2, BecomesDoes, IdleSound DEF Going

(***************************************************************************)
(* What a step does                                                        *)
(***************************************************************************)

\* The types of everything but the hosts.
Types ==
    /\ task \in Task /\ lease \in Hosts \cup {None} /\ work \in [Items -> Work]
    /\ cred \in [Hosts -> {"active", "revoked", "replaced"}]
    /\ giving \in [hand : Handoffs, copy : Task] \cup {None}
    /\ stale \subseteq Hosts /\ excused \subseteq Items /\ cut \subseteq Handoffs
    /\ lost \subseteq Handoffs /\ late \subseteq Handoffs /\ answers \in [Items -> 0..2]

\* What no step does to an item that is not excused, nor to a host whose answer
\* waits for its check.
Frame ==
    /\ excused \subseteq excused'
    /\ \A h \in Handoffs : task.hand[h] = "completed" =>
          task'.hand[h] = "completed" \/ Image(h) \in excused'
    /\ \A i \in Items : work[i] = "completed" /\ ~IsImage(i) =>
          work'[i] = "completed" \/ i \in excused'
    /\ \A d \in Hosts : At(d, "submit") /\ (d \in stale \/ lease # d) =>
          d \in stale' \/ lease' # d

\* Results that come into the task are late.
Unleased ==
    \A h \in Handoffs : task'.hand[h] = "completed" =>
       h \in late' \/ (task.hand[h] = "completed" /\ h \notin late)

\* A lease is taken when there is none, and given up by the host that has it.
LeaseKept(c) ==
    \/ lease' = lease /\ (host'[c].leased = "held" => host[c].leased = "held")
    \/ lease' = None /\ lease = c /\ host'[c].leased # "held"
    \/ lease' = c /\ lease = None

Pending(r, i) == r.item = i /\ r.pc \in {"accept", "store", "inspect", "inspected"}
Due(r, i) == r.item = i /\ r.pc \in {"store", "inspect", "inspected"}
Finishing(r, i) == r.item = i /\ r.pc \in Verdicts
Waiting(r, i) == r.item = i /\ r.pc = "submit"

\* A host completes an item whose answer it recorded.
Ends(c) ==
    \A i \in Items \ excused' :
       Finishing(host[c], i) => Finishing(host'[c], i) \/ work'[i] = "completed"

\* What host c does to its own copy and to the task.
Copies(c) ==
    /\ task' = task \/ (host[c].copy # None /\ task' = host[c].copy)
    /\ host[c].leased = "held" \/ Unleased
    /\ \/ host'[c].copy = None
       \/ \A h \in Handoffs : task'.hand[h] = "completed" => host'[c].copy.hand[h] = "completed"

\* How host c comes to answer an item.
Aside(c) == answers' = answers
            /\ host'[c].pc \notin {"submit", "accept", "store", "inspect", "inspected"}
Asks(c) ==
    /\ answers' = answers /\ lease' = lease
    /\ host[c].pc = "answer" /\ host'[c].pc = "submit" /\ host'[c].item = host[c].item
    /\ work[host[c].item] = c
    /\ \A d \in Hosts : host[d].leased = "over" /\ Finishing(host[d], host[c].item)
                           => host[c].item \in excused'
Enters(c) ==
    /\ answers' = answers /\ Leased(c)
    /\ host[c].pc = "submit" /\ host'[c].item = host[c].item
    /\ host'[c].pc = IF IsImage(host[c].item) THEN "accept" ELSE "inspect"
    /\ \A d \in Hosts : host[d].leased = "over" /\ Pending(host[d], host[c].item)
                           => host[c].item \in excused'
Begins(c) ==
    /\ answers' = answers /\ host'[c].item = host[c].item
    /\ \/ /\ host[c].pc = "accept" /\ host'[c].pc = "store"
          /\ IsImage(host[c].item) /\ task.hand[host[c].item[2]] = "waiting"
       \/ host[c].pc = "inspect" /\ host'[c].pc = "inspected"
Records(c) ==
    /\ answers' = Count(host[c].item) /\ host'[c].item = host[c].item /\ stale' = Hosts
    /\ \/ /\ host[c].pc = "store" /\ host'[c].pc = "callback" /\ IsImage(host[c].item)
          /\ task'.hand[host[c].item[2]] = "completed"
       \/ /\ host[c].pc = "inspected" /\ host'[c].pc \in Verdicts /\ ~IsImage(host[c].item)

Answering(c) == Aside(c) \/ Asks(c) \/ Enters(c) \/ Begins(c) \/ Records(c)

\* All of what a step of host c does.
Fine(c) == /\ Types' /\ Frame /\ Going(c)
           /\ LeaseKept(c) /\ Ends(c) /\ Copies(c) /\ Answering(c)

LEMMA TypeFacts ==
    ASSUME TypeInv
    PROVE  /\ Types /\ host \in [Hosts -> Host]
           /\ \A c \in Hosts : Sound(c, host[c]) /\ c # None
BY NotNone DEF TypeInv, TypeOK, Types

LEMMA TypeInvIntro ==
    ASSUME Types', host' \in [Hosts -> Host], \A c \in Hosts : Sound(c, host'[c])
    PROVE  TypeInv'
<1>1. \A c \in Hosts : /\ host'[c].pc \in {"store", "callback", "reviewed", "inspected", "revised"}
                              <=> host'[c].copy # None
                       /\ host'[c].claim => host'[c].item # None
  BY DEF Sound, Kept, Copying
<1> QED
  BY <1>1 DEF TypeInv, TypeOK, Types

\* A step of a host that leaves the task and its histories alone.
Quiet == UNCHANGED <<task, giving, answers, excused, lost, late>>

LEMMA QuietFrame ==
    ASSUME TypeInv, Quiet, lease' \in Hosts \cup {None}, work' \in [Items -> Work],
           cred' \in [Hosts -> {"active", "revoked", "replaced"}],
           stale' \subseteq Hosts, cut' \subseteq Handoffs,
           \A i \in Items : work[i] = "completed" /\ ~IsImage(i) => work'[i] = "completed",
           \A d \in Hosts : At(d, "submit") /\ (d \in stale \/ lease # d) =>
              d \in stale' \/ lease' # d
    PROVE  Types' /\ Frame /\ Unleased
<1>1. Types'
  BY TypeFacts DEF Quiet, Types
<1>2. Frame
  BY DEF Quiet, Frame
<1>3. Unleased
  BY DEF Quiet, Unleased
<1> QED
  BY <1>1, <1>2, <1>3

\* A host that only moves on.
LEMMA MoveFine ==
    ASSUME TypeInv, NEW c \in Hosts, NEW pc, Moves(c, pc), Ready(c, host[c], pc),
           host[c].pc \notin Copying \cup Verdicts, pc \notin Copying,
           pc \notin {"submit", "accept", "inspect"},
           Quiet, Types', Frame, Unleased, lease' = lease
    PROVE  Fine(c)
<1>1. /\ Going(c) /\ host'[c].pc = pc /\ host'[c].item = host[c].item
      /\ host'[c].leased = host[c].leased /\ host'[c].copy = None
  BY MovesDoes
<1>2. LeaseKept(c) /\ Ends(c)
  BY <1>1 DEF LeaseKept, Ends, Finishing
<1>3. Copies(c)
  BY <1>1 DEF Copies, Quiet
<1>4. Aside(c)
  BY <1>1 DEF Aside, Quiet, Copying
<1> QED
  BY <1>1, <1>2, <1>3, <1>4 DEF Fine, Answering

\* A host that has nothing more to do with its item.
LEMMA ReturnFine ==
    ASSUME TypeInv, NEW c \in Hosts, Return(c), host[c].pc \notin Verdicts,
           Quiet, Types', Frame, Unleased, lease' = lease \/ (lease = c /\ lease' = None)
    PROVE  Fine(c)
<1>1. Going(c) /\ host'[c] = Idle
  BY ReturnDoes
<1>2. /\ host'[c].pc = "idle" /\ host'[c].leased = "no" /\ host'[c].copy = None
  BY <1>1, IdleSound
<1>3. LeaseKept(c) /\ Ends(c)
  BY <1>2 DEF LeaseKept, Ends, Finishing
<1>4. Copies(c) /\ Aside(c)
  BY <1>2 DEF Copies, Aside, Quiet
<1> QED
  BY <1>1, <1>3, <1>4 DEF Fine, Answering

(***************************************************************************)
(* Taking work                                                             *)
(***************************************************************************)

LEMMA SyncedType ==
    ASSUME TypeInv
    PROVE  /\ Synced \in [Items -> Work]
           /\ \A i \in Items : ~IsImage(i) => Synced[i] = work[i]
<1>1. \A i \in Items : /\ Synced[i] \in {work[i], "completed", "available"}
                       /\ ~IsImage(i) => Synced[i] = work[i]
  BY DEF Synced
<1>2. DOMAIN Synced = Items /\ Synced = [i \in Items |-> Synced[i]]
  BY DEF Synced
<1>3. \A i \in Items : work[i] \in Work /\ Synced[i] \in Work
  BY <1>1, TypeFacts DEF Work, Types
<1> QED
  BY <1>1, <1>2, <1>3

LEMMA PickFine == ASSUME TypeInv, NEW c \in Hosts, Pick(c) PROVE Fine(c)
<1>1. PICK i \in Items : host' = [host EXCEPT ![c] = [Idle EXCEPT !.item = i,
                            !.pc = IF c \in Clients THEN "claim" ELSE "etag"]]
  BY DEF Pick
<1> DEFINE r == [Idle EXCEPT !.item = i, !.pc = IF c \in Clients THEN "claim" ELSE "etag"]
<1>2. r \in Host /\ r.item = i /\ r.copy = None /\ r.claim = FALSE
  BY IdleSound DEF Host, Idle, Sound
<1>3. r.pc = (IF c \in Clients THEN "claim" ELSE "etag") /\ r.leased = "no"
  BY DEF Idle
<1>4. Becomes(c, r)
  BY <1>1 DEF Becomes
<1> HIDE DEF r
<1>5. Sound(c, r)
  BY <1>2, <1>3, NotNone DEF Sound, Ready, Kept, Copying, Verdicts, Places
<1>6. Going(c) /\ host'[c] = r
  BY <1>4, <1>5, BecomesDoes DEF Going
<1>7. Quiet /\ lease' = lease /\ work' = Synced
  BY DEF Pick, Quiet, Same, History
<1>8. Types' /\ Frame /\ Unleased
  BY <1>7, QuietFrame, SyncedType, TypeFacts DEF Pick, Same, History, Types
<1>9. LeaseKept(c) /\ Ends(c) /\ Copies(c)
  BY <1>2, <1>3, <1>6, <1>7, <1>8 DEF LeaseKept, Ends, Finishing, Copies, Pick, At, Verdicts, Quiet
<1>10. Aside(c)
  BY <1>3, <1>6, <1>7 DEF Aside, Quiet
<1> QED
  BY <1>6, <1>8, <1>9, <1>10 DEF Fine, Answering

LEMMA EtagFine == ASSUME TypeInv, NEW c \in Hosts, Etag(c) PROVE Fine(c)
<1>1. /\ Quiet /\ lease' = lease /\ work' = work /\ cred' = cred /\ cut' = cut
      /\ stale' = stale \ {c} /\ Moves(c, "lease") /\ host[c].pc = "etag"
  BY DEF Etag, Quiet, Same, History, At
<1>2. Types' /\ Frame /\ Unleased
  BY <1>1, QuietFrame, TypeFacts DEF Types, At
<1>3. Ready(c, host[c], "lease")
  BY <1>1, TypeFacts DEF Sound, Ready, Verdicts, Places
<1> QED
  BY <1>1, <1>2, <1>3, MoveFine DEF Copying, Verdicts

\* What the steps that leave the task, the work and the etags alone have in common.
Still == Quiet /\ UNCHANGED <<work, cut, stale>>

LEMMA StillFrame ==
    ASSUME TypeInv, Still, lease' \in Hosts \cup {None},
           cred' \in [Hosts -> {"active", "revoked", "replaced"}],
           \A d \in Hosts : lease' = d => lease = d \/ ~At(d, "submit")
    PROVE  Types' /\ Frame /\ Unleased
BY QuietFrame, TypeFacts DEF Still, Types

LEMMA StillReturn ==
    ASSUME TypeInv, NEW c \in Hosts, Still, Return(c), host[c].pc \notin Verdicts,
           lease' = lease \/ (lease = c /\ lease' = None)
    PROVE  Fine(c)
<1>1. cred' \in [Hosts -> {"active", "revoked", "replaced"}]
  BY ReturnDoes
<1>2. Types' /\ Frame /\ Unleased
  BY <1>1, StillFrame, TypeFacts, NotNone DEF Types
<1> QED
  BY <1>2, ReturnFine DEF Still

LEMMA StillMove ==
    ASSUME TypeInv, NEW c \in Hosts, Still, lease' = lease, cred' = cred,
           NEW pc, Moves(c, pc), Ready(c, host[c], pc),
           host[c].pc \notin Copying \cup Verdicts, pc \notin Copying,
           pc \notin {"submit", "accept", "inspect"}
    PROVE  Fine(c)
<1>1. Types' /\ Frame /\ Unleased
  BY StillFrame, TypeFacts DEF Types
<1> QED
  BY <1>1, MoveFine DEF Still

LEMMA LeaseFine == ASSUME TypeInv, NEW c \in Hosts, Lease(c) PROVE Fine(c)
<1>1. Still /\ host[c].pc = "lease" /\ Sound(c, host[c])
  BY TypeFacts DEF Lease, Still, Quiet, Same, History, At
<1> DEFINE t == IF c \in Clients THEN "answer" ELSE "claim"
<1>2. CASE /\ lease = None /\ lease' = c /\ UNCHANGED cred
           /\ host' = [host EXCEPT ![c].leased = "held", ![c].pc = t]
  <2> DEFINE r == [host[c] EXCEPT !.leased = "held", !.pc = t]
  <2>1. Becomes(c, r)
    BY <1>2, TypeFacts DEF Becomes
  <2>2. /\ r \in Host /\ r.item = host[c].item /\ r.copy = host[c].copy /\ r.pc = t
        /\ r.claim = host[c].claim /\ r.leased = "held"
    BY <1>1 DEF Sound, Host
  <2> HIDE DEF r
  <2>3. Sound(c, r) /\ r.copy = None
    BY <1>1, <2>2 DEF Sound, Ready, Kept, Copying, Verdicts, Places
  <2>4. Going(c) /\ host'[c] = r
    BY <2>1, <2>3, BecomesDoes DEF Going
  <2>5. Types' /\ Frame /\ Unleased
    BY <1>1, <1>2, StillFrame, TypeFacts DEF Types, At
  <2>6. LeaseKept(c)
    BY <1>2 DEF LeaseKept
  <2>7. Ends(c)
    BY <1>1 DEF Ends, Finishing, Verdicts
  <2>8. Copies(c) /\ Aside(c)
    BY <1>1, <2>2, <2>3, <2>4, <2>5 DEF Copies, Aside, Still, Quiet
  <2> QED
    BY <2>4, <2>5, <2>6, <2>7, <2>8 DEF Fine, Answering
<1>3. CASE Return(c) /\ lease' = lease
  BY <1>1, <1>3, StillReturn DEF Verdicts
<1>4. CASE c \in Clients /\ Moves(c, "etag") /\ UNCHANGED <<lease, cred>>
  <2>1. Ready(c, host[c], "etag")
    BY <1>1 DEF Sound, Ready, Verdicts, Places
  <2> QED
    BY <1>1, <1>4, <2>1, StillMove DEF Copying, Verdicts
<1> QED
  BY <1>2, <1>3, <1>4 DEF Lease

LEMMA ClaimFine == ASSUME TypeInv, NEW c \in Hosts, Claim(c) PROVE Fine(c)
<1>1. /\ Still /\ lease' = lease /\ cred' = cred
      /\ host[c].pc = "claim" /\ Sound(c, host[c])
  BY TypeFacts DEF Claim, Still, Quiet, History, At
<1>2. Ready(c, host[c], "save") /\ Ready(c, host[c], "fail")
  BY <1>1 DEF Sound, Ready, Verdicts, Places
<1>3. Moves(c, "save") \/ Moves(c, "fail")
  BY DEF Claim
<1> QED
  BY <1>1, <1>2, <1>3, StillMove DEF Copying, Verdicts

\* What may be excused is an inspection of this item, whose work was completed.
LEMMA ReopensDoes ==
    ASSUME TypeInv, NEW i \in Items
    PROVE  /\ Reopens(i) \subseteq {i}
           /\ work[i] = "completed" /\ ~IsImage(i) => i \in Reopens(i)
BY DEF Reopens

\* An item that is saved anew, by a claim or a preparation.
LEMMA AnewFrame ==
    ASSUME TypeInv, NEW i \in Items, NEW w \in Work, work' = [work EXCEPT ![i] = w],
           excused' = excused \cup Reopens(i),
           UNCHANGED <<task, lease, cred, stale, giving, answers, cut, lost, late>>
    PROVE  Types' /\ Frame /\ Unleased
<1>1. Types'
  BY TypeFacts, ReopensDoes DEF Types
<1>2. Frame
  BY TypeFacts, ReopensDoes DEF Frame, Types
<1>3. Unleased
  BY DEF Unleased
<1> QED
  BY <1>1, <1>2, <1>3

LEMMA SaveClaimFine == ASSUME TypeInv, NEW c \in Hosts, SaveClaim(c) PROVE Fine(c)
<1>1. host[c].pc = "save" /\ Sound(c, host[c]) /\ Item(c) \in Items
  BY TypeFacts DEF SaveClaim, At, Sound, Ready, Item
<1> DEFINE r == [host[c] EXCEPT !.pc = "attach", !.claim = TRUE]
<1>2. Becomes(c, r)
  BY TypeFacts DEF Becomes, SaveClaim
<1>3. /\ r \in Host /\ r.item = host[c].item /\ r.copy = host[c].copy /\ r.pc = "attach"
      /\ r.leased = host[c].leased
  BY <1>1 DEF Sound, Host
<1> HIDE DEF r
<1>4. Sound(c, r) /\ r.copy = None
  BY <1>1, <1>3, NotNone DEF Sound, Ready, Kept, Copying, Verdicts, Places, Item
<1>5. Going(c) /\ host'[c] = r
  BY <1>2, <1>4, BecomesDoes DEF Going
<1>6. Types' /\ Frame /\ Unleased
  <2>1. c \in Work
    BY DEF Work
  <2> QED
    BY <1>1, <2>1, AnewFrame DEF SaveClaim
<1>7. LeaseKept(c) /\ Ends(c) /\ Copies(c) /\ Aside(c)
  BY <1>1, <1>3, <1>4, <1>5, <1>6
     DEF SaveClaim, LeaseKept, Ends, Finishing, Copies, Aside, Verdicts
<1> QED
  BY <1>5, <1>6, <1>7 DEF Fine, Answering

LEMMA AttachFine == ASSUME TypeInv, NEW c \in Hosts, Attach(c) PROVE Fine(c)
<1>1. Still /\ lease' = lease /\ host[c].pc = "attach" /\ Sound(c, host[c])
  BY TypeFacts DEF Attach, Still, Quiet, Same, History, At
<1>2. Ready(c, host[c], "run")
  BY <1>1 DEF Sound, Ready, Verdicts, Places
<1>3. (Moves(c, "run") /\ UNCHANGED cred) \/ Return(c)
  BY DEF Attach
<1> QED
  BY <1>1, <1>2, <1>3, StillMove, StillReturn DEF Copying, Verdicts

LEMMA RunFine == ASSUME TypeInv, NEW c \in Hosts, Run(c) \/ RunFails(c) PROVE Fine(c)
<1>1. Still /\ lease' = lease /\ cred' = cred /\ host[c].pc = "run" /\ Sound(c, host[c])
  BY TypeFacts DEF Run, RunFails, Still, Quiet, Same, History, At
<1>2. /\ Ready(c, host[c], "etag") /\ Ready(c, host[c], "fail")
      /\ c \notin Clients => Ready(c, host[c], "answer")
  BY <1>1 DEF Sound, Ready, Verdicts, Places
<1>3. Moves(c, "etag") \/ Moves(c, "fail") \/ (c \notin Clients /\ Moves(c, "answer"))
  BY DEF Run, RunFails
<1> QED
  BY <1>1, <1>2, <1>3, StillMove DEF Copying, Verdicts

LEMMA FailFine == ASSUME TypeInv, NEW c \in Hosts, Fail(c) PROVE Fine(c)
<1>1. /\ Still /\ Return(c) /\ host[c].pc = "fail"
      /\ lease' = lease \/ (lease = c /\ lease' = None)
  BY DEF Fail, Still, Quiet, Same, History, At
<1> QED
  BY <1>1, StillReturn DEF Verdicts

(***************************************************************************)
(* Saving a copy                                                           *)
(***************************************************************************)

Written(c) ==
    /\ host[c].copy # None /\ task' = host[c].copy
    /\ lost' = lost \cup TakenBack(host[c].copy)
    /\ late' = IF host[c].leased = "held"
               THEN late \ (TakenBack(host[c].copy) \cup Brought(host[c].copy))
               ELSE (late \ TakenBack(host[c].copy)) \cup Brought(host[c].copy)
    /\ excused' = excused \cup {Image(h) : h \in TakenBack(host[c].copy)}
    /\ cut' \subseteq Handoffs
    /\ UNCHANGED <<lease, work, cred, giving>>

LEMMA WrittenDoes ==
    ASSUME TypeInv, NEW c \in Hosts, Written(c), stale' \subseteq Hosts, stale \subseteq stale',
           answers' \in [Items -> 0..2]
    PROVE  /\ Types' /\ Frame /\ lease' = lease
           /\ host[c].leased = "held" \/ Unleased
<1>1. host[c].copy \in Task
  BY TypeFacts DEF Written, Sound, Host
<1>2. lost' \subseteq Handoffs /\ late' \subseteq Handoffs /\ excused' \subseteq Items
  BY TypeFacts, ItemParts DEF Written, TakenBack, Brought, Types
<1>3. Types'
  BY <1>1, <1>2, TypeFacts DEF Types, Written
<1>4. \A h \in Handoffs : task.hand[h] = "completed" =>
         task'.hand[h] = "completed" \/ Image(h) \in excused'
  BY DEF Written, TakenBack
<1>5. Frame
  BY <1>4 DEF Frame, Written
<1>6. CASE host[c].leased # "held"
  <2>1. \A h \in Handoffs : task'.hand[h] = "completed" =>
           h \in late' \/ (task.hand[h] = "completed" /\ h \notin late)
    BY <1>6 DEF Written, Brought, TakenBack
  <2> QED
    BY <1>3, <1>5, <2>1 DEF Unleased, Written
<1> QED
  BY <1>3, <1>5, <1>6 DEF Written

\* The save that is the last of its copy, and no answer.
LEMMA WriteFine ==
    ASSUME TypeInv, NEW c \in Hosts, Written(c), stale' \subseteq Hosts, stale \subseteq stale',
           UNCHANGED answers, NEW pc, Loads(c, None, pc), Ready(c, host[c], pc),
           host[c].pc \notin Verdicts, pc \notin Copying,
           pc \notin {"submit", "accept", "inspect"}
    PROVE  Fine(c)
<1>1. Types' /\ Frame /\ lease' = lease /\ (host[c].leased = "held" \/ Unleased)
  BY WrittenDoes, TypeFacts DEF Types
<1>2. /\ Going(c) /\ host'[c].pc = pc /\ host'[c].item = host[c].item
      /\ host'[c].leased = host[c].leased /\ host'[c].copy = None
  <2>1. pc \in Copying <=> None # None
    OBVIOUS
  <2>2. pc # "store" /\ pc # "inspected"
    BY DEF Copying
  <2> QED
    BY <2>1, <2>2, LoadsDoes
<1>3. LeaseKept(c) /\ Ends(c)
  BY <1>1, <1>2 DEF LeaseKept, Ends, Finishing
<1>4. Copies(c)
  BY <1>1, <1>2 DEF Copies, Written
<1>5. Aside(c)
  BY <1>2 DEF Aside, Copying
<1> QED
  BY <1>1, <1>2, <1>3, <1>4, <1>5 DEF Fine, Answering

\* A host that is at work has its record.
LEMMA CopyThere ==
    ASSUME TypeInv, NEW c \in Hosts, host[c].pc \in Copying
    PROVE  host[c].copy # None /\ host[c].copy \in Task
BY TypeFacts DEF Sound, Kept, Host

LEMMA SavesDoes ==
    ASSUME TypeInv, NEW c \in Hosts, host[c].pc \in Copying,
           Save(host[c].copy, host[c].leased = "held"), cut' \subseteq Handoffs,
           UNCHANGED <<lease, work, cred, giving>>
    PROVE  Written(c)
BY CopyThere DEF Save, Written

LEMMA AboutIs ==
    ASSUME TypeInv, NEW c \in Hosts, Item(c) \in Items
    PROVE  About(c) \in Handoffs
BY ItemIsOf DEF About

LEMMA CallbackFine == ASSUME TypeInv, NEW c \in Hosts, Callback(c) PROVE Fine(c)
<1>1. host[c].pc = "callback" /\ Sound(c, host[c]) /\ Item(c) \in Items
  BY TypeFacts DEF Callback, At, Sound, Ready, Item
<1>2. Written(c)
  BY <1>1, SavesDoes, AboutIs, TypeFacts DEF Callback, Saves, Copying, Overwritten, Types
<1>3. Ready(c, host[c], "consume")
  BY <1>1 DEF Sound, Ready, Verdicts, Places
<1>4. Loads(c, None, "consume") /\ stale' = Hosts /\ UNCHANGED answers
  BY DEF Callback
<1> QED
  BY <1>1, <1>2, <1>3, <1>4, WriteFine, TypeFacts DEF Copying, Verdicts, Types

LEMMA ReviewedFine == ASSUME TypeInv, NEW c \in Hosts, Reviewed(c) PROVE Fine(c)
<1>1. host[c].pc = "reviewed" /\ Sound(c, host[c]) /\ host[c].visual \in Handoffs
  BY TypeFacts DEF Reviewed, At, Sound, Ready
<1>2. Written(c)
  BY <1>1, SavesDoes, TypeFacts DEF Reviewed, Saves, Copying, Overwritten, Types
<1>3. Ready(c, host[c], "look")
  BY <1>1 DEF Sound, Ready, Verdicts, Places
<1>4. Loads(c, None, "look") /\ stale' = Hosts /\ UNCHANGED answers
  BY DEF Reviewed
<1> QED
  BY <1>1, <1>2, <1>3, <1>4, WriteFine, TypeFacts DEF Copying, Verdicts, Types

LEMMA RevisedFine == ASSUME TypeInv, NEW c \in Hosts, Revised(c) PROVE Fine(c)
<1>1. host[c].pc = "revised" /\ Sound(c, host[c]) /\ Item(c) \in Items
  BY TypeFacts DEF Revised, At, Sound, Ready, Item
<1>2. Written(c)
  BY <1>1, SavesDoes, AboutIs, TypeFacts DEF Revised, Saves, Copying, Overwritten, Types
<1>3. Ready(c, host[c], "consume")
  BY <1>1 DEF Sound, Ready, Verdicts, Places
<1>4. /\ Loads(c, None, "consume") /\ UNCHANGED answers
      /\ stale' \subseteq Hosts /\ stale \subseteq stale'
  BY TypeFacts DEF Revised, Types
<1> QED
  BY <1>1, <1>2, <1>3, <1>4, WriteFine DEF Copying, Verdicts

LEMMA CountDoes ==
    ASSUME TypeInv, NEW i \in Items, answers' = Count(i)
    PROVE  /\ answers' \in [Items -> 0..2]
           /\ answers[i] = 0 => answers'[i] = 1
           /\ \A j \in Items \ {i} : answers'[j] = answers[j]
BY TypeFacts DEF Count, Types

LEMMA StoreFine == ASSUME TypeInv, NEW c \in Hosts, Store(c) PROVE Fine(c)
<1>1. host[c].pc = "store" /\ Sound(c, host[c]) /\ Item(c) \in Items
  BY TypeFacts DEF Store, At, Sound, Ready, Item
<1>2. Written(c)
  BY <1>1, SavesDoes, AboutIs, TypeFacts DEF Store, Saves, Copying, Overwritten, Types
<1>3. /\ Types' /\ Frame /\ lease' = lease
      /\ host[c].leased = "held" \/ Unleased
  BY <1>1, <1>2, WrittenDoes, CountDoes, TypeFacts DEF Store, Types
<1> DEFINE r == [host[c] EXCEPT !.pc = "callback"]
<1>4. Becomes(c, r)
  BY DEF Store, Moves, Becomes
<1>5. /\ r \in Host /\ r.item = host[c].item /\ r.copy = host[c].copy /\ r.pc = "callback"
      /\ r.leased = host[c].leased /\ r.claim = host[c].claim /\ r.visual = host[c].visual
  BY <1>1 DEF Sound, Host
<1> HIDE DEF r
<1>6. Sound(c, r)
  BY <1>1, <1>5 DEF Sound, Ready, Kept, Copying, Verdicts, Places
<1>7. Going(c) /\ host'[c] = r
  BY <1>4, <1>6, BecomesDoes DEF Going
<1>8. LeaseKept(c) /\ Ends(c)
  BY <1>1, <1>3, <1>5, <1>7 DEF LeaseKept, Ends, Finishing, Verdicts
<1>9. Copies(c)
  BY <1>2, <1>3, <1>5, <1>7 DEF Copies, Written
<1>10. Records(c)
  <2>1. IsImage(host[c].item) /\ task'.hand[host[c].item[2]] = "completed"
    BY <1>1, <1>2 DEF Written, Sound, Ready, Kept
  <2> QED
    BY <1>1, <1>5, <1>7, <2>1 DEF Records, Store, Item
<1> QED
  BY <1>3, <1>7, <1>8, <1>9, <1>10 DEF Fine, Answering

LEMMA InspectedFine == ASSUME TypeInv, NEW c \in Hosts, Inspected(c) PROVE Fine(c)
<1>1. /\ host[c].pc = "inspected" /\ Sound(c, host[c]) /\ Item(c) \in Items
      /\ host[c].copy.qa[About(c)] \in Verdicts
  BY TypeFacts DEF Inspected, At, Sound, Ready, Kept, Item, About
<1>2. Written(c)
  BY <1>1, SavesDoes, AboutIs, TypeFacts DEF Inspected, Saves, Copying, Overwritten, Types
<1>3. /\ Types' /\ Frame /\ lease' = lease
      /\ host[c].leased = "held" \/ Unleased
  BY <1>1, <1>2, WrittenDoes, CountDoes, TypeFacts DEF Inspected, Types
<1>4. PICK pc \in Verdicts : Loads(c, None, pc)
  BY <1>1 DEF Inspected
<1>5. Ready(c, host[c], pc)
  BY <1>1 DEF Sound, Ready, Verdicts, Places
<1>6. /\ Going(c) /\ host'[c].pc = pc /\ host'[c].item = host[c].item
      /\ host'[c].leased = host[c].leased /\ host'[c].copy = None
  <2>1. (pc \in Copying <=> None # None) /\ pc # "store" /\ pc # "inspected"
    BY DEF Copying, Verdicts
  <2> QED
    BY <1>4, <1>5, <2>1, LoadsDoes
<1>7. LeaseKept(c) /\ Ends(c)
  BY <1>1, <1>3, <1>6 DEF LeaseKept, Ends, Finishing, Verdicts
<1>8. Copies(c)
  BY <1>2, <1>3, <1>6 DEF Copies, Written
<1>9. Records(c)
  <2>1. ~IsImage(host[c].item)
    BY <1>1 DEF Sound, Ready
  <2> QED
    BY <1>1, <1>6, <2>1 DEF Records, Inspected, Item
<1> QED
  BY <1>3, <1>6, <1>7, <1>8, <1>9 DEF Fine, Answering

(***************************************************************************)
(* Loads                                                                   *)
(***************************************************************************)

\* A load leaves everything else alone, and the copy has the results of the task.
LEMMA LoadFine ==
    ASSUME TypeInv, NEW c \in Hosts, Still, lease' = lease, cred' = cred,
           NEW pc \in Copying, NEW t \in Task, Loads(c, t, pc), Ready(c, host[c], pc),
           pc = "store" => t.hand[host[c].item[2]] = "completed",
           pc = "inspected" => t.qa[host[c].item[2]] \in Verdicts,
           host[c].pc \notin Verdicts,
           \A h \in Handoffs : task.hand[h] = "completed" => t.hand[h] = "completed"
    PROVE  /\ Types' /\ Frame /\ Going(c) /\ LeaseKept(c) /\ Ends(c) /\ Copies(c)
           /\ host'[c].pc = pc /\ host'[c].item = host[c].item
<1>1. Types' /\ Frame /\ Unleased
  BY StillFrame, TypeFacts DEF Types
<1>2. /\ Going(c) /\ host'[c].pc = pc /\ host'[c].item = host[c].item
      /\ host'[c].leased = host[c].leased /\ host'[c].copy = t
  BY LoadsDoes, NotNone
<1>3. LeaseKept(c) /\ Ends(c)
  BY <1>2 DEF LeaseKept, Ends, Finishing
<1>4. Copies(c)
  BY <1>1, <1>2 DEF Copies, Still, Quiet
<1> QED
  BY <1>1, <1>2, <1>3, <1>4

\* What becomes of a task that is loaded.
Result(h) == [task EXCEPT !.hand[h] = "completed", !.qa[h] = "unseen", !.last = h]
Seen(h, v) == [task EXCEPT !.qa[h] = v]
Found(h) == [task EXCEPT !.qa[h] = "flawed", !.plans = @ \cup {h}]
Job(h) == [task EXCEPT !.jobs = @ \cup {h}]

LEMMA LoadedTask ==
    ASSUME TypeInv, NEW h \in Handoffs
    PROVE  /\ Result(h) \in Task /\ Result(h).hand[h] = "completed"
           /\ \A g \in Handoffs : task.hand[g] = "completed" => Result(h).hand[g] = "completed"
           /\ \A v \in {"not-run", "passed"} : /\ Seen(h, v) \in Task /\ Seen(h, v).hand = task.hand
                                               /\ Seen(h, v).qa[h] = v
           /\ Found(h) \in Task /\ Found(h).hand = task.hand /\ Found(h).qa[h] = "flawed"
           /\ Job(h) \in Task /\ Job(h).hand = task.hand
<1>1. task \in Task
  BY TypeFacts DEF Types
<1>2. /\ Result(h) \in Task /\ Result(h).hand[h] = "completed"
      /\ \A g \in Handoffs : task.hand[g] = "completed" => Result(h).hand[g] = "completed"
  BY <1>1 DEF Task, Result
<1>3. ASSUME NEW v \in {"not-run", "passed"}
      PROVE  Seen(h, v) \in Task /\ Seen(h, v).hand = task.hand /\ Seen(h, v).qa[h] = v
  BY <1>1 DEF Task, Seen
<1>4. Found(h) \in Task /\ Found(h).hand = task.hand /\ Found(h).qa[h] = "flawed"
  BY <1>1 DEF Task, Found
<1>5. Job(h) \in Task /\ Job(h).hand = task.hand
  BY <1>1 DEF Task, Job
<1> QED
  BY <1>2, <1>3, <1>4, <1>5

LEMMA AcceptFine == ASSUME TypeInv, NEW c \in Hosts, Accept(c) PROVE Fine(c)
<1>1. /\ Still /\ lease' = lease /\ cred' = cred
      /\ host[c].pc = "accept" /\ Sound(c, host[c]) /\ Item(c) \in Items
  BY TypeFacts DEF Accept, Still, Quiet, Same, History, At, Sound, Ready, Item
<1>2. Ready(c, host[c], "fail") /\ Ready(c, host[c], "store") /\ IsImage(host[c].item)
  BY <1>1 DEF Sound, Ready, Verdicts, Places
<1>3. CASE Moves(c, "fail")
  BY <1>1, <1>2, <1>3, StillMove DEF Copying, Verdicts
<1>4. CASE task.hand[About(c)] = "waiting" /\ Loads(c, Result(About(c)), "store")
  <2>1. PICK t \in Task :
           /\ Loads(c, t, "store") /\ t.hand[host[c].item[2]] = "completed"
           /\ \A h \in Handoffs : task.hand[h] = "completed" => t.hand[h] = "completed"
    BY <1>1, <1>4, LoadedTask, AboutIs DEF About, Item
  <2>2. "store" \in Copying
    BY DEF Copying
  <2>3. /\ Types' /\ Frame /\ Going(c) /\ LeaseKept(c) /\ Ends(c) /\ Copies(c)
        /\ host'[c].pc = "store" /\ host'[c].item = host[c].item
    BY <1>1, <1>2, <2>1, <2>2, LoadFine DEF Verdicts
  <2>4. Begins(c)
    BY <1>1, <1>2, <1>4, <2>3 DEF Begins, Still, Quiet, About, Item
  <2> QED
    BY <2>3, <2>4 DEF Fine, Answering
<1> QED
  BY <1>3, <1>4 DEF Accept, Result

LEMMA ReviewFine == ASSUME TypeInv, NEW c \in Hosts, Review(c) PROVE Fine(c)
<1>1. /\ Still /\ lease' = lease /\ cred' = cred
      /\ host[c].pc = "review" /\ Sound(c, host[c]) /\ host[c].visual \in Handoffs
  BY TypeFacts DEF Review, Still, Quiet, Same, History, At, Sound, Ready
<1>2. Ready(c, host[c], "fail") /\ Ready(c, host[c], "reviewed")
  BY <1>1 DEF Sound, Ready, Verdicts, Places
<1>3. CASE Moves(c, "fail")
  BY <1>1, <1>2, <1>3, StillMove DEF Copying, Verdicts
<1>4. CASE Loads(c, Seen(host[c].visual, "not-run"), "reviewed")
  <2>1. PICK t \in Task : Loads(c, t, "reviewed") /\ t.hand = task.hand
    BY <1>1, <1>4, LoadedTask
  <2>2. "reviewed" \in Copying
    BY DEF Copying
  <2>3. /\ Types' /\ Frame /\ Going(c) /\ LeaseKept(c) /\ Ends(c) /\ Copies(c)
        /\ host'[c].pc = "reviewed"
    BY <1>1, <1>2, <2>1, <2>2, LoadFine DEF Verdicts
  <2>4. Aside(c)
    BY <1>1, <2>3 DEF Aside, Still, Quiet
  <2> QED
    BY <2>3, <2>4 DEF Fine, Answering
<1> QED
  BY <1>3, <1>4 DEF Review, Seen

LEMMA InspectFine == ASSUME TypeInv, NEW c \in Hosts, Inspect(c) PROVE Fine(c)
<1>1. /\ Still /\ lease' = lease /\ cred' = cred
      /\ host[c].pc = "inspect" /\ Sound(c, host[c]) /\ Item(c) \in Items
  BY TypeFacts DEF Inspect, Still, Quiet, Same, History, At, Sound, Ready, Item
<1>2. Ready(c, host[c], "fail") /\ Ready(c, host[c], "inspected")
  BY <1>1 DEF Sound, Ready, Verdicts, Places
<1>3. CASE Moves(c, "fail")
  BY <1>1, <1>2, <1>3, StillMove DEF Copying, Verdicts
<1>4. CASE \/ Loads(c, Seen(About(c), "passed"), "inspected")
           \/ Loads(c, Found(About(c)), "inspected")
  <2>1. PICK t \in Task : /\ Loads(c, t, "inspected") /\ t.hand = task.hand
                          /\ t.qa[host[c].item[2]] \in Verdicts
    BY <1>1, <1>4, LoadedTask, AboutIs DEF About, Item, Verdicts
  <2>2. "inspected" \in Copying
    BY DEF Copying
  <2>3. /\ Types' /\ Frame /\ Going(c) /\ LeaseKept(c) /\ Ends(c) /\ Copies(c)
        /\ host'[c].pc = "inspected" /\ host'[c].item = host[c].item
    BY <1>1, <1>2, <2>1, <2>2, LoadFine DEF Verdicts
  <2>4. Begins(c)
    BY <1>1, <2>3 DEF Begins, Still, Quiet
  <2> QED
    BY <2>3, <2>4 DEF Fine, Answering
<1> QED
  BY <1>3, <1>4 DEF Inspect, Seen, Found

LEMMA ReviseFine == ASSUME TypeInv, NEW c \in Hosts, Revise(c) PROVE Fine(c)
<1>1. /\ Still /\ lease' = lease /\ cred' = cred
      /\ host[c].pc = "revise" /\ Sound(c, host[c]) /\ Item(c) \in Items
  BY TypeFacts DEF Revise, Still, Quiet, Same, History, At, Sound, Ready, Item
<1>2. Ready(c, host[c], "fail") /\ Ready(c, host[c], "revised")
  BY <1>1 DEF Sound, Ready, Verdicts, Places
<1>3. CASE Moves(c, "fail")
  BY <1>1, <1>2, <1>3, StillMove DEF Copying, Verdicts
<1>4. CASE Loads(c, Job(About(c)), "revised")
  <2>1. PICK t \in Task : Loads(c, t, "revised") /\ t.hand = task.hand
    BY <1>1, <1>4, LoadedTask, AboutIs
  <2>2. "revised" \in Copying
    BY DEF Copying
  <2>3. /\ Types' /\ Frame /\ Going(c) /\ LeaseKept(c) /\ Ends(c) /\ Copies(c)
        /\ host'[c].pc = "revised"
    BY <1>1, <1>2, <2>1, <2>2, LoadFine DEF Verdicts
  <2>4. Aside(c)
    BY <1>1, <2>3 DEF Aside, Still, Quiet
  <2> QED
    BY <2>3, <2>4 DEF Fine, Answering
<1> QED
  BY <1>3, <1>4 DEF Revise, Job

(***************************************************************************)
(* Answering                                                               *)
(***************************************************************************)

LEMMA TwiceDoes ==
    ASSUME TypeInv, NEW i \in Items, NEW pcs
    PROVE  /\ Twice(i, pcs) \subseteq {i}
           /\ \A d \in Hosts : host[d].item = i /\ host[d].leased = "over" /\ host[d].pc \in pcs
                                 => i \in Twice(i, pcs)
BY DEF Twice, Overdue, Item

\* A check that lets the host pass, and excuses its item.
LEMMA PassFrame ==
    ASSUME TypeInv, NEW i \in Items, NEW pcs, excused' = excused \cup Twice(i, pcs),
           work' \in [Items -> Work],
           \A j \in Items : ~IsImage(j) => work'[j] = work[j],
           UNCHANGED <<task, lease, cred, stale, giving, answers, cut, lost, late>>
    PROVE  Types' /\ Frame /\ Unleased
<1>1. Types'
  BY TypeFacts, TwiceDoes DEF Types
<1>2. Frame
  BY TypeFacts DEF Frame, Types
<1>3. Unleased
  BY DEF Unleased
<1> QED
  BY <1>1, <1>2, <1>3

\* What the two checks have in common.
LEMMA PassFine ==
    ASSUME TypeInv, NEW c \in Hosts, Types', Frame, Unleased, UNCHANGED <<task, lease>>,
           NEW pc, Moves(c, pc), Ready(c, host[c], pc),
           host[c].pc \notin Copying \cup Verdicts, pc \notin Copying
    PROVE  /\ Types' /\ Frame /\ Going(c) /\ LeaseKept(c) /\ Ends(c) /\ Copies(c)
           /\ host'[c].pc = pc /\ host'[c].item = host[c].item
<1>1. /\ Going(c) /\ host'[c].pc = pc /\ host'[c].item = host[c].item
      /\ host'[c].leased = host[c].leased /\ host'[c].copy = None
  BY MovesDoes
<1>2. LeaseKept(c) /\ Ends(c)
  BY <1>1 DEF LeaseKept, Ends, Finishing
<1>3. Copies(c)
  BY <1>1 DEF Copies
<1> QED
  BY <1>1, <1>2, <1>3

LEMMA AnswerFine == ASSUME TypeInv, NEW c \in Hosts, Answer(c) PROVE Fine(c)
<1>1. host[c].pc = "answer" /\ Sound(c, host[c]) /\ Item(c) \in Items
  BY TypeFacts DEF Answer, At, Sound, Ready, Item
<1>2. Ready(c, host[c], "fail") /\ Ready(c, host[c], "submit")
  BY <1>1 DEF Sound, Ready, Verdicts, Places
<1>3. /\ work' \in [Items -> Work] /\ \A j \in Items : ~IsImage(j) => work'[j] = work[j]
      /\ UNCHANGED <<task, lease, cred, stale, giving, answers, cut, lost, late>>
  BY SyncedType, TypeFacts DEF Answer, Types
<1>4. CASE Moves(c, "fail") /\ UNCHANGED excused
  <2>1. Quiet
    BY <1>3, <1>4 DEF Quiet
  <2>2. Types' /\ Frame /\ Unleased
    BY <1>3, <2>1, QuietFrame, TypeFacts DEF Types
  <2> QED
    BY <1>1, <1>2, <1>3, <1>4, <2>1, <2>2, MoveFine DEF Copying, Verdicts
<1>5. CASE /\ Claimed(c) /\ Moves(c, "submit")
           /\ excused' = excused \cup Twice(Item(c), {"passed", "flawed"})
  <2>1. Types' /\ Frame /\ Unleased
    BY <1>1, <1>3, <1>5, PassFrame
  <2>2. /\ Going(c) /\ LeaseKept(c) /\ Ends(c) /\ Copies(c)
        /\ host'[c].pc = "submit" /\ host'[c].item = host[c].item
    BY <1>1, <1>2, <1>3, <1>5, <2>1, PassFine DEF Copying, Verdicts
  <2>3. \A d \in Hosts : host[d].leased = "over" /\ Finishing(host[d], host[c].item)
                            => host[c].item \in excused'
    BY <1>1, <1>5, TwiceDoes DEF Finishing, Verdicts, Item
  <2>4. Asks(c)
    BY <1>1, <1>3, <1>5, <2>2, <2>3 DEF Asks, Claimed, Item
  <2> QED
    BY <2>1, <2>2, <2>4 DEF Fine, Answering
<1> QED
  BY <1>4, <1>5 DEF Answer

LEMMA SubmitFine == ASSUME TypeInv, NEW c \in Hosts, Submit(c) PROVE Fine(c)
<1>1. host[c].pc = "submit" /\ Sound(c, host[c]) /\ Item(c) \in Items
  BY TypeFacts DEF Submit, At, Sound, Ready, Item
<1> DEFINE t == IF IsImage(host[c].item) THEN "accept" ELSE "inspect"
<1>2. Ready(c, host[c], "fail") /\ Ready(c, host[c], t)
  BY <1>1 DEF Sound, Ready, Verdicts, Places
<1>3. /\ work' \in [Items -> Work] /\ \A j \in Items : ~IsImage(j) => work'[j] = work[j]
      /\ UNCHANGED <<task, lease, cred, stale, giving, answers, cut, lost, late, work>>
  BY TypeFacts DEF Submit, Types
<1>4. CASE Moves(c, "fail") /\ UNCHANGED excused
  <2>1. Still
    BY <1>3, <1>4 DEF Quiet, Still
  <2> QED
    BY <1>1, <1>2, <1>3, <1>4, <2>1, StillMove DEF Copying, Verdicts
<1>5. CASE /\ Accepts(c) /\ Moves(c, t)
           /\ excused' = excused \cup Twice(Item(c), {"accept", "store", "inspect", "inspected"})
  <2>1. Types' /\ Frame /\ Unleased
    BY <1>1, <1>3, <1>5, PassFrame
  <2>2. /\ Going(c) /\ LeaseKept(c) /\ Ends(c) /\ Copies(c)
        /\ host'[c].pc = t /\ host'[c].item = host[c].item
    BY <1>1, <1>2, <1>3, <1>5, <2>1, PassFine DEF Copying, Verdicts
  <2>3. \A d \in Hosts : host[d].leased = "over" /\ Pending(host[d], host[c].item)
                            => host[c].item \in excused'
    BY <1>1, <1>5, TwiceDoes DEF Pending, Item
  <2>4. Enters(c)
    BY <1>1, <1>3, <1>5, <2>2, <2>3 DEF Enters, Accepts, Item
  <2> QED
    BY <2>1, <2>2, <2>4 DEF Fine, Answering
<1> QED
  BY <1>4, <1>5 DEF Submit, Item

(***************************************************************************)
(* What comes after the answer                                             *)
(***************************************************************************)

LEMMA ConsumeFine == ASSUME TypeInv, NEW c \in Hosts, Consume(c) PROVE Fine(c)
<1>1. /\ host[c].pc = "consume" /\ Sound(c, host[c]) /\ Item(c) \in Items
      /\ Quiet /\ work' = work /\ stale' = stale
  BY TypeFacts DEF Consume, At, Sound, Ready, Item, Quiet
<1>2. Ready(c, host[c], "fail") /\ Ready(c, host[c], "prepare")
  BY <1>1 DEF Sound, Ready, Verdicts, Places
<1>3. CASE /\ Moves(c, "fail") /\ UNCHANGED <<lease, cred>>
           /\ cut' = IF IsImage(Item(c)) THEN cut \cup {About(c)} ELSE cut
  <2>1. Types' /\ Frame /\ Unleased
    BY <1>1, <1>3, QuietFrame, TypeFacts, AboutIs DEF Types
  <2> QED
    BY <1>1, <1>2, <1>3, <2>1, MoveFine DEF Copying, Verdicts
<1>4. CASE lease = c /\ lease' = None /\ cut' = cut /\ Return(c)
  <2>1. Still
    BY <1>1, <1>4 DEF Still
  <2> QED
    BY <1>1, <1>4, <2>1, StillReturn DEF Verdicts
<1>5. CASE /\ lease = c /\ lease' = None /\ cut' = cut /\ UNCHANGED cred
           /\ host' = [host EXCEPT ![c].pc = "prepare", ![c].leased = "over"]
  <2> DEFINE r == [host[c] EXCEPT !.pc = "prepare", !.leased = "over"]
  <2>1. Becomes(c, r)
    BY <1>5, TypeFacts DEF Becomes
  <2>2. /\ r \in Host /\ r.item = host[c].item /\ r.copy = host[c].copy /\ r.pc = "prepare"
        /\ r.claim = host[c].claim /\ r.leased = "over"
    BY <1>1 DEF Sound, Host
  <2> HIDE DEF r
  <2>3. Sound(c, r) /\ r.copy = None
    BY <1>1, <2>2 DEF Sound, Ready, Kept, Copying, Verdicts, Places
  <2>4. Going(c) /\ host'[c] = r
    BY <2>1, <2>3, BecomesDoes DEF Going
  <2>5. Types' /\ Frame /\ Unleased
    BY <1>1, <1>5, QuietFrame, TypeFacts, NotNone DEF Types
  <2>6. LeaseKept(c)
    BY <1>5, <2>2, <2>4 DEF LeaseKept
  <2>7. Ends(c)
    BY <1>1 DEF Ends, Finishing, Verdicts
  <2>8. Copies(c) /\ Aside(c)
    BY <1>1, <2>2, <2>3, <2>4, <2>5 DEF Copies, Aside, Quiet
  <2> QED
    BY <2>4, <2>5, <2>6, <2>7, <2>8 DEF Fine, Answering
<1> QED
  BY <1>3, <1>4, <1>5 DEF Consume

\* A host that has an artifact to prepare.
LEMMA ArtifactFine ==
    ASSUME TypeInv, NEW c \in Hosts, NEW r, Becomes(c, r), Sound(c, r),
           r.pc \notin {"submit", "accept", "inspect"} \cup Copying,
           r.leased \in {host[c].leased, "no"}, lease' = lease,
           host[c].pc \notin Verdicts, Quiet, Types', Frame, Unleased
    PROVE  Fine(c)
<1>1. Going(c) /\ host'[c] = r
  BY BecomesDoes DEF Going
<1>2. LeaseKept(c) /\ Ends(c)
  BY <1>1 DEF LeaseKept, Ends, Finishing
<1>3. r.copy = None
  BY DEF Sound, Kept
<1>4. Copies(c) /\ Aside(c)
  BY <1>1, <1>3 DEF Copies, Aside, Quiet, Copying
<1> QED
  BY <1>1, <1>2, <1>4 DEF Fine, Answering

LEMMA PrepareFine == ASSUME TypeInv, NEW c \in Hosts, Prepare(c) PROVE Fine(c)
<1>1. /\ host[c].pc = "prepare" /\ Sound(c, host[c]) /\ Item(c) \in Items
      /\ Quiet /\ UNCHANGED <<work, stale, lease, cred>>
  BY TypeFacts DEF Prepare, At, Sound, Ready, Item, Quiet
<1>2. Types' /\ Frame /\ Unleased
  BY <1>1, QuietFrame, TypeFacts, AboutIs DEF Types, Prepare
<1> DEFINE pc == IF task.last = None THEN "mark" ELSE "review"
<1> DEFINE r == [host[c] EXCEPT !.pc = pc, !.visual = task.last]
<1>3. Becomes(c, r)
  BY TypeFacts DEF Becomes, Prepare
<1>4. task.last \in Handoffs \cup {None}
  BY TypeFacts DEF Types, Task
<1>5. /\ r \in Host /\ r.item = host[c].item /\ r.copy = host[c].copy /\ r.pc = pc
      /\ r.claim = host[c].claim /\ r.leased = host[c].leased /\ r.visual = task.last
  BY <1>1, <1>4 DEF Sound, Host
<1>6. pc \in {"mark", "review"} /\ (pc = "review" => task.last \in Handoffs)
  BY <1>4
<1> HIDE DEF r, pc
<1>7. Sound(c, r)
  BY <1>1, <1>5, <1>6 DEF Sound, Ready, Kept, Copying, Verdicts, Places
<1> QED
  BY <1>1, <1>2, <1>3, <1>5, <1>6, <1>7, ArtifactFine DEF Copying, Verdicts

LEMMA PrepareWorkFine ==
    ASSUME TypeInv, NEW c \in Hosts, NEW h \in Handoffs, PrepareWork(c, h) PROVE Fine(c)
<1>1. /\ host[c].pc = "idle" /\ Still /\ UNCHANGED <<lease, cred>>
  BY DEF PrepareWork, At, Still, Quiet, History
<1>2. Types' /\ Frame /\ Unleased
  BY <1>1, StillFrame, TypeFacts DEF Types
<1> DEFINE r == [Idle EXCEPT !.pc = "review", !.visual = h]
<1>3. Becomes(c, r)
  BY DEF Becomes, PrepareWork
<1>4. /\ r \in Host /\ r.copy = None /\ r.pc = "review" /\ r.claim = FALSE /\ r.leased = "no"
      /\ r.visual = h
  BY IdleSound DEF Idle, Host, Sound
<1> HIDE DEF r
<1>5. Sound(c, r)
  BY <1>4 DEF Sound, Ready, Kept, Copying, Verdicts, Places
<1> QED
  BY <1>1, <1>2, <1>3, <1>4, <1>5, ArtifactFine DEF Copying, Verdicts, Still

LEMMA LookFine == ASSUME TypeInv, NEW c \in Hosts, Look(c) PROVE Fine(c)
<1>1. /\ Still /\ lease' = lease /\ cred' = cred /\ host[c].pc = "look" /\ Sound(c, host[c])
  BY TypeFacts DEF Look, Still, Quiet, Same, History, At
<1>2. /\ Ready(c, host[c], "fail") /\ Ready(c, host[c], "make") /\ Ready(c, host[c], "done")
      /\ Item(c) # None => Ready(c, host[c], "mark")
  BY <1>1 DEF Sound, Ready, Verdicts, Places, Item, Host
<1>3. \/ Moves(c, "fail") \/ Moves(c, "make") \/ Moves(c, "done")
      \/ Item(c) # None /\ Moves(c, "mark")
  BY DEF Look, AfterPrepare
<1> QED
  BY <1>1, <1>2, <1>3, StillMove DEF Copying, Verdicts

LEMMA MakeFine == ASSUME TypeInv, NEW c \in Hosts, Make(c) PROVE Fine(c)
<1>1. /\ lease' = lease /\ host[c].pc = "make" /\ Sound(c, host[c])
      /\ Visual(host[c].visual) \in Items
  BY TypeFacts, ItemParts DEF Make, At, Sound, Ready
<1>2. /\ Ready(c, host[c], "done") /\ (Item(c) # None => Ready(c, host[c], "mark"))
  BY <1>1 DEF Sound, Ready, Verdicts, Places, Item, Host
<1>3. PICK pc \in {"done", "mark"} : Moves(c, pc) /\ Ready(c, host[c], pc)
  BY <1>2 DEF Make, AfterPrepare
<1>4. Types' /\ Frame /\ Unleased
  <2>1. "available" \in Work
    BY DEF Work
  <2> QED
    BY <1>1, <2>1, AnewFrame DEF Make
<1>5. /\ Going(c) /\ host'[c].pc = pc /\ host'[c].leased = host[c].leased
      /\ host'[c].copy = None
  BY <1>1, <1>3, MovesDoes DEF Copying
<1>6. LeaseKept(c) /\ Ends(c)
  BY <1>1, <1>5 DEF LeaseKept, Ends, Finishing, Verdicts
<1>7. Copies(c) /\ Aside(c)
  BY <1>4, <1>5 DEF Copies, Aside, Make
<1> QED
  BY <1>4, <1>5, <1>6, <1>7 DEF Fine, Answering

LEMMA DoneFine == ASSUME TypeInv, NEW c \in Hosts, Done(c) PROVE Fine(c)
<1>1. Still /\ Return(c) /\ host[c].pc = "done" /\ lease' = lease
  BY DEF Done, Still, Quiet, Same, History, At
<1> QED
  BY <1>1, StillReturn DEF Verdicts

\* An item that is completed.
LEMMA MarkedWork ==
    ASSUME TypeInv, NEW i \in Items, work' = [work EXCEPT ![i] = "completed"]
    PROVE  /\ work' \in [Items -> Work] /\ work'[i] = "completed"
           /\ \A j \in Items : work[j] = "completed" => work'[j] = "completed"
<1>1. work \in [Items -> Work] /\ "completed" \in Work
  BY TypeFacts DEF Types, Work
<1> QED
  BY <1>1

LEMMA MarkFine == ASSUME TypeInv, NEW c \in Hosts, Mark(c) PROVE Fine(c)
<1>1. /\ host[c].pc = "mark" /\ Sound(c, host[c]) /\ Item(c) \in Items
      /\ Quiet /\ Return(c) /\ UNCHANGED <<lease, stale, cut>>
  BY TypeFacts DEF Mark, At, Sound, Ready, Item, Quiet, Same, History
<1>2. cred' \in [Hosts -> {"active", "revoked", "replaced"}]
  BY <1>1, ReturnDoes
<1>3. Types' /\ Frame /\ Unleased
  BY <1>1, <1>2, QuietFrame, MarkedWork, TypeFacts DEF Types, Mark
<1> QED
  BY <1>1, <1>3, ReturnFine DEF Verdicts

LEMMA MarkInspectedFine == ASSUME TypeInv, NEW c \in Hosts, MarkInspected(c) PROVE Fine(c)
<1>1. /\ host[c].pc \in Verdicts /\ Sound(c, host[c]) /\ Item(c) \in Items
      /\ Quiet /\ UNCHANGED <<lease, stale, cut, cred>>
  BY TypeFacts DEF MarkInspected, At, Sound, Ready, Item, Quiet, Same, History, Verdicts
<1>2. Types' /\ Frame /\ Unleased
  BY <1>1, QuietFrame, MarkedWork, TypeFacts DEF Types, MarkInspected
<1>3. Ready(c, host[c], "revise") /\ Ready(c, host[c], "consume")
  BY <1>1 DEF Sound, Ready, Verdicts, Places
<1>4. PICK pc \in {"revise", "consume"} : Moves(c, pc) /\ Ready(c, host[c], pc)
  BY <1>3 DEF MarkInspected
<1>5. /\ Going(c) /\ host'[c].pc = pc /\ host'[c].leased = host[c].leased
      /\ host'[c].copy = None
  BY <1>1, <1>4, MovesDoes DEF Copying, Verdicts
<1>6. LeaseKept(c)
  BY <1>1, <1>5 DEF LeaseKept
<1>7. Ends(c)
  BY <1>1, MarkedWork DEF Ends, Finishing, MarkInspected, Item
<1>8. Copies(c) /\ Aside(c)
  BY <1>1, <1>2, <1>5 DEF Copies, Aside, Quiet
<1> QED
  BY <1>2, <1>5, <1>6, <1>7, <1>8 DEF Fine, Answering

(***************************************************************************)
(* The surroundings                                                        *)
(***************************************************************************)

LEMMA CrashFine == ASSUME TypeInv, NEW c \in Hosts, Crash(c) PROVE Fine(c)
<1>1. /\ Sound(c, host[c])
      /\ UNCHANGED <<task, lease, work, stale, giving, answers, lost, late>>
  BY TypeFacts DEF Crash
<1>2. /\ Item(c) # None => About(c) \in Handoffs
      /\ host[c].pc \in Verdicts => Item(c) \in Items
  BY <1>1, AboutIs DEF Sound, Ready, Host, Item, Verdicts
<1>3. excused' = IF host[c].pc \in Verdicts THEN excused \cup {Item(c)} ELSE excused
  BY DEF Crash, Verdicts
<1>4. cut' \subseteq Handoffs
  BY <1>2, TypeFacts DEF Crash, Types
<1>5. cred' \in [Hosts -> {"active", "revoked", "replaced"}]
  BY ReturnDoes, TypeFacts DEF Crash, Types
<1>6. Types'
  BY <1>1, <1>2, <1>3, <1>4, <1>5, TypeFacts DEF Types
<1>7. Frame /\ Unleased
  BY <1>1, <1>3 DEF Frame, Unleased
<1>8. Ends(c)
  BY <1>3 DEF Ends, Finishing, Item
<1>9. CASE Return(c)
  <2>1. Going(c) /\ host'[c] = Idle
    BY <1>9, ReturnDoes
  <2>2. /\ host'[c].pc = "idle" /\ host'[c].leased = "no" /\ host'[c].copy = None
    BY <2>1, IdleSound
  <2>3. LeaseKept(c) /\ Copies(c) /\ Aside(c)
    BY <1>1, <1>7, <2>2 DEF LeaseKept, Copies, Aside
  <2> QED
    BY <1>6, <1>7, <1>8, <2>1, <2>3 DEF Fine, Answering
<1>10. CASE /\ host[c].claim /\ host[c].leased # "no"
            /\ host' = [host EXCEPT ![c].pc = "answer", ![c].copy = None, ![c].visual = None]
  <2> DEFINE r == [host[c] EXCEPT !.pc = "answer", !.copy = None, !.visual = None]
  <2>1. Becomes(c, r)
    BY <1>10, TypeFacts DEF Becomes
  <2>2. /\ r \in Host /\ r.item = host[c].item /\ r.copy = None /\ r.pc = "answer"
        /\ r.claim = host[c].claim /\ r.leased = host[c].leased
    BY <1>1 DEF Sound, Host
  <2> HIDE DEF r
  <2>3. r.item \in Items
    BY <1>1, <1>10, <2>2 DEF Sound, Host
  <2>4. Sound(c, r)
    BY <1>10, <2>2, <2>3, NotNone DEF Sound, Ready, Kept, Copying, Verdicts, Places
  <2>5. Going(c) /\ host'[c] = r
    BY <2>1, <2>4, BecomesDoes DEF Going
  <2>6. LeaseKept(c) /\ Copies(c) /\ Aside(c)
    BY <1>1, <1>7, <2>2, <2>5 DEF LeaseKept, Copies, Aside
  <2> QED
    BY <1>6, <1>7, <1>8, <2>5, <2>6 DEF Fine, Answering
<1> QED
  BY <1>9, <1>10 DEF Crash

\* Nothing happens to the hosts, the task and the lease.
Rests == /\ host' = host /\ lease' = lease /\ answers' = answers
         /\ task' = task /\ late' = late

LEMMA CredentialRests ==
    ASSUME TypeInv, NEW c \in Hosts, Revoke(c) \/ Register(c)
    PROVE  Rests /\ Types' /\ Frame
<1>1. /\ Quiet /\ UNCHANGED <<host, lease, work, stale, cut>>
      /\ cred' \in [Hosts -> {"active", "revoked", "replaced"}]
  BY TypeFacts DEF Revoke, Register, Quiet, Same, History, Types
<1> QED
  BY <1>1, QuietFrame, TypeFacts DEF Rests, Quiet, Types

LEMMA ClaimExpiresRests ==
    ASSUME TypeInv, NEW i \in Items, ClaimExpires(i)
    PROVE  Rests /\ Types' /\ Frame
<1>1. Quiet /\ UNCHANGED <<host, lease, cred, stale, cut>> /\ work[i] \in Hosts
      /\ work' = [work EXCEPT ![i] = "available"]
  BY DEF ClaimExpires, Quiet, History
<1>2. "available" \in Work /\ work[i] # "completed"
  BY <1>1, NotNone DEF Work
<1> QED
  BY <1>1, <1>2, QuietFrame, TypeFacts DEF Rests, Quiet, Types

LEMMA HandOffRests ==
    ASSUME TypeInv, NEW h \in Handoffs, HandOff(h)
    PROVE  Rests /\ Types' /\ Frame
<1>1. [task EXCEPT !.hand[h] = "waiting"] \in Task
  BY TypeFacts DEF Types, Task
<1>2. giving' \in [hand : Handoffs, copy : Task]
  BY <1>1 DEF HandOff
<1>3. UNCHANGED <<task, lease, work, host, cred, stale, answers, excused, cut, lost, late>>
  BY DEF HandOff, History
<1> QED
  BY <1>2, <1>3, TypeFacts DEF Rests, Types, Frame

LEMMA HandedOffDoes ==
    ASSUME TypeInv, HandedOff
    PROVE  /\ Types' /\ Frame /\ Unleased /\ host' = host /\ lease' = lease
           /\ answers' = answers
<1>1. giving.copy \in Task /\ task' = giving.copy
  BY TypeFacts DEF HandedOff, Save, Types
<1>2. /\ lost' = lost \cup TakenBack(giving.copy)
      /\ late' = (late \ TakenBack(giving.copy)) \cup Brought(giving.copy)
      /\ excused' = excused \cup {Image(h) : h \in TakenBack(giving.copy)}
      /\ stale' = Hosts
  BY DEF HandedOff, Save
<1>3. lost' \subseteq Handoffs /\ late' \subseteq Handoffs /\ excused' \subseteq Items
  BY <1>2, TypeFacts, ItemParts DEF TakenBack, Brought, Types
<1>4. cut' \subseteq Handoffs
  BY TypeFacts DEF HandedOff, Overwritten, Types
<1>5. Types'
  BY <1>1, <1>2, <1>3, <1>4, TypeFacts DEF Types, HandedOff
<1>6. \A h \in Handoffs : task.hand[h] = "completed" =>
         task'.hand[h] = "completed" \/ Image(h) \in excused'
  BY <1>1, <1>2 DEF TakenBack
<1>7. Frame
  BY <1>2, <1>6 DEF Frame, HandedOff
<1>8. Unleased
  BY <1>1, <1>2 DEF Unleased, TakenBack, Brought
<1> QED
  BY <1>5, <1>7, <1>8 DEF HandedOff

\* A lease that expires is over for the host that has it, wherever it is.
Expires ==
    /\ host' \in [Hosts -> Host] /\ \A d \in Hosts : Sound(d, host'[d])
    /\ \A d \in Hosts : /\ host'[d].pc = host[d].pc /\ host'[d].item = host[d].item
                        /\ host'[d].copy = host[d].copy
                        /\ host'[d].leased = "held" => host[d].leased = "held" /\ d # lease
    /\ lease' = None /\ answers' = answers /\ task' = task /\ late' = late

LEMMA LeaseExpiresDoes ==
    ASSUME TypeInv, LeaseExpires
    PROVE  Expires /\ Types' /\ Frame
<1>1. /\ Quiet /\ UNCHANGED <<work, cred, stale, cut>> /\ lease' = None /\ lease \in Hosts
  BY TypeFacts DEF LeaseExpires, Quiet, History, Types
<1>2. Types' /\ Frame
  BY <1>1, QuietFrame, TypeFacts, NotNone DEF Types
<1>3. CASE host[lease].leased = "held" /\ host' = [host EXCEPT ![lease].leased = "over"]
  <2> DEFINE r == [host[lease] EXCEPT !.leased = "over"]
  <2>1. Becomes(lease, r)
    BY <1>3 DEF Becomes
  <2>2. Sound(lease, host[lease])
    BY <1>1, TypeFacts
  <2>3. /\ r \in Host /\ r.pc = host[lease].pc /\ r.item = host[lease].item
        /\ r.copy = host[lease].copy /\ r.claim = host[lease].claim /\ r.leased = "over"
        /\ r.visual = host[lease].visual
    BY <2>2 DEF Sound, Host
  <2> HIDE DEF r
  <2>4. Sound(lease, r)
    BY <2>2, <2>3 DEF Sound, Ready, Kept
  <2>5. /\ host' \in [Hosts -> Host] /\ \A d \in Hosts : Sound(d, host'[d])
        /\ host'[lease] = r /\ \A d \in Hosts \ {lease} : host'[d] = host[d]
    BY <1>1, <2>1, <2>4, BecomesDoes
  <2> QED
    BY <1>1, <1>2, <2>3, <2>5 DEF Expires, Quiet
<1>4. CASE host[lease].leased # "held" /\ host' = host
  BY <1>1, <1>2, <1>4, TypeFacts DEF Expires, Quiet
<1> QED
  BY <1>3, <1>4 DEF LeaseExpires

\* Every step is a step of a host, of the executor, of the clock or of the
\* credentials, and keeps the types.
LEMMA StepDoes ==
    ASSUME TypeInv, [Next]_vars
    PROVE  /\ TypeInv' /\ Frame
           /\ \/ \E c \in Hosts : Fine(c)
              \/ Unleased /\ host' = host /\ lease' = lease /\ answers' = answers
              \/ Expires
              \/ Rests
<1>1. ASSUME NEW c \in Hosts, Step(c) \/ Crash(c) \/ (\E h \in Handoffs : PrepareWork(c, h))
      PROVE  Fine(c)
  BY <1>1, PickFine, EtagFine, LeaseFine, ClaimFine, SaveClaimFine, AttachFine, RunFine, FailFine,
     AnswerFine, SubmitFine, AcceptFine, StoreFine, CallbackFine, ConsumeFine, PrepareFine,
     ReviewFine, ReviewedFine, LookFine, MakeFine, DoneFine, MarkFine, InspectFine,
     InspectedFine, MarkInspectedFine, ReviseFine, RevisedFine, CrashFine, PrepareWorkFine
     DEF Step
<1>2. CASE \E c \in Hosts : Fine(c)
  BY <1>2, TypeInvIntro DEF Fine, Going
<1>3. CASE \E c \in Hosts : Revoke(c) \/ Register(c)
  BY <1>3, CredentialRests, TypeInvIntro, TypeFacts DEF Rests
<1>4. CASE \E i \in Items : ClaimExpires(i)
  BY <1>4, ClaimExpiresRests, TypeInvIntro, TypeFacts DEF Rests
<1>5. CASE \E h \in Handoffs : HandOff(h)
  BY <1>5, HandOffRests, TypeInvIntro, TypeFacts DEF Rests
<1>6. CASE HandedOff
  BY <1>6, HandedOffDoes, TypeInvIntro, TypeFacts
<1>7. CASE LeaseExpires
  BY <1>7, LeaseExpiresDoes, TypeInvIntro DEF Expires
<1>8. CASE UNCHANGED vars
  <2>1. Types' /\ Frame /\ Rests
    BY <1>8, TypeFacts DEF vars, Types, Frame, Rests
  <2> QED
    BY <2>1, TypeInvIntro, TypeFacts DEF Rests
<1> QED
  BY <1>1, <1>2, <1>3, <1>4, <1>5, <1>6, <1>7, <1>8 DEF Next

LEMMA InitTypeInv == Init => TypeInv
<1> SUFFICES ASSUME Init PROVE TypeInv
  OBVIOUS
<1>1. host \in [Hosts -> Host] /\ \A c \in Hosts : Sound(c, host[c]) /\ host[c] = Idle
  BY IdleSound DEF Init, Sound
<1>2. task \in Task
  BY DEF Init, Task
<1>3. /\ lease \in Hosts \cup {None} /\ work \in [Items -> Work] /\ stale \subseteq Hosts
      /\ cred \in [Hosts -> {"active", "revoked", "replaced"}] /\ giving = None
      /\ excused = {} /\ cut = {} /\ lost = {} /\ late = {}
      /\ answers \in [Items -> 0..2]
  BY DEF Init, Work
<1>4. \A c \in Hosts : /\ host[c].pc \in {"store", "callback", "reviewed", "inspected", "revised"}
                              <=> host[c].copy # None
                       /\ host[c].claim => host[c].item # None
  BY <1>1 DEF Sound, Kept, Copying
<1> QED
  BY <1>1, <1>2, <1>3, <1>4 DEF TypeInv, TypeOK

\* The types of the task, the items, the lease and the hosts
\* (host_work.py, chatgpt_host_loop.py); a host has a copy of the task exactly
\* from a load to the save of it.
THEOREM TypeCorrect == Spec => []TypeOK
<1>1. TypeInv /\ [Next]_vars => TypeInv'
  BY StepDoes
<1>2. TypeInv => TypeOK
  BY DEF TypeInv
<1> QED
  BY InitTypeInv, <1>1, <1>2, PTL DEF Spec

(***************************************************************************)
(* What the lease protects                                                 *)
(***************************************************************************)

\* One host has the lease: it is held by whoever has not lost it.
HeldInv == \A c \in Hosts : host[c].leased = "held" => lease = c

\* While a host holds the lease, others save without it: the results that have
\* come since the host loaded its copy are late.
CopyInv ==
    \A c \in Hosts : host[c].leased = "held" /\ host[c].copy # None =>
       \A h \in Handoffs : task.hand[h] = "completed" =>
          host[c].copy.hand[h] = "completed" \/ h \in late

LEMMA HeldStep == TypeInv /\ HeldInv /\ [Next]_vars => HeldInv'
<1> SUFFICES ASSUME TypeInv, HeldInv, [Next]_vars PROVE HeldInv'
  OBVIOUS
<1>1. CASE \E c \in Hosts : Fine(c)
  <2>1. PICK c \in Hosts : Fine(c)
    BY <1>1
  <2>2. ASSUME NEW d \in Hosts, host'[d].leased = "held" PROVE lease' = d
    <3>1. CASE d = c
      BY <2>1, <2>2, <3>1 DEF Fine, LeaseKept, HeldInv
    <3>2. CASE d # c
      <4>1. host'[d] = host[d] /\ lease = d
        BY <2>1, <2>2, <3>2 DEF Fine, Going, HeldInv
      <4> QED
        BY <2>1, <3>2, <4>1, NotNone DEF Fine, LeaseKept
    <3> QED
      BY <3>1, <3>2
  <2> QED
    BY <2>2 DEF HeldInv
<1>2. CASE host' = host /\ lease' = lease
  BY <1>2 DEF HeldInv
<1>3. CASE Expires
  BY <1>3 DEF HeldInv, Expires
<1> QED
  BY <1>1, <1>2, <1>3, StepDoes DEF Rests

LEMMA CopyStep == TypeInv /\ HeldInv /\ CopyInv /\ [Next]_vars => CopyInv'
<1> SUFFICES ASSUME TypeInv, HeldInv, CopyInv, [Next]_vars PROVE CopyInv'
  OBVIOUS
\* A copy that stays while results come into the task without the lease.
<1>u. ASSUME NEW d \in Hosts, Unleased, host'[d] = host[d],
             host[d].leased = "held", host[d].copy # None,
             NEW h \in Handoffs, task'.hand[h] = "completed"
      PROVE  host'[d].copy.hand[h] = "completed" \/ h \in late'
  BY <1>u DEF Unleased, CopyInv
<1>1. CASE \E c \in Hosts : Fine(c)
  <2>1. PICK c \in Hosts : Fine(c)
    BY <1>1
  <2>2. ASSUME NEW d \in Hosts, host'[d].leased = "held", host'[d].copy # None,
               NEW h \in Handoffs, task'.hand[h] = "completed"
        PROVE  host'[d].copy.hand[h] = "completed" \/ h \in late'
    <3>1. CASE d = c
      BY <2>1, <2>2, <3>1 DEF Fine, Copies
    <3>2. CASE d # c
      <4>1. host'[d] = host[d] /\ lease = d
        BY <2>1, <2>2, <3>2 DEF Fine, Going, HeldInv
      <4>2. host[c].leased # "held"
        BY <3>2, <4>1 DEF HeldInv
      <4> QED
        BY <1>u, <2>1, <2>2, <4>1, <4>2 DEF Fine, Copies
    <3> QED
      BY <3>1, <3>2
  <2> QED
    BY <2>2 DEF CopyInv
<1>2. CASE Unleased /\ host' = host
  BY <1>2, <1>u DEF CopyInv
<1>3. CASE Expires
  BY <1>3 DEF Expires, CopyInv, HeldInv
<1>4. CASE Rests
  BY <1>4 DEF Rests, CopyInv
<1> QED
  BY <1>1, <1>2, <1>3, <1>4, StepDoes

LEMMA CopyInit == Init => HeldInv /\ CopyInv
<1> SUFFICES ASSUME Init PROVE HeldInv /\ CopyInv
  OBVIOUS
<1>1. \A c \in Hosts : host[c] = Idle
  BY DEF Init
<1> QED
  BY <1>1, IdleSound DEF HeldInv, CopyInv

\* A host that saves while it holds the lease of the task takes back no result
\* that was accepted under a lease, however old its copy is (concurrency.py,
\* host_api.py): of the results that came since it loaded the copy, all are late.
THEOREM ResultsAreKept == Spec => NoResultIsLost
<1> DEFINE Protects(c, h) == /\ host[c].leased = "held" /\ host'[c] # host[c]
                             /\ task.hand[h] = "completed"
                             => task'.hand[h] = "completed"
<1>1. ASSUME TypeInv, CopyInv, [Next]_vars
      PROVE  \A c \in Hosts, h \in Handoffs \ late : Protects(c, h)
  <2>1. ASSUME NEW c \in Hosts, NEW h \in Handoffs \ late, host[c].leased = "held",
               host'[c] # host[c], task.hand[h] = "completed"
        PROVE  task'.hand[h] = "completed"
    <3>1. CASE \E d \in Hosts : Fine(d)
      <4>1. PICK d \in Hosts : Fine(d)
        BY <3>1
      <4>2. d = c
        BY <2>1, <4>1 DEF Fine, Going
      <4> QED
        BY <1>1, <2>1, <4>1, <4>2 DEF Fine, Copies, CopyInv
    <3>2. CASE host' = host
      BY <2>1, <3>2
    <3>3. CASE Expires
      BY <2>1, <3>3 DEF Expires
    <3> QED
      BY <1>1, <3>1, <3>2, <3>3, StepDoes DEF Rests
  <2> QED
    BY <2>1
<1>2. TypeInv /\ CopyInv /\ [Next]_vars
         => [\A c \in Hosts, h \in Handoffs \ late : Protects(c, h)]_vars
  BY <1>1
<1>3. TypeInv /\ [Next]_vars => TypeInv'
  BY StepDoes
<1> QED
  BY InitTypeInv, CopyInit, HeldStep, CopyStep, <1>2, <1>3, PTL DEF Spec, NoResultIsLost

(***************************************************************************)
(* Answered once                                                           *)
(***************************************************************************)

\* An answer that was recorded shows: an image in its handoff, an inspection in
\* its item, or in the host that is about to complete it.
Settled(i) ==
    IF IsImage(i) THEN task.hand[i[2]] = "completed"
    ELSE work[i] = "completed" \/ \E c \in Hosts : Finishing(host[c], i)

\* One host at a time is between the check of an answer and its record, none
\* once an answer is recorded, and none comes through the check after that.
ItemInv(i) ==
    /\ answers[i] <= 1
    /\ \A c, d \in Hosts : Pending(host[c], i) /\ Pending(host[d], i) => c = d
    /\ \A c \in Hosts : Due(host[c], i) => answers[i] = 0
    /\ answers[i] = 1 => Settled(i)
    /\ \A c \in Hosts : Waiting(host[c], i) /\ ~IsImage(i) /\ answers[i] = 1 =>
          c \in stale \/ lease # c

AnswersInv == \A i \in Items \ excused : ItemInv(i)

\* An item is left alone by a step that brings no host nearer to answering it.
LEMMA ItemQuiet ==
    ASSUME NEW i \in Items \ excused', ItemInv(i), Frame, answers'[i] = answers[i],
           \A d \in Hosts : /\ Pending(host'[d], i) => Pending(host[d], i)
                            /\ Due(host'[d], i) => Due(host[d], i)
                            /\ Waiting(host'[d], i) => Waiting(host[d], i)
                            /\ Finishing(host[d], i) =>
                                  Finishing(host'[d], i) \/ work'[i] = "completed"
    PROVE  ItemInv(i)'
<1>1. answers[i] = 1 => Settled(i)'
  <2>1. CASE IsImage(i)
    BY <2>1, ItemIsOf DEF ItemInv, Settled, Frame
  <2>2. CASE ~IsImage(i)
    BY <2>2 DEF ItemInv, Settled, Frame
  <2> QED
    BY <2>1, <2>2
<1>2. \A c \in Hosts : Waiting(host'[c], i) /\ ~IsImage(i) /\ answers'[i] = 1 =>
         c \in stale' \/ lease' # c
  BY DEF ItemInv, Frame, Waiting, At
<1> QED
  BY <1>1, <1>2 DEF ItemInv

\* For an item that is not the one of the host that moves.
LEMMA ItemOther ==
    ASSUME NEW c \in Hosts, Going(c), Ends(c), Frame, NEW i \in Items \ excused', ItemInv(i),
           answers'[i] = answers[i],
           /\ Pending(host'[c], i) => Pending(host[c], i)
           /\ Due(host'[c], i) => Due(host[c], i)
           /\ Waiting(host'[c], i) => Waiting(host[c], i)
    PROVE  ItemInv(i)'
<1>1. \A d \in Hosts : /\ Pending(host'[d], i) => Pending(host[d], i)
                       /\ Due(host'[d], i) => Due(host[d], i)
                       /\ Waiting(host'[d], i) => Waiting(host[d], i)
                       /\ Finishing(host[d], i) =>
                             Finishing(host'[d], i) \/ work'[i] = "completed"
  BY DEF Going, Ends
<1> QED
  BY <1>1, ItemQuiet

\* A host that is in the course of an answer has acquired the lease: it holds
\* it, or the lease is over.
LEMMA LeaseOf ==
    ASSUME TypeInv, HeldInv, NEW d \in Hosts, NEW i,
           Pending(host[d], i) \/ Finishing(host[d], i)
    PROVE  lease = d \/ host[d].leased = "over"
<1>1. host[d].leased # "no" /\ host[d].leased \in {"no", "held", "over"}
  BY TypeFacts DEF Sound, Ready, Pending, Finishing, Host
<1> QED
  BY <1>1 DEF HeldInv

LEMMA ItemAsks ==
    ASSUME TypeInv, HeldInv, NEW c \in Hosts, Fine(c), Asks(c),
           NEW i \in Items \ excused', ItemInv(i)
    PROVE  ItemInv(i)'
<1>1. CASE host[c].item # i
  BY <1>1, ItemOther DEF Asks, Fine, Pending, Due, Waiting
<1>2. CASE host[c].item = i
  <2>1. \A d \in Hosts : /\ Pending(host'[d], i) => Pending(host[d], i)
                         /\ Due(host'[d], i) => Due(host[d], i)
    BY DEF Fine, Going, Asks, Pending, Due
  <2>2. Settled(i)' \/ answers[i] # 1
    <3>1. CASE IsImage(i)
      BY <3>1, ItemIsOf DEF ItemInv, Settled, Frame, Fine
    <3>2. CASE ~IsImage(i)
      BY <3>2 DEF ItemInv, Settled, Frame, Fine, Going, Ends
    <3> QED
      BY <3>1, <3>2
  <2>3. ASSUME ~IsImage(i), answers[i] = 1 PROVE lease # c
    <3>1. work[i] = c /\ work[i] # "completed"
      BY <1>2, NotNone DEF Asks
    <3>2. PICK d \in Hosts : Finishing(host[d], i)
      BY <2>3, <3>1 DEF ItemInv, Settled
    <3>3. lease = d \/ host[d].leased = "over"
      BY <3>2, LeaseOf
    <3>4. host[d].leased # "over" /\ d # c
      BY <1>2, <3>2 DEF Asks, Finishing, Verdicts
    <3> QED
      BY <3>3, <3>4
  <2>4. \A d \in Hosts : Waiting(host'[d], i) /\ ~IsImage(i) /\ answers'[i] = 1 =>
           d \in stale' \/ lease' # d
    BY <2>3 DEF ItemInv, Waiting, Fine, Going, Frame, Asks, At
  <2> QED
    BY <2>1, <2>2, <2>4 DEF ItemInv, Asks
<1> QED
  BY <1>1, <1>2

LEMMA ItemEnters ==
    ASSUME TypeInv, HeldInv, NEW c \in Hosts, Fine(c), Enters(c),
           NEW i \in Items \ excused', ItemInv(i)
    PROVE  ItemInv(i)'
<1>1. CASE host[c].item # i
  BY <1>1, ItemOther DEF Enters, Fine, Pending, Due, Waiting
<1>2. CASE host[c].item = i
  <2>1. \A d \in Hosts \ {c} : ~Pending(host[d], i)
    BY <1>2, LeaseOf DEF Enters, Leased, Pending
  <2>2. ~IsImage(i) => answers[i] = 0
    <3>1. Waiting(host[c], i) /\ lease = c /\ c \notin stale
      BY <1>2 DEF Enters, Leased, Waiting
    <3>2. answers[i] \in 0..2
      BY TypeFacts DEF Types
    <3> QED
      BY <3>1, <3>2 DEF ItemInv
  <2>3. \A d \in Hosts \ {c} : host'[d] = host[d]
    BY DEF Fine, Going
  <2>4. \A d, e \in Hosts : Pending(host'[d], i) /\ Pending(host'[e], i) => d = e
    BY <2>1, <2>3
  <2>5. \A d \in Hosts : Due(host'[d], i) => answers'[i] = 0
    BY <1>2, <2>1, <2>2, <2>3 DEF Due, Pending, Enters
  <2>6. answers[i] = 1 => Settled(i)'
    <3>1. CASE IsImage(i)
      BY <3>1, ItemIsOf DEF ItemInv, Settled, Frame, Fine
    <3>2. CASE ~IsImage(i)
      BY <2>2, <3>2
    <3> QED
      BY <3>1, <3>2
  <2>7. \A d \in Hosts : Waiting(host'[d], i) /\ ~IsImage(i) /\ answers'[i] = 1 =>
           d \in stale' \/ lease' # d
    BY <2>2 DEF Enters
  <2> QED
    BY <2>4, <2>5, <2>6, <2>7 DEF ItemInv, Enters
<1> QED
  BY <1>1, <1>2

LEMMA ItemBegins ==
    ASSUME TypeInv, NEW c \in Hosts, Fine(c), Begins(c),
           NEW i \in Items \ excused', ItemInv(i)
    PROVE  ItemInv(i)'
<1>1. CASE host[c].item # i \/ host[c].pc = "inspect"
  BY <1>1, ItemOther DEF Begins, Fine, Pending, Due, Waiting
<1>2. CASE host[c].item = i /\ host[c].pc = "accept"
  <2>1. answers[i] = 0
    <3>1. answers[i] \in 0..2 /\ ~Settled(i)
      BY <1>2, TypeFacts DEF Begins, Settled, Types
    <3> QED
      BY <3>1 DEF ItemInv
  <2>2. \A d \in Hosts : /\ Pending(host'[d], i) => Pending(host[d], i)
                         /\ Waiting(host'[d], i) => Waiting(host[d], i)
    BY <1>2 DEF Fine, Going, Begins, Pending, Waiting
  <2> QED
    BY <2>1, <2>2 DEF ItemInv, Begins
<1> QED
  BY <1>1, <1>2 DEF Begins

LEMMA ItemRecords ==
    ASSUME TypeInv, NEW c \in Hosts, Fine(c), Records(c),
           NEW i \in Items \ excused', ItemInv(i)
    PROVE  ItemInv(i)'
<1>0. host[c].item \in Items
  BY TypeFacts DEF Records, Sound, Ready
<1>1. CASE host[c].item # i
  <2>1. answers'[i] = answers[i]
    BY <1>0, <1>1, CountDoes DEF Records
  <2> QED
    BY <1>1, <2>1, ItemOther DEF Records, Fine, Pending, Due, Waiting
<1>2. CASE host[c].item = i
  <2>1. Pending(host[c], i) /\ Due(host[c], i)
    BY <1>2 DEF Records, Pending, Due
  <2>2. answers'[i] = 1
    BY <1>0, <1>2, <2>1, CountDoes DEF ItemInv, Records
  <2>3. \A d \in Hosts : ~Pending(host'[d], i)
    BY <1>2, <2>1 DEF ItemInv, Fine, Going, Records, Pending, Verdicts
  <2>4. \A d \in Hosts : ~Due(host'[d], i)
    BY <2>3 DEF Due, Pending
  <2>5. Settled(i)'
    BY <1>2 DEF Settled, Records, Finishing
  <2>6. stale' = Hosts
    BY DEF Records
  <2> QED
    BY <2>2, <2>3, <2>4, <2>5, <2>6 DEF ItemInv
<1> QED
  BY <1>1, <1>2

LEMMA AnswersStep == TypeInv /\ HeldInv /\ AnswersInv /\ [Next]_vars => AnswersInv'
<1> SUFFICES ASSUME TypeInv, HeldInv, AnswersInv, [Next]_vars, NEW i \in Items \ excused'
             PROVE  ItemInv(i)'
  BY DEF AnswersInv
<1>1. Frame /\ ItemInv(i)
  BY StepDoes DEF Frame, AnswersInv
<1>2. CASE \E c \in Hosts : Fine(c)
  <2>1. PICK c \in Hosts : Fine(c)
    BY <1>2
  <2>2. CASE Aside(c)
    BY <1>1, <2>1, <2>2, ItemOther DEF Aside, Fine, Pending, Due, Waiting
  <2> QED
    BY <1>1, <2>1, <2>2, ItemAsks, ItemEnters, ItemBegins, ItemRecords DEF Fine, Answering
<1>3. CASE host' = host /\ answers' = answers
  BY <1>1, <1>3, ItemQuiet
<1>4. CASE Expires
  BY <1>1, <1>4, ItemQuiet DEF Expires, Pending, Due, Waiting, Finishing
<1> QED
  BY <1>2, <1>3, <1>4, StepDoes DEF Rests

LEMMA AnswersInit == Init => AnswersInv
<1> SUFFICES ASSUME Init, NEW i \in Items PROVE ItemInv(i)
  BY DEF AnswersInv
<1>1. \A c \in Hosts : host[c].pc = "idle"
  BY IdleSound DEF Init
<1>2. answers[i] = 0
  BY DEF Init
<1> QED
  BY <1>1, <1>2 DEF ItemInv, Pending, Due, Waiting

\* An item is answered once (host_work.py, host_api.py, concurrency.py), however
\* long it is from the check of an answer to its record and whatever expires in
\* between: but for the items that are excused.
THEOREM AnsweredOnceHolds == Spec => []AnsweredOnce
<1>1. TypeInv /\ [Next]_vars => TypeInv'
  BY StepDoes
<1>2. AnswersInv => AnsweredOnce
  BY DEF AnswersInv, AnsweredOnce, ItemInv
<1> QED
  BY InitTypeInv, CopyInit, HeldStep, AnswersInit, AnswersStep, <1>1, <1>2, PTL DEF Spec
=============================================================================
