----------------------------- MODULE AtMostOnce -----------------------------
(***************************************************************************)
(* What the gateway promises about an Idempotency-Key: one attempt claims  *)
(* it, the operation behind it runs at most once, its result is settled    *)
(* once and for all, and only that result, once settled, is ever given to  *)
(* the attempts that bring the same key and the same request.              *)
(***************************************************************************)
CONSTANTS
    Keys,
    Attempts,
    KeyOf,      \* [Attempts -> Keys]
    RequestOf,  \* [Attempts -> the request the attempt makes]
    None

VARIABLES
    claim,   \* [Keys -> the attempt that claimed the key, or None]
    outcome, \* [Keys -> how the operation ended: "none", "ok" or "raised"]
    settled, \* [Keys -> the result on record: "none", "completed" or "failed"]
    given    \* <<to, of>>: attempt `to` was answered with the result of `of`

vars == <<claim, outcome, settled, given>>

Init ==
    /\ claim = [k \in Keys |-> None]
    /\ outcome = [k \in Keys |-> "none"]
    /\ settled = [k \in Keys |-> "none"]
    /\ given = {}

Claim(k) ==
    /\ claim[k] = None
    /\ \E a \in Attempts : KeyOf[a] = k /\ claim' = [claim EXCEPT ![k] = a]
    /\ UNCHANGED <<outcome, settled, given>>

Operate(k) ==
    /\ claim[k] # None /\ outcome[k] = "none"
    /\ \E o \in {"ok", "raised"} : outcome' = [outcome EXCEPT ![k] = o]
    /\ UNCHANGED <<claim, settled, given>>

Settle(k) ==
    /\ outcome[k] # "none" /\ settled[k] = "none"
    /\ settled' = [settled EXCEPT ![k] = IF outcome[k] = "ok" THEN "completed" ELSE "failed"]
    /\ UNCHANGED <<claim, outcome, given>>

Answer(k) ==
    /\ settled[k] = "completed"
    /\ \E a \in Attempts :
          /\ KeyOf[a] = k /\ RequestOf[a] = RequestOf[claim[k]]
          /\ given' = given \cup {<<a, claim[k]>>}
    /\ UNCHANGED <<claim, outcome, settled>>

Next == \E k \in Keys : Claim(k) \/ Operate(k) \/ Settle(k) \/ Answer(k)

Spec == Init /\ [][Next]_vars
=============================================================================
