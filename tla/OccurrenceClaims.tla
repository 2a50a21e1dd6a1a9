-------------------------- MODULE OccurrenceClaims --------------------------
(***************************************************************************)
(* What the scheduler's run history promises for an execution key: it is   *)
(* claimed by one worker, at most once ever, and only the worker that      *)
(* claimed it closes it.  A worker that dies abandons its claim, and a     *)
(* cleanup may forget a key nobody works on, but never reopens it.         *)
(***************************************************************************)
CONSTANTS Workers, Key, None

VARIABLES
    claim,      \* key -> "open", "claimed", "closed" or "forgotten"
    working     \* worker -> the key it works on, or None

Init ==
    /\ claim = [k \in Key |-> "open"]
    /\ working = [w \in Workers |-> None]

Claim(w, k) ==
    /\ working[w] = None /\ claim[k] = "open"
    /\ claim' = [claim EXCEPT ![k] = "claimed"]
    /\ working' = [working EXCEPT ![w] = k]

Close(w, k) ==
    /\ working[w] = k /\ claim[k] = "claimed"
    /\ claim' = [claim EXCEPT ![k] = "closed"]
    /\ working' = [working EXCEPT ![w] = None]

Abandon(w, k) ==
    /\ working[w] = k
    /\ working' = [working EXCEPT ![w] = None]
    /\ UNCHANGED claim

Idle(k) == \A w \in Workers : working[w] # k

Forget ==
    /\ \A k \in Key :
         \/ claim'[k] = claim[k]
         \/ claim[k] \in {"claimed", "closed"} /\ claim'[k] = "forgotten" /\ Idle(k)
    /\ claim' = [k \in Key |-> claim'[k]]
    /\ UNCHANGED working

Next ==
    \/ \E w \in Workers, k \in Key : Claim(w, k) \/ Close(w, k) \/ Abandon(w, k)
    \/ Forget

Spec == Init /\ [][Next]_<<claim, working>>
=============================================================================
