----------------------------- MODULE IntentQueue -----------------------------
(* What the embedding runtime promises about change intents, whatever its     *)
(* coordinator does in between: intents for a key are numbered upwards, the   *)
(* newest one counts, and only work on the newest one has an effect and ends  *)
(* the wait for it.  EmbeddingRuntime implements it, with a queue, work in    *)
(* flight, batches, retries and cancellation.                                 *)
EXTENDS Naturals

CONSTANTS Keys, Idle   \* Idle: no intent

VARIABLES
    open,     \* the effects have been loaded
    last,     \* the number given out last
    newest,   \* key -> its newest intent that was not carried out
    claimed,  \* key -> the intent being worked on
    effect    \* key -> what the work has achieved

vars == <<open, last, newest, claimed, effect>>

\* Fresh and distinct numbers for every key of S.
Number(S) ==
    /\ last' >= last
    /\ \A k \in S : newest'[k] \in last + 1 .. last'
    /\ \A j, k \in S : j # k => newest'[j] # newest'[k]
    /\ \A k \in Keys \ S : newest'[k] = newest[k]

\* All keys start with an intent or without one.
Init ==
    /\ open = FALSE
    /\ \A k \in Keys : claimed[k] = Idle /\ (newest[k] = Idle \/ newest[k] \in 1..last)

Submit(k) == Number({k}) /\ UNCHANGED <<open, claimed, effect>>

\* The effects of an earlier run are loaded; what has no intent gets one.
Open ==
    /\ ~open /\ open' = TRUE
    /\ \E S \in SUBSET {k \in Keys : newest[k] = Idle} : Number(S)
    /\ UNCHANGED claimed

\* Work begins on the newest intents of some keys.
Claim(S) ==
    /\ claimed' = [k \in Keys |-> IF k \in S THEN newest[k] ELSE claimed[k]]
    /\ UNCHANGED <<open, last, newest, effect>>

\* Work on the newest intent of a key ends well, and only this has an effect.
Settle(k) ==
    /\ claimed[k] # Idle /\ claimed[k] = newest[k]
    /\ claimed' = [claimed EXCEPT ![k] = Idle]
    /\ newest'  = [newest EXCEPT ![k] = Idle]
    /\ \A j \in Keys \ {k} : effect'[j] = effect[j]
    /\ UNCHANGED <<open, last>>

\* Work is given up: it failed and will be claimed again, or it was overtaken.
Release(S) ==
    /\ claimed' = [k \in Keys |-> IF k \in S THEN Idle ELSE claimed[k]]
    /\ UNCHANGED <<open, last, newest, effect>>

\* A new runtime starts over.
Restart == Init'

Next ==
    \/ \E k \in Keys : Submit(k) \/ Settle(k)
    \/ \E S \in (SUBSET Keys) \ {{}} : Claim(S) \/ Release(S)
    \/ Open \/ Restart

Spec == Init /\ [][Next]_vars
=============================================================================
