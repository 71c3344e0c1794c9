----------------------------- MODULE UsageLedger -----------------------------
(***************************************************************************)
(* What the write-behind of the budget counters promises, without its      *)
(* cells, baselines and dirty flags.  For every node and window an amount  *)
(* is owed (counted, not sent), in transit (sent, not written), or unsure  *)
(* (written, answer not seen); a durable record per window is shared by    *)
(* all nodes.  Amounts only move: nothing is written that was not owed,    *)
(* and nothing owed disappears, except                                     *)
(*   - what a node owes to an older window when it counts in a newer one,  *)
(*   - what a node owes when it forgets the bucket, and what it gets wrong *)
(*     when the answer to something sent before that comes after it,       *)
(*   - the record itself, when it is deleted,                              *)
(*   - what a node owes when it goes down,                                 *)
(*   - what was written and is owed again because its answer was an error, *)
(*   - and, once a node has been told to stop, what its two last writers   *)
(*     send twice.                                                         *)
(***************************************************************************)
EXTENDS Integers

CONSTANTS Nodes, MaxWindow

VARIABLES
    up,       \* up[n]: "up", "stopping" or "down"
    owed, transit, unsure,  \* amounts, per node and window
    lapsed,   \* the nodes that wait for an answer about what they have forgotten
    durable   \* durable[w]: the record in the store

lvars == <<up, owed, transit, unsure, lapsed, durable>>

Windows == 0..MaxWindow

LInit ==
    /\ up = [n \in Nodes |-> "up"]
    /\ owed    = [n \in Nodes |-> [w \in Windows |-> 0]]
    /\ transit = [n \in Nodes |-> [w \in Windows |-> 0]]
    /\ unsure  = [n \in Nodes |-> [w \in Windows |-> 0]]
    /\ lapsed  = {}
    /\ durable = [w \in Windows |-> 0]

\* At most, n has learnt what became of what it had forgotten.
Settled(n) == lapsed' \in {lapsed, lapsed \ {n}}

\* Only the amounts of n in window w may change.
OnlyAt(f, n, w) == \A m \in Nodes, v \in Windows : <<m, v>> # <<n, w>> => f'[m][v] = f[m][v]

\* n counts one more, or one less, in window w ...
Count(n, w) ==
    /\ up[n] # "down"
    /\ owed'[n][w] \in {owed[n][w] - 1, owed[n][w] + 1}
    /\ OnlyAt(owed, n, w)
    /\ UNCHANGED <<up, transit, unsure, lapsed, durable>>

\* ... or the first in a newer window, forgetting what it owes to the others.
Roll(n, w) ==
    /\ up[n] # "down"
    /\ owed' = [owed EXCEPT ![n] = [v \in Windows |-> IF v = w THEN 1 ELSE 0]]
    /\ UNCHANGED <<up, transit, unsure, lapsed, durable>>

\* n forgets the bucket, but not what it has sent.
Forget(n) ==
    /\ up[n] # "down"
    /\ owed' = [owed EXCEPT ![n] = [v \in Windows |-> 0]]
    /\ lapsed' \in {lapsed, lapsed \cup {n}}
    /\ UNCHANGED <<up, transit, unsure, durable>>

\* The records are deleted.
Erase ==
    /\ durable' = [w \in Windows |-> 0]
    /\ UNCHANGED <<up, owed, transit, unsure, lapsed>>

\* Everything owed to w is sent.
Send(n, w) ==
    /\ up[n] # "down"
    /\ transit'[n][w] + owed'[n][w] = transit[n][w] + owed[n][w]
    /\ owed'[n][w] = 0 \/ up[n] = "stopping"
    /\ OnlyAt(owed, n, w) /\ OnlyAt(transit, n, w)
    /\ UNCHANGED <<up, unsure, lapsed, durable>>

\* What is in transit is written; a record does not go below zero (it would
\* only if a refund were repeated).
Write(n, w) ==
    LET total == durable[w] + (transit[n][w] - transit'[n][w]) IN
    /\ up[n] # "down"
    /\ transit'[n][w] + unsure'[n][w] = transit[n][w] + unsure[n][w]
    /\ durable' = [durable EXCEPT ![w] = IF total > 0 THEN total ELSE 0]
    /\ OnlyAt(transit, n, w) /\ OnlyAt(unsure, n, w)
    /\ UNCHANGED <<up, owed, lapsed>>

\* The store refused: what was in transit is owed again, unless n has moved on
\* to a newer window or forgotten it since.
Refuse(n, w) ==
    /\ up[n] # "down"
    /\ Settled(n)
    /\ owed'[n][w] \in {owed[n][w], owed[n][w] + (transit[n][w] - transit'[n][w])}
    /\ OnlyAt(owed, n, w) /\ OnlyAt(transit, n, w)
    /\ UNCHANGED <<up, unsure, durable>>

\* The store confirmed: the amount is settled and nothing else moves.
Confirm(n, w) ==
    /\ up[n] # "down"
    /\ Settled(n)
    /\ owed'[n][w] = owed[n][w] \/ up[n] = "stopping" \/ n \in lapsed
    /\ OnlyAt(owed, n, w) /\ OnlyAt(unsure, n, w)
    /\ UNCHANGED <<up, transit, durable>>

\* The store wrote and answered with an error: the amount is owed a second time.
Repeat(n, w) ==
    /\ up[n] # "down"
    /\ Settled(n)
    /\ owed'[n][w] \in {owed[n][w], owed[n][w] + (unsure[n][w] - unsure'[n][w])}
    /\ OnlyAt(owed, n, w) /\ OnlyAt(unsure, n, w)
    /\ UNCHANGED <<up, transit, durable>>

Stop(n) ==
    /\ up[n] = "up"
    /\ up' = [up EXCEPT ![n] = "stopping"]
    /\ UNCHANGED <<owed, transit, unsure, lapsed, durable>>

GoDown(n) ==
    /\ up[n] # "down"
    /\ up' = [up EXCEPT ![n] = "down"]
    /\ owed'    = [owed EXCEPT ![n] = [w \in Windows |-> 0]]
    /\ transit' = [transit EXCEPT ![n] = [w \in Windows |-> 0]]
    /\ unsure'  = [unsure EXCEPT ![n] = [w \in Windows |-> 0]]
    /\ lapsed'  = lapsed \ {n}
    /\ UNCHANGED durable

Boot(n) ==
    /\ up[n] = "down"
    /\ up' = [up EXCEPT ![n] = "up"]
    /\ UNCHANGED <<owed, transit, unsure, lapsed, durable>>

LNext == \E n \in Nodes :
    \/ Stop(n) \/ GoDown(n) \/ Boot(n) \/ Forget(n) \/ Erase
    \/ \E w \in Windows :
         \/ Count(n, w) \/ Roll(n, w) \/ Send(n, w) \/ Write(n, w)
         \/ Refuse(n, w) \/ Confirm(n, w) \/ Repeat(n, w)

LSpec == LInit /\ [][LNext]_lvars
=============================================================================
