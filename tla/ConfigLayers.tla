---------------------------- MODULE ConfigLayers ----------------------------
(***************************************************************************)
(* What the config plane promises about the groups, without its lock,      *)
(* transactions and crashes: two layers, a base and what the API wrote on  *)
(* top of it, and the registry in force, which is always their overlay.    *)
(* A write of the API changes one entry of the registry in force, and from *)
(* then on the API's layer holds that registry; putting another base under *)
(* the layer (reload, apply, settings, a restart) never loses the layer;   *)
(* only a reset empties it.                                                *)
(***************************************************************************)
CONSTANTS
    Entries,   \* the names of the section
    Definitions,
    None       \* no definition

VARIABLES base, api, reg

lvars == <<base, api, reg>>

Layer == [Entries -> Definitions \cup {None}]

Over(b, a) == [e \in Entries |-> IF a[e] # None THEN a[e] ELSE b[e]]

LInit == base \in Layer /\ api \in Layer /\ reg = Over(base, api)

\* A name of the base is the file's: the API does not write it.
Write(e, d) ==
    /\ base[e] = None
    /\ reg' = [reg EXCEPT ![e] = d]
    /\ api' = reg'
    /\ base' = base

\* Another base is put under the API's layer ...
Rebase == base' \in Layer /\ api' = api /\ reg' = Over(base', api)

\* ... which only a reset empties.
Reset == base' \in Layer /\ api' = [e \in Entries |-> None] /\ reg' = base'

LNext == Rebase \/ Reset \/ \E e \in Entries, d \in Definitions \cup {None} : Write(e, d)

LSpec == LInit /\ [][LNext]_lvars
=============================================================================
