------------------------------ MODULE FamilyStore ------------------------------
(***************************************************************************)
(* What the storage core promises its users: a set of families, each       *)
(* holding the batches written to it.  A batch is committed at once to     *)
(* every family it touches, in the order of the sequence numbers; a family *)
(* starts empty, disappears as a whole when dropped, and its id never      *)
(* comes back.  There are no crashes here, no logs and no flushes: a store *)
(* that keeps the promise hides them.                                      *)
(***************************************************************************)
EXTENDS Naturals

CONSTANTS Families,  \* the ids a family can have
          Numbers    \* the sequence numbers

VARIABLES families,  \* the families that exist
          store,     \* the batches a reader of each family can be shown
          used,      \* the sequence numbers given out
          dead       \* ids of the families that were dropped

storeVars == <<families, store, used, dead>>

StoreInit ==
  /\ families = {0}
  /\ store = [f \in Families |-> {}]
  /\ used = {}
  /\ dead = {}

\* A batch with the sequence number q, later than all before it, becomes part
\* of every family of fs that still exists.
Commit(fs, q) ==
  /\ \A p \in used : p < q
  /\ used' = used \cup {q}
  /\ store' = [f \in Families |-> IF f \in fs \cap families
                                  THEN store[f] \cup {q} ELSE store[f]]
  /\ UNCHANGED <<families, dead>>

Add(f) ==
  /\ f \notin families \cup dead
  /\ store[f] = {}
  /\ families' = families \cup {f}
  /\ UNCHANGED <<store, used, dead>>

Remove(f) ==
  /\ f \in families \ {0}
  /\ families' = families \ {f}
  /\ dead' = dead \cup {f}
  /\ store' = [store EXCEPT ![f] = {}]
  /\ UNCHANGED used

StoreNext == \/ \E fs \in SUBSET Families, q \in Numbers : Commit(fs, q)
             \/ \E f \in Families : Add(f) \/ Remove(f)

StoreSpec == StoreInit /\ [][StoreNext]_storeVars
==============================================================================
