----------------------------- MODULE SharedLogStore -----------------------------
(***************************************************************************)
(* SharedLog keeps the promise of FamilyStore.  The families are those the *)
(* disk lists, and what a family stores is what its tables hold together   *)
(* with what a replay of the logs on disk would give it: a batch is        *)
(* committed by the one step that appends its record, and no crash, flush, *)
(* log deletion or stage of opening changes the store.                     *)
(***************************************************************************)
EXTENDS SharedLog

\* What a crash at this moment would leave of family f.
Recoverable(f) ==
  IF f \in OnDisk
  THEN man[f].tables \cup
         BatchesOf({r \in wal : man[f].log <= r.log}, f)
  ELSE {}

Store == INSTANCE FamilyStore
  WITH Numbers  <- 1 .. MaxSeq,
       families <- OnDisk,
       store    <- [f \in Families |-> Recoverable(f)],
       used     <- {r.seq : r \in hist},
       dead     <- gone

\* The shared log implements the store: an acknowledged batch survives in
\* every family or, before its record is appended, in none; creations and
\* drops survive too; nothing is resurrected.
ImplementsStore == Store!StoreSpec
==============================================================================
