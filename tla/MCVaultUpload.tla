---------------------------- MODULE MCVaultUpload ----------------------------
(***************************************************************************)
(* Small instances of VaultUpload.  Two uploads compete for one slot; one  *)
(* of them may be empty.                                                   *)
(***************************************************************************)
EXTENDS VaultUpload

CONSTANTS a, b

TwoUploads == {a, b}

\* a file of two segments and one of one segment
BothNonEmpty == [u \in TwoUploads |-> IF u = a THEN 2 ELSE 1]

\* a file of two segments and an empty one
OneEmpty == [u \in TwoUploads |-> IF u = a THEN 2 ELSE 0]

\* Bounds: a payment is followed until it is confirmed, which starts its
\* upload; that of a file with segments to all its ends, or no further either.
ShortPayment(u) == invoice[u] \in {"none", "waiting", "confirming", "confirmed"}
ShortIfEmpty == ShortPayment(b)
ShortPayments == ShortPayment(a) /\ ShortPayment(b)
=============================================================================
