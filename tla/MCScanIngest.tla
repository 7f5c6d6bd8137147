----------------------------- MODULE MCScanIngest -----------------------------
(***************************************************************************)
(* The instance of ScanIngest for TLC.                                     *)
(***************************************************************************)
EXTENDS ScanIngest, TLC

CONSTANTS f1, f2, d1

\* d1 lists the old and the new signing certificate, as metadata does during a
\* key roll-over; the other document lists none.
MCDocCerts == [d \in Docs |-> IF d = d1
                              THEN <<[fp |-> f1, use |-> "signing"],
                                     [fp |-> f2, use |-> "signing"]>>
                              ELSE <<>>]

\* Nothing tells one request from another.
MCSymmetry == Permutations(Workers)

=============================================================================
