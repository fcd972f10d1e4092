---------------------- MODULE MCTransactionCoordinator ----------------------
(***************************************************************************)
(* The instance TLC checks: three commands that compete for a revision,    *)
(* follow one another, and reuse a request identity with different bytes.  *)
(***************************************************************************)
EXTENDS TransactionCoordinator

CONSTANTS c1, c2, c3, r1, r2, meta, a, b

\* c1 and c2 compete for revision 0; c3 continues from revision 1 but reuses
\* the request identity of c1 with different bytes.
MCRequestOf == (c1 :> r1) @@ (c2 :> r2) @@ (c3 :> r1)
MCBase == (c1 :> 0) @@ (c2 :> 0) @@ (c3 :> 1)
MCWrites == (c1 :> {meta, a, b}) @@ (c2 :> {meta, a}) @@ (c3 :> {meta, b})
=============================================================================
