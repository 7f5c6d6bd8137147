------------------------------- MODULE MCTrust -------------------------------
(***************************************************************************)
(* A root, its cross-signed copy and a leaf; the second root, which signed *)
(* the copy, is in some listings and in no PEM bundle.                     *)
(***************************************************************************)
EXTENDS Trust, TLC

CONSTANTS r1, r2, x1, leaf, moz, ms

MCCerts == {r1, r2, x1, leaf}
MCCAs == {r1, r2, x1}
MCSigners == (r1 :> {r1}) @@ (r2 :> {r2}) @@ (x1 :> {r2}) @@ (leaf :> {r1, x1})
MCTwins == (r1 :> {r1, x1}) @@ (x1 :> {r1, x1}) @@ (r2 :> {r2}) @@ (leaf :> {leaf})
MCMatrices == {(r1 :> {moz}), (r1 :> {moz}) @@ (r2 :> {moz, ms}), (r2 :> {moz, ms})}
MCChains == {<<leaf, x1>>, <<leaf, x1, r2>>}
=============================================================================
