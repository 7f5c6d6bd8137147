----------------------------- MODULE MCCertStore -----------------------------
(***************************************************************************)
(* Instances of CertStore for TLC.                                         *)
(***************************************************************************)
EXTENDS CertStore

CONSTANTS leaf, inter, inter2, root

MCNotAfter == [c \in Fps |-> CASE c = leaf -> 1 [] c = inter -> 2
                               [] c = inter2 -> 3 [] OTHER -> 4]

MCChain == [c \in Fps |-> CASE c = leaf -> {inter, inter2} \cap Fps
                            [] c \in {inter, inter2} -> {root} \cap Fps
                            [] OTHER -> {}]

=============================================================================
