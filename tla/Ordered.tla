------------------------------ MODULE Ordered ------------------------------
(***************************************************************************)
(* The loops of internal/source that go over a list and keep some of it:   *)
(* resources of the configuration, guides with an error, inputs that were  *)
(* read.  A recursive function, so that the proofs can follow the loop.    *)
(***************************************************************************)
EXTENDS Naturals, Sequences

\* The elements of a sequence that are in a set, in the sequence's order.
Those(s, kept) ==
  LET upTo[n \in 0 .. Len(s)] ==
        IF n = 0 THEN <<>> ELSE IF s[n] \in kept THEN Append(upTo[n - 1], s[n]) ELSE upTo[n - 1]
  IN upTo[Len(s)]
=============================================================================
