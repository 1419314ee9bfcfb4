------------------------- MODULE MCSessionLifecycle -------------------------
(* Small instances of SessionLifecycle for TLC. *)
EXTENDS SessionLifecycle, TLC

MCSymmetry == Permutations(Bodies)

\* What does not distinguish states: the fields of a body nothing refers to
\* and those of a connection that is over.
MCView ==
    <<registry, claims, world, idling,
      [s \in Sessions |-> IF Gone(s) THEN <<>> ELSE sess[s]],
      [b \in Bodies |-> IF b \in Referenced THEN bod[b] ELSE LoadedBody(NoName)]>>
=============================================================================
