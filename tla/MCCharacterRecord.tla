------------------------- MODULE MCCharacterRecord -------------------------
(* Small instances of CharacterRecord for TLC. *)
EXTENDS CharacterRecord, TLC

MCSymmetry == Permutations(Bodies)

\* What does not distinguish states: the fields of a body nothing refers to,
\* those of a connection that is over, and who is outdated once that showed.
MCView ==
    <<registry, claims, world, idling, store, floor, snap, lostUpdate,
      IF lostUpdate THEN {} ELSE {s \in outdated : ~Gone(s)},
      [s \in Sessions |-> IF Gone(s) THEN <<>> ELSE sess[s]],
      [b \in Bodies |->
         IF b \in Referenced THEN <<bod[b], kit[b], load[b]>> ELSE <<>>]>>
=============================================================================
