------------------------------- MODULE RoomStore -------------------------------
(***************************************************************************)
(* What on-line creation promises about a zone, whoever edits it and over  *)
(* whichever frontend: prototypes in memory and their files. A commit      *)
(* replaces one prototype in memory and only that, a save writes one kind's *)
(* whole file as memory is at that moment, and a restart comes back with    *)
(* the files. OlcEditing implements it.                                     *)
(***************************************************************************)
CONSTANTS Resources, Kinds, KindOf, Contents
VARIABLES memory, file

StoreInit == file \in [Resources -> Contents] /\ memory = file

Commit(r) ==
    /\ \E c \in Contents : memory' = [memory EXCEPT ![r] = c]
    /\ UNCHANGED file

Save(k) ==
    /\ file' = [r \in Resources |-> IF KindOf[r] = k THEN memory[r] ELSE file[r]]
    /\ UNCHANGED memory

Restart == memory' = file /\ UNCHANGED file

StoreNext == (\E r \in Resources : Commit(r)) \/ (\E k \in Kinds : Save(k)) \/ Restart

StoreSpec == StoreInit /\ [][StoreNext]_<<memory, file>>
=============================================================================
