----------------------------- MODULE SlicePatches -----------------------------
(***************************************************************************)
(* What an execution promises of its patches: the patch of a slice lands   *)
(* in the worktree as a whole, or not at all; it lands once, after the     *)
(* slices it depends on are complete and while no other slice of its       *)
(* workflow has landed and waits for its completion.                       *)
(***************************************************************************)
CONSTANTS Workflows, Slices, Depends

VARIABLES
  landed,   \* slices whose patch is in the worktree
  done      \* slices that count as completed

Init == landed = {} /\ done = {}

Land(w, s) ==
  /\ <<w, s>> \notin landed
  /\ \A d \in Depends[s] : <<w, d>> \in done
  /\ \A r \in Slices : <<w, r>> \in landed => <<w, r>> \in done
  /\ landed' = landed \cup {<<w, s>>}
  /\ UNCHANGED done

Complete(w, s) ==
  /\ <<w, s>> \in landed \ done
  /\ done' = done \cup {<<w, s>>}
  /\ UNCHANGED landed

Next == \E w \in Workflows, s \in Slices : Land(w, s) \/ Complete(w, s)

Spec == Init /\ [][Next]_<<landed, done>>
=============================================================================
