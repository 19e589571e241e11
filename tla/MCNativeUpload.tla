--------------------------- MODULE MCNativeUpload ---------------------------
(***************************************************************************)
(* Two attempts for one target: two attempts at one transfer, of the same  *)
(* or of different intents, or one at each of two transfers, one of them   *)
(* fresh.  Wrong data, failed writes and windows of one chunk happen only  *)
(* where both attempts are of one transfer.                                *)
(***************************************************************************)
EXTENDS NativeUpload, TLC

CONSTANTS h1, h2, t1, t2, i1, i2

MCInit ==
  /\ Init
  /\ helper[h1].window = helper[h2].window
  /\ helper[h1].id # helper[h2].id =>
       /\ helper[h1].window = 2
       /\ helper[h1].intent = helper[h2].intent
       /\ helper[h1].mode # helper[h2].mode

MCNext ==
  /\ Next
  /\ helper[h1].id # helper[h2].id =>
       \A h \in Helpers, k \in 1..Size : inode'[h].data[k] \notin {"failed", "wrong"}

MCSpec == MCInit /\ [][MCNext]_vars

Symmetry ==
  Permutations(Helpers) \cup Permutations(Transfers) \cup Permutations(Intents)
=============================================================================
