--------------------------- MODULE MCMoveStorage ---------------------------
(* Small instances of MoveStorage for TLC. *)
EXTENDS MoveStorage, TLC

CONSTANTS p1, p2

\* Torrents added to p2 while downloading, to be moved to p1 when finished.
Downloading == {[savePath |-> p1, downloadPath |-> p2, location |-> p2]}
\* Torrents without a download path.
Seeding == {[savePath |-> p1, downloadPath |-> NoPath, location |-> p1]}

Symmetry == Permutations(Torrent) \cup Permutations(Handle)
=============================================================================
