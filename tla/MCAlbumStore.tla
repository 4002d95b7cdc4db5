------------------------------ MODULE MCAlbumStore ------------------------------
(* Small instances of AlbumStore for TLC. *)
EXTENDS AlbumStore, TLC

\* Frames and strategies are compared, never ordered.
Interchangeable == Permutations(Content) \cup Permutations(Strategy)
=============================================================================
