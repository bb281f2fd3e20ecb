------------------------- MODULE MCPaperLiveService -------------------------
(* Instances of PaperLiveService for TLC. *)
EXTENDS PaperLiveService, TLC

\* Feed threads are interchangeable.
FeedSymmetry == Permutations(Feed)

=============================================================================
