------------------------- MODULE MCWorkspaceStore -------------------------
(* A small workspace for TLC: ids of one kind are interchangeable. *)
EXTENDS WorkspaceStore

Sym == Permutations(Project) \cup Permutations(Folder)
         \cup Permutations(Panel) \cup Permutations(Session)
=============================================================================
