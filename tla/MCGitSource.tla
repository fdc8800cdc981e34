----------------------------- MODULE MCGitSource -----------------------------
(***************************************************************************)
(* GitSource on a small instance: an environment that may follow a branch, *)
(* a tag, a commit or nothing, change its repository, and be built from an *)
(* inline Dockerfile instead.                                              *)
(***************************************************************************)
EXTENDS GitSource

CONSTANTS r1, r2, feature, v1

Row(repo, ref, type) == [repo |-> repo, ref |-> ref, type |-> type]

MCRows == {Row(r1, Main, "git"), Row(r1, feature, "git"), Row(r1, v1, "git"),
           Row(r1, 3, "git"), Row(r1, Default, "git"), Row(r2, Main, "git"),
           Row(r1, Main, "dockerfile")}
=============================================================================
