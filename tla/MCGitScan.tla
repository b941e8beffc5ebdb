------------------------------ MODULE MCGitScan ------------------------------
(***************************************************************************)
(* Two clones of one repository.  c1's tree holds two blobs, one at two   *)
(* paths; c2's tree one blob at two paths.  The plain-file phase may have  *)
(* put either blob of c1 under a working-tree path before the git phase.   *)
(***************************************************************************)
EXTENDS GitScan, TLC

CONSTANTS p1, p2, p3, b1, b2, c1, c2

MCPaths == {p1, p2, p3}
MCBlobs == {b1, b2}
MCCommits == {c1, c2}

MCTree == (c1 :> <<<<p1, b1>>, <<p2, b2>>, <<p3, b1>>>>) @@ (c2 :> <<<<p1, b2>>, <<p2, b2>>>>)

MCInitialFiles == {<<p1, b1>>, <<p2, b2>>}

GitRef(k, s, h, rej, o, c) ==
    [kind |-> k, short |-> s, head |-> h, rejected |-> rej, origin |-> o, commit |-> c]

\* HEAD on master at c1, a feature branch, origin/master, a tag at c2, a
\* tag that is the same commit as master, a git-annex branch, and the
\* second clone's HEAD on master at c1.
MCRepoRefs ==
    << GitRef("branch", "master", TRUE, FALSE, FALSE, c1),
       GitRef("branch", "feature", FALSE, FALSE, FALSE, c2),
       GitRef("remote", "origin/master", FALSE, FALSE, TRUE, c1),
       GitRef("tag", "v1", FALSE, FALSE, FALSE, c2),
       GitRef("tag", "v0", FALSE, FALSE, FALSE, c1),
       GitRef("branch", "git-annex", FALSE, TRUE, FALSE, c2),
       GitRef("branch", "master", TRUE, FALSE, FALSE, c1) >>

\* Only HEAD on master at c1; the tree of c1 with b2 already known.
MCOneRef == << GitRef("branch", "master", TRUE, FALSE, FALSE, c1) >>

=============================================================================
