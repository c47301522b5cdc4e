-------------------------- MODULE MCServiceWorker ---------------------------
(* An instance of ServiceWorker for TLC. *)
EXTENDS ServiceWorker, TLC

CONSTANTS p1, p2, p3, h1, h2, f1, j1, j2

MCPageUrl == {p1, p2, p3}
MCHashedUrl == {h1, h2}
MCStableUrl == {f1}
MCJob == {j1, j2}
MCLimit == (PAGES :> 2) @@ (ASSETS :> 1)

MCSymmetry ==
    Permutations(MCPageUrl) \cup Permutations(MCHashedUrl) \cup Permutations(MCJob)

=============================================================================
