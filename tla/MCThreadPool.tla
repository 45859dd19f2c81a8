------------------------- MODULE MCThreadPool -------------------------
(* Model values for ThreadPool. *)
EXTENDS ThreadPool

CONSTANTS w1, w2, c1, c2, j1, j2, j3

TwoWorkers == {w1, w2}
OneWorker == {w1}
OneClient == {c1}
TwoClients == {c1, c2}
TwoJobs == {j1, j2}
ThreeJobs == {j1, j2, j3}
NoJobs == {}
FirstJob == {j1}
=============================================================================
