---------------------------- MODULE MCLockOrder ----------------------------
\* A small instance of LockOrder: one repository and its workspaces, without
\* symmetry, which the liveness property does not allow.
EXTENDS LockOrder

CONSTANTS p1, p2, r1, w1, w2

Two        == {p1, p2}
Everything == Job
OneRepo    == {r1}
Workspaces == {w1, w2}
============================================================================
