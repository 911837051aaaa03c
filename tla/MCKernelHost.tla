---------------------------- MODULE MCKernelHost ----------------------------
\* User 0, whose id is the kernel's initial one, may not join; user 1 may join
\* and read but not post; the store does not know user 2.
EXTENDS KernelHost, TLC

MCStoredRights == 0 :> {"Read", "Post"} @@ 1 :> {"Join", "Read"}
=============================================================================
