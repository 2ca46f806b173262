----------------------------- MODULE MCBlockIo -----------------------------
(* Three processes, three buffers, and descriptors for two requests at once. *)
EXTENDS BlockIo

\* What the buffers hold at first.
MCHeld == <<4, 5, 6>>

\* A block that is changed; one that goes through the log, also again while it is
\* pinned; and one that drives others out of the cache.
MCCalls == {<<1, "write">>, <<2, "log">>, <<2, "install">>, <<3, "read">>}
=============================================================================
