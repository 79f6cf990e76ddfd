---------------------------- MODULE MCBlockCache -----------------------------
(* Instances of BlockCache for TLC. *)
EXTENDS BlockCache, TLC

CONSTANTS u1, u2, f1, f2

\* bcache_flusher, which also releases blocks when memory is short, and a
\* thread that syncs or waits for space in the log.
FlushAndSync ==
  (f1 :> {"cache_flusher", "release_cache_blocks"})
    @@ (f2 :> {"flush_device_cache", "flush_cache_block"})

\* Block 0 holds metadata, block 1 is the end of a file, the others are written
\* whole.  (A block that changes its use is left to the proofs.)
MetaAndFile ==
  (0 :> {"write_logged_blocks"})
    @@ (1 :> {"get_cache_block", "get_empty_block"})
    @@ [b \in Blocks |-> {"cached_write"}]
=============================================================================
