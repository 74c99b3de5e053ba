----------------------- MODULE MCCodexOperationQueue -----------------------
\* Two messages and a compaction on one thread; entries are model values.
EXTENDS CodexOperationQueue
=============================================================================
