--------------------------- MODULE MCTranscriptSync ---------------------------
\* One thread; its transcript changes twice.
EXTENDS TranscriptSync
=============================================================================
