--------------------------- MODULE MCRingBuffer ---------------------------
EXTENDS RingBuffer
=============================================================================
