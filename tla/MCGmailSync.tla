----------------------------- MODULE MCGmailSync -----------------------------
EXTENDS GmailSync, TLC

Threads == Permutations(Thread)
=============================================================================
