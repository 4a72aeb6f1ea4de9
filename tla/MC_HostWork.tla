----------------------------- MODULE MC_HostWork -----------------------------
EXTENDS HostWork

CONSTANTS h1, h2, loop, client
=============================================================================
