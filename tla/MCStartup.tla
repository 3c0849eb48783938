----------------------------- MODULE MCStartup -----------------------------
EXTENDS Startup, TLC
=============================================================================
