----------------------------- MODULE MCTimeSync -----------------------------
EXTENDS TimeSync
=============================================================================
