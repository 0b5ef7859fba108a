----------------------------- MODULE MCLiveBoard -----------------------------
EXTENDS LiveBoard
=============================================================================
