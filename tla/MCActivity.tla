------------------------------ MODULE MCActivity ------------------------------
EXTENDS Activity, TLC
=============================================================================
