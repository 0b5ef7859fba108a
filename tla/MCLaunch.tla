------------------------------- MODULE MCLaunch -------------------------------
EXTENDS Launch, TLC

Symmetry == Permutations(Launcher) \cup Permutations(Supervisor) \cup Permutations(Broker)
=============================================================================
