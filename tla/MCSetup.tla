-------------------------------- MODULE MCSetup --------------------------------
\* Setup, with the commands that are run as interchangeable model values.
EXTENDS Setup, TLC

CommandSymmetry == Permutations(Procs)
================================================================================
