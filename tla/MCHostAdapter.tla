------------------------------ MODULE MCHostAdapter ------------------------------
\* Runs whose devices are behind one adapter are alike.
EXTENDS HostAdapter, TLC

Symmetry == Permutations(Runs)
==================================================================================
