---------------------------- MODULE MCAlgorithms ----------------------------
EXTENDS Algorithms
============================================================================
