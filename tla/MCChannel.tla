------------------------------ MODULE MCChannel ------------------------------
EXTENDS Channel, TLC

Symmetry == Permutations(Senders) \cup Permutations(Receivers)

==============================================================================
