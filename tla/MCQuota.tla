------------------------------- MODULE MCQuota -------------------------------
EXTENDS Quota, TLC

MCSizes == {1, 3}

Interchangeable == Permutations(Handlers)
=============================================================================
