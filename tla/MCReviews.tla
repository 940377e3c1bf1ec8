----------------------------- MODULE MCReviews -----------------------------
EXTENDS Reviews, TLC

Interchangeable ==
    Permutations(Handlers) \cup Permutations(Creators) \cup Permutations(Requests)
=============================================================================
