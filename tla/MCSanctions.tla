----------------------------- MODULE MCSanctions -----------------------------
EXTENDS Sanctions, TLC
CONSTANTS EmbargoRows, TerminationRows, RetractionRows

AnyFirst == {Approval, Embargo}

MCMaxRows == [k \in Kinds |-> CASE k = Approval -> 0
                                [] k = Embargo -> EmbargoRows
                                [] k = Termination -> TerminationRows
                                [] k = Retraction -> RetractionRows]

Interchangeable == Permutations(Requests) \cup Permutations(Admins)
=============================================================================
