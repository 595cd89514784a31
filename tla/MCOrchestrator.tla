--------------------------- MODULE MCOrchestrator ---------------------------
EXTENDS Orchestrator, TLC

\* Gains raise the peak, and two losses from the top are 16.7%.
TwoWayMarks == {-2, 0, 2}

\* Gains are the money run's: two losses from the top are 14.3%, three 21.4%.
DownwardMarks == {-2, 0}

\* Money stands still.
NoMarks == {0}

\* Two actors are interchangeable.
Symmetry == Permutations(Actors)
=============================================================================
