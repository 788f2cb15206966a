------------------------ MODULE MCPublisherStreams ------------------------
EXTENDS PublisherStreams, TLC

Swaps == Permutations(Threads) \cup Permutations(PublisherTitles)
=============================================================================
