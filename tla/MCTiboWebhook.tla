--------------------------- MODULE MCTiboWebhook ---------------------------
EXTENDS TiboWebhook, TLC

\* Completions are alike, and so are the tweets if there is nothing else.
Alike == Permutations(Completion)

\* The history of the monitor's requests decides nothing, and no property of
\* these runs reads it.
Observed == <<tables, requests, queue, waiting, last, faults, webhook>>
=============================================================================
