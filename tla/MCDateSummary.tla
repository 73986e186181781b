--------------------------- MODULE MCDateSummary ---------------------------
\* DateSummary for TLC: the constants are in the configurations.
EXTENDS DateSummary
=============================================================================
