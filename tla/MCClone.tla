------------------------------ MODULE MCClone ------------------------------
\* Small instances of Clone for TLC.
EXTENDS Clone

\* The list as it stands: three branches.
Today == <<"branch", "branch", "branch">>

\* The list with pinned commits, as the entries commented out have them.
Pinned == <<"commit", "head", "commit">>
=============================================================================
