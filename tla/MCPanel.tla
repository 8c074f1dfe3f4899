------------------------------- MODULE MCPanel -------------------------------
\* An instance of Panel for TLC.
EXTENDS Panel
=============================================================================
