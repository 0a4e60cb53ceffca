--------------------------------- MODULE MCParser ---------------------------------
\* TLC instance of Parser: every line of a few lexemes.
EXTENDS Parser
================================================================================
