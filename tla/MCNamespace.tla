----------------------------- MODULE MCNamespace -----------------------------
\* TLC instance of Namespace: a handful of inodes, two names.
EXTENDS Namespace
==============================================================================
