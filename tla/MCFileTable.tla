------------------------------ MODULE MCFileTable ------------------------------
\* TLC instance of FileTable.
EXTENDS FileTable
================================================================================
