---------------------------- MODULE MCFileCache ----------------------------
\* The bounds of the model checking of FileCache, and its symmetry.
EXTENDS FileCache, TLC

ReadsWrites == {"read", "write"}
All         == Operations
Symmetry    == Permutations(Users)
=============================================================================
