------------------------------- MODULE MCConflictSet -------------------------------
EXTENDS ConflictSet
\* Nothing, everything, and the range behind the first key.
SomeReads == {<<>>, <<0, 2>>, <<1, 2>>}
=============================================================================
