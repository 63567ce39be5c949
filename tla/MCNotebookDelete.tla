-------------------------- MODULE MCNotebookDelete --------------------------
EXTENDS NotebookDelete

CONSTANTS p1, p2

MCProcess == {p1, p2}
=============================================================================
