-------------------------- MODULE MCCommentsScreen --------------------------
EXTENDS CommentsScreen
CONSTANT c1
MCInitialLists == {{}, {c1}}
=============================================================================
