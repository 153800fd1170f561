---------------------------- MODULE MCSocketTasks ----------------------------
\* One socket, with what its memory may hold at first.
EXTENDS SocketTasks

AnyMemory == BOOLEAN
CleanMemory == {FALSE}
=============================================================================
