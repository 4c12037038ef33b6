---------------------------- MODULE MCFilesInbox ----------------------------
(* All kinds of requests over two threads.                                 *)
EXTENDS FilesInbox

CONSTANTS t1, t2
=============================================================================
