--------------------------- MODULE MCAsyncServer ---------------------------
(* Three clients over two descriptors, so that a descriptor is reused while  *)
(* closures of its earlier client may still be around; two workers.          *)
EXTENDS AsyncServer

CONSTANTS c1, c2, c3

MCClients == {c1, c2, c3}

=============================================================================
