------------------------------- MODULE MCSem -------------------------------
(* Sem on a small instance: the fibers of MCSem.cfg share one semaphore.   *)
EXTENDS Sem

AnyTimeout == {-1, 0, 1}
NoTimeout  == {-1}

=============================================================================
