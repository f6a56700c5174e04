------------------------------ MODULE MCSched ------------------------------
(* Sched on a small instance: two fibers, one fd, one semaphore.           *)
EXTENDS Sched

=============================================================================
