-------------------------- MODULE MCCpuScheduler ---------------------------
(* Two workers and local queues of two slots.  In the first plan running     *)
(* item 1 fills the local queue past its end while the I/O worker adds item  *)
(* 6; in the second an item stops the scheduler while others are queued.     *)
EXTENDS CpuScheduler

MCWorkers == {0, 1}
MCPlans ==
  { [push |-> <<1, 6>>, spawn |-> <<<<2, 3, 4, 5>>, <<>>, <<>>, <<>>, <<>>, <<>>>>],
    [push |-> <<1, 2>>, spawn |-> <<<<3, 4, Stop, Stop>>, <<>>, <<>>, <<>>>>] }
=============================================================================
