----------------------------- MODULE MCWorkerPool -----------------------------
(***************************************************************************)
(* Instances of WorkerPool for TLC.                                        *)
(***************************************************************************)
EXTENDS WorkerPool

\* The programs of the tests, one that quits its workers from the main thread and
\* calls the scheduler when it is gone, and one with more tasks than small fibers.
MCPrograms ==
  TestPrograms \cup
  { <<"Initialize", "StartAll", "SignalQuitAll", "WaitAll", "Destroy">>,
    <<"InitializePool", "RunNested", "WaitForCounter", "DestroyPool">>,
    <<"Initialize", "StartAll", "RunNested", "RunNested", "RunTerminate", "WaitForCounter", "WaitAll",
      "Destroy">> }

===============================================================================
