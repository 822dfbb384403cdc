---------------------------- MODULE MCEventLoop ----------------------------
(* EventLoop for TLC: interpreters with and without the host layer, running *)
(* programs that use its timers and queues, and programs that wait.         *)
EXTENDS EventLoop

Embedded(with, n, asks) == [hosted |-> with, scripts |-> n, asks |-> asks]

TimersAndWaits ==
    {Embedded(TRUE, 2, {"tick", "job", "timer", "clear"}),
     Embedded(TRUE, 1, {"tick", "job", "timer", "interval", "clear"}),
     Embedded(TRUE, 1, {"job", "timer", "immediate", "clear"}),
     Embedded(TRUE, 1, {"tick", "timer", "wait", "notify"}),
     Embedded(FALSE, 1, {"job", "timer", "interval", "clear"}),
     Embedded(FALSE, 1, {"timer", "interval", "block"}),
     Embedded(FALSE, 1, {"job", "timer", "wait", "notify", "block"})}
=============================================================================
