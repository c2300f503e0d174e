----------------------------- MODULE MCEventLog -----------------------------
(* Scenarios of EventLog for TLC. *)
EXTENDS EventLog

(* An array of two elements and the records of its elements *)
arrays == [kinds |-> {"new", "start", "end", "back", "requeue", "clean"},
           ops |-> 5, ticks |-> 1, stops |-> 1, fails |-> 0,
           queues |-> {"q1"}, elems |-> {0, 1}, maxJobId |-> 2]

(* Closing and opening around switches; the ids wrap *)
closings == [kinds |-> {"new", "end", "clean", "host", "queue", "fail"},
             ops |-> 6, ticks |-> 0, stops |-> 1, fails |-> 0,
             queues |-> {"q1"}, elems |-> {0}, maxJobId |-> 3]

(* Two stops and a failing switch; ids enough not to wrap *)
switches == [kinds |-> {"new", "end", "clean", "move"},
             ops |-> 4, ticks |-> 0, stops |-> 2, fails |-> 1,
             queues |-> {"q1", "q2"}, elems |-> {0}, maxJobId |-> 40]

(* Pending signals over two stops *)
signals == [kinds |-> {"new", "start", "suspend", "end", "signal", "clean"},
            ops |-> 5, ticks |-> 0, stops |-> 2, fails |-> 0,
            queues |-> {"q1"}, elems |-> {0}, maxJobId |-> 3]

AllScenarios == {arrays, closings, switches, signals}

submissions == {[kinds |-> {"new", "fail"}, ops |-> 3, ticks |-> 0, stops |-> 0,
                 fails |-> 0, queues |-> {"q1"}, elems |-> {0}, maxJobId |-> 5]}
=============================================================================
