---------------------------- MODULE MCScheduler ----------------------------
(***************************************************************************)
(* Graphs that are run by the scheduler: with two queues and no sources;   *)
(* with one queue, paused and cancelled; with two layers of sources on two *)
(* queues; with a source that is opened late, inputs and failures.         *)
(***************************************************************************)
EXTENDS Scheduler, TLC

CONSTANTS q1, q2, s1, s2

(* Besides the sources, one node is opened when the run starts.            *)
Fed(queues, ops, bound) ==
  [queues |-> queues, sources |-> {}, late |-> {}, layer |-> << >>, queueOf |-> << >>,
   openers |-> [q \in queues |-> IF q = q1 THEN 1 ELSE 0],
   hasInputs |-> TRUE, ops |-> ops, maxEmits |-> bound]

Layered(fed, late, queueOf) ==
  [fed EXCEPT !.sources = {s1, s2}, !.late = late, !.layer = s1 :> 0 @@ s2 :> 1,
                 !.queueOf = queueOf]

MCGraphs ==
  {Fed({q1, q2}, {"feed", "close", "cancel", "waitIdle", "stop"}, 3),
   Fed({q1}, {"feed", "close", "pause", "cancel"}, 3),
   [Layered(Fed({q1, q2}, {"fail", "stop", "throttle", "cancel"}, 2), {},
            s1 :> q1 @@ s2 :> q2) EXCEPT !.hasInputs = FALSE],
   Layered(Fed({q1}, {"feed", "close", "throttle"}, 2), {s2}, s1 :> q1 @@ s2 :> q1)}

(* A node may fail while the application adds a packet.                    *)
MCLateWork == {Fed({q1}, {"feed", "fail"}, 1)}

(* The graph is paused and resumed while a node on one queue makes a node  *)
(* on the other ready.                                                     *)
MCLateReport == {Fed({q1, q2}, {"feed", "close", "pause"}, 2)}
=============================================================================
