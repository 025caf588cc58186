---------------------------- MODULE JobLifecycle ----------------------------
(***************************************************************************)
(* What the jobs table promises a client that polls it or follows it over  *)
(* SSE: a job is queued, then runs with a progress that only grows, and    *)
(* ends once, done at 100 or failed where it stood.  An update may be      *)
(* lost, so a status may be skipped, but nothing a client saw is undone.   *)
(***************************************************************************)
EXTENDS Naturals

CONSTANT Jobs

VARIABLES status, progress

vars == <<status, progress>>

Init == /\ status   = [j \in Jobs |-> "absent"]
        /\ progress = [j \in Jobs |-> 0]

UnderWay(j) == status[j] \in {"queued", "running"}

Become(j, to) == status' = [status EXCEPT ![j] = to]

Enqueue(j) == /\ status[j] = "absent"
              /\ Become(j, "queued")
              /\ UNCHANGED progress

Begin(j) == /\ status[j] = "queued"
            /\ Become(j, "running")
            /\ UNCHANGED progress

Advance(j) ==
    /\ UnderWay(j)
    /\ \E p \in progress[j] .. 95 : progress' = [progress EXCEPT ![j] = p]
    /\ UNCHANGED status

Finish(j) == /\ UnderWay(j)
             /\ Become(j, "done")
             /\ progress' = [progress EXCEPT ![j] = 100]

Fail(j) == /\ UnderWay(j)
           /\ Become(j, "failed")
           /\ UNCHANGED progress

Next == \E j \in Jobs : \/ Enqueue(j)
                        \/ Begin(j)
                        \/ Advance(j)
                        \/ Finish(j)
                        \/ Fail(j)

Spec == Init /\ [][Next]_vars
=============================================================================
