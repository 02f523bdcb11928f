---------------------------- MODULE JobLifecycle ----------------------------
(***************************************************************************)
(* What the queue and its workers promise of one job, apart from tables,   *)
(* heartbeats and runs: it waits, one worker takes it, that worker alone   *)
(* starts it, gives it back or finishes it, and a job is done again only   *)
(* if nobody drives it any more and it is not done.                        *)
(***************************************************************************)
CONSTANTS Jobs, Workers, Null

VARIABLES
    stage,  \* where each job is
    driver  \* the worker at work on it, or Null

Init == stage = [j \in Jobs |-> "none"] /\ driver = [j \in Jobs |-> Null]

Kept(j) == stage'[j] = stage[j] /\ driver'[j] = driver[j]

\* Only job j moves, to stage s and driver d.
Moves(j, s, d) == /\ stage'[j] = s /\ driver'[j] = d
                  /\ \A i \in Jobs \ {j} : Kept(i)

Add(j) == stage[j] = "none" /\ Moves(j, "waiting", Null)

\* A worker drives one job at a time.
Take(w, j) == /\ stage[j] = "waiting"
              /\ \A i \in Jobs : driver[i] # w
              /\ Moves(j, "taken", w)

\* What its driver does with a job.
Start(w, j) == stage[j] = "taken" /\ driver[j] = w /\ Moves(j, "running", w)
GiveBack(w, j) == stage[j] = "taken" /\ driver[j] = w /\ Moves(j, "waiting", Null)
Finish(w, j) == stage[j] \in {"taken", "running"} /\ driver[j] = w /\ Moves(j, "done", Null)

\* The driver dies, or gives up without telling the queue.
Lose(w, j) == driver[j] = w /\ Moves(j, stage[j], Null)

\* One pass takes back any number of the jobs that nobody drives.
Undriven == {j \in Jobs : stage[j] \in {"taken", "running"} /\ driver[j] = Null}
Redo(S) == /\ \A j \in S : stage'[j] = "waiting" /\ driver'[j] = Null
           /\ \A j \in Jobs \ S : Kept(j)

Next ==
    \/ \E j \in Jobs : Add(j)
    \/ \E w \in Workers, j \in Jobs :
          Take(w, j) \/ Start(w, j) \/ GiveBack(w, j) \/ Finish(w, j) \/ Lose(w, j)
    \/ \E S \in SUBSET Undriven : Redo(S)

Spec == Init /\ [][Next]_<<stage, driver>>
=============================================================================
