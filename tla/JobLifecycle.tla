---------------------------- MODULE JobLifecycle ----------------------------
(***************************************************************************)
(* What the gift-code engine promises about redemption jobs, without its   *)
(* queue, its Redis keys or its rows: a request is answered once, an       *)
(* accepted job runs at most once, and jobs run one at a time.  A job may  *)
(* be dropped before it ends; it is never started again.                   *)
(***************************************************************************)
CONSTANT Jobs

VARIABLE phase    \* phase[j]: where the life of job j has got to

Phases == {"requested", "refused", "accepted", "running", "processed", "dropped"}

LifecycleTypeOK == phase \in [Jobs -> Phases]

LifecycleInit == phase = [j \in Jobs |-> "requested"]

Becomes(j, p) == phase' = [phase EXCEPT ![j] = p]

Answer(j) ==
  /\ phase[j] = "requested"
  /\ \E p \in {"refused", "accepted"} : Becomes(j, p)

Start(j) ==
  /\ phase[j] = "accepted"
  /\ \A k \in Jobs : phase[k] # "running"
  /\ Becomes(j, "running")

Finish(j) ==
  /\ phase[j] = "running"
  /\ Becomes(j, "processed")

(* Losing a server loses every request it has not answered and every job   *)
(* it holds, all at once.                                                  *)
Lose(S) ==
  /\ \A j \in S : phase[j] \in {"requested", "accepted", "running"}
  /\ phase' = [j \in Jobs |->
                 IF j \notin S THEN phase[j]
                 ELSE IF phase[j] = "requested" THEN "refused" ELSE "dropped"]

LifecycleNext ==
  \/ \E j \in Jobs : Answer(j) \/ Start(j) \/ Finish(j)
  \/ \E S \in SUBSET Jobs : Lose(S)

LifecycleSpec == LifecycleInit /\ [][LifecycleNext]_phase
=============================================================================
