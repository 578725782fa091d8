----------------------------- MODULE InitTargets ----------------------------
(* The init targets (sys/init.c).  A target is a name with a stage, a       *)
(* scope and the names of the targets it depends on; `order` is the table   *)
(* the linker put together.  run_target visits the dependencies of a target *)
(* before the target whether or not they are completed, so the visits of a  *)
(* stage are a fixed sequence; what runs depends on the scope and on the    *)
(* completed flags that all CPUs share.                                     *)
EXTENDS Integers, SequencesExt

CONSTANTS Target,           \* the names
          Stage,            \* the stage of each, a number
          Scope,            \* "BSP", "APS" or "ALL"
          Dependencies      \* a sequence of names

STAGES == 0..6     \* INIT_STAGE_BOOT to INIT_STAGE_LATE

ASSUME TargetAssumption ==
  \A t \in Target : Stage[t] \in STAGES /\ Scope[t] \in {"BSP", "APS", "ALL"}

DO_TARGET(t, is_ap) == \/ Scope[t] = "ALL"
                       \/ is_ap /\ Scope[t] = "APS"
                       \/ ~is_ap /\ Scope[t] = "BSP"

(* A dependency that is not a target of the same stage is not found. *)
find_target(stage, name) == name \in Target /\ Stage[name] = stage
Found(t) == {d \in ToSet(Dependencies[t]) : find_target(Stage[t], d)}

(* No target waits for itself, in which case run_target does not return,    *)
(* and what the boot processor runs does not wait for a target that only    *)
(* the others run.                                                          *)
ASSUME DependencyAssumption ==
  /\ \A t \in Target : /\ Len(Dependencies[t]) \in Nat
                       /\ DOMAIN Dependencies[t] = 1..Len(Dependencies[t])
                       /\ \A d \in Found(t) : Scope[d] = "APS" => Scope[t] = "APS"
  /\ \A T \in SUBSET Target : T # {} => \E t \in T : Found(t) \intersect T = {}

(* Mutant: the dependencies are not visited. *)
run_target_alone(t) == <<t>>

(* The targets run_target visits for one target, in order. *)
run_target(t) ==
  LET visit[u \in Target] ==
        FlattenSeq([i \in DOMAIN Dependencies[u] |->
          IF find_target(Stage[u], Dependencies[u][i]) THEN visit[Dependencies[u][i]] ELSE <<>>]) \o <<u>>
  IN visit[t]

init_run_stage(order, stage) ==
  FlattenSeq([i \in DOMAIN order |-> IF Stage[order[i]] = stage THEN run_target(order[i]) ELSE <<>>])

(* Mutant: the targets of a scope that is not only the APs' stay completed. *)
init_reset_ap_only_aps(completed) == [t \in Target |-> IF Scope[t] = "APS" THEN FALSE ELSE completed[t]]

init_reset_ap(completed) == [t \in Target |-> IF DO_TARGET(t, TRUE) THEN FALSE ELSE completed[t]]
============================================================================
