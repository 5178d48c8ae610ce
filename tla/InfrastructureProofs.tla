------------------------ MODULE InfrastructureProofs ------------------------
(***************************************************************************)
(* Proofs about Infrastructure, for every set of resources and pod names   *)
(* and every number of faults and requests.                                *)
(***************************************************************************)
EXTENDS Infrastructure, TLAPS

----------------------------------------------------------------------------
(* Type correctness: the three parts of TypeOK are proved one by one, each *)
(* for the groups of actions that change it.                               *)

LEMMA InitTypeOK == Init => TypeOK
<1> SUFFICES ASSUME Init PROVE TypeOK
  OBVIOUS
<1>1. TFTypeOK
  <2>1. cloud \in SUBSET Resources
    BY PublishedStatesAssumption DEF Init, States
  <2>2. NoState \in States /\ NoPod \in Pods
    BY DEF NoState, States, NoPod, Pods
  <2>3. pods \in [PodIds -> Pods]
    BY <2>2 DEF Init, TFInit
  <2>4. faults \in 0..MaxFaults
    BY MaxFaultsAssumption DEF Init, TFInit
  <2>. QED BY <2>1, <2>2, <2>3, <2>4 DEF Init, TFInit, TFTypeOK
<1>2. CRTypeOK
  BY DEF Init, CRTypeOK, Annotations, Operations, OpStates, NoState, States
<1>3. ControllerTypeOK
  BY DEF Init, ControllerTypeOK, Steps, Jobs, Locals, NoLocals
<1>4. requests \in 0..MaxRequests
  BY MaxRequestsAssumption DEF Init
<1>. QED BY <1>1, <1>2, <1>3, <1>4 DEF TypeOK

LEMMA TFUnchanged == TFTypeOK /\ UNCHANGED tfAll => TFTypeOK'
  BY DEF TFTypeOK, tfAll

LEMMA CRUnchanged == CRTypeOK /\ UNCHANGED crVars => CRTypeOK'
  BY DEF CRTypeOK, crVars

LEMMA ControllerUnchanged == ControllerTypeOK /\ UNCHANGED ctrlVars => ControllerTypeOK'
  BY DEF ControllerTypeOK, ctrlVars

LEMMA NoLocalsType == NoLocals \in Locals
  BY DEF NoLocals, Locals

LEMMA GardenletTypeOK == TypeOK /\ Gardenlet => TypeOK'
<1> SUFFICES ASSUME TypeOK, Gardenlet PROVE TypeOK'
  OBVIOUS
<1>1. TFTypeOK'
  BY TFUnchanged DEF TypeOK, Gardenlet, PublishState, RequestOperation, RequestDelete, GardenletWrites
<1>2. ControllerTypeOK'
  BY DEF TypeOK, ControllerTypeOK, Gardenlet, PublishState, RequestOperation, RequestDelete,
         GardenletWrites
<1>3. CRTypeOK' /\ requests' \in 0..MaxRequests
  <2>1. CASE PublishState
    BY <2>1, PublishedStatesAssumption DEF PublishState, TypeOK, CRTypeOK, Annotations
  <2>2. ASSUME NEW a \in {"reconcile", "migrate"}, RequestOperation(a)
        PROVE  CRTypeOK' /\ requests' \in 0..MaxRequests
    BY <2>2, MaxRequestsAssumption DEF RequestOperation, TypeOK, CRTypeOK, Annotations
  <2>3. CASE RequestDelete
    BY <2>3 DEF RequestDelete, TypeOK, CRTypeOK
  <2>. QED BY <2>1, <2>2, <2>3 DEF Gardenlet
<1>. QED BY <1>1, <1>2, <1>3 DEF TypeOK

LEMMA ReconcilerTypeOK == TypeOK /\ Reconciler => TypeOK'
<1> SUFFICES ASSUME TypeOK, Reconciler PROVE TypeOK'
  OBVIOUS
<1>1. TFTypeOK' /\ requests' \in 0..MaxRequests
  <2>1. CASE Dispatch
    <3>1. UNCHANGED <<tfObjects, cloud, pods, requests>> /\ (faults' = faults \/ Fault)
      BY <2>1 DEF Dispatch
    <3>. QED BY <3>1, MaxFaultsAssumption DEF TypeOK, TFTypeOK, tfObjects, Fault
  <2>2. ASSUME ~Dispatch PROVE UNCHANGED <<tfAll, requests>>
    BY <2>2 DEF Reconciler, EnsureFinalizer, MarkProcessing, ReportError, MarkSucceeded,
                DeleteFinalizer, RemoveAnnotation
  <2>. QED BY <2>1, <2>2, TFUnchanged DEF TypeOK
<1>. USE NoLocalsType
<1>2. CASE Dispatch
  BY <1>1, <1>2
     DEF Dispatch, TypeOK, CRTypeOK, ControllerTypeOK, Annotations, Return, Dispatched, Steps,
         ReconcilerSteps, Jobs
<1>3. CASE EnsureFinalizer
  BY <1>1, <1>3
     DEF EnsureFinalizer, TypeOK, CRTypeOK, ControllerTypeOK, Return, Goto, Steps, ReconcilerSteps, Jobs
<1>4. CASE MarkProcessing
  <2>1. OperationType \in Operations /\ ActuatorStart \in Steps
    BY DEF OperationType, Operations, ActuatorStart, Steps, ActuatorSteps
  <2>2. CRTypeOK'
    BY <1>4, <2>1 DEF MarkProcessing, TypeOK, CRTypeOK, ControllerTypeOK, Jobs, Operations, OpStates
  <2>3. ControllerTypeOK'
    BY <1>4, <2>1 DEF MarkProcessing, TypeOK, ControllerTypeOK, Return, Goto, Steps, Jobs
  <2>. QED BY <1>1, <2>2, <2>3 DEF TypeOK
<1>5. CASE ReportError
  BY <1>1, <1>5 DEF ReportError, TypeOK, CRTypeOK, ControllerTypeOK, OpStates, Return, Steps, Jobs
<1>6. CASE MarkSucceeded
  <2>1. CRTypeOK'
    BY <1>6 DEF MarkSucceeded, TypeOK, CRTypeOK, OpStates
  <2>2. ControllerTypeOK'
    BY <1>6 DEF MarkSucceeded, TypeOK, ControllerTypeOK, Return, Goto, Steps, ReconcilerSteps, Jobs
  <2>. QED BY <1>1, <2>1, <2>2 DEF TypeOK
<1>7. CASE DeleteFinalizer
  <2>1. CRTypeOK'
    BY <1>7 DEF DeleteFinalizer, TypeOK, CRTypeOK
  <2>2. ControllerTypeOK'
    BY <1>7 DEF DeleteFinalizer, TypeOK, ControllerTypeOK, Return, Goto, Steps, ReconcilerSteps, Jobs
  <2>. QED BY <1>1, <2>1, <2>2 DEF TypeOK
<1>8. CASE RemoveAnnotation
  <2>1. CRTypeOK'
    BY <1>8 DEF RemoveAnnotation, TypeOK, CRTypeOK, Annotations
  <2>2. ControllerTypeOK'
    BY <1>8 DEF RemoveAnnotation, TypeOK, ControllerTypeOK, Return, Goto, Steps, ReconcilerSteps, Jobs
  <2>. QED BY <1>1, <2>1, <2>2 DEF TypeOK
<1>. QED BY <1>2, <1>3, <1>4, <1>5, <1>6, <1>7, <1>8 DEF Reconciler

\* Deleting pods keeps every pod a pod, of the same phase and command.
LEMMA DeletePodsType ==
  ASSUME pods \in [PodIds -> Pods], deleteTerraformerPods
  PROVE  /\ pods' \in [PodIds -> Pods]
         /\ \A p \in PodIds : pods'[p].phase = pods[p].phase /\ pods'[p].cmd = pods[p].cmd
<1> DEFINE q(p) == IF Exists(p) THEN [pods[p] EXCEPT !.terminating = TRUE] ELSE pods[p]
<1>1. \A p \in PodIds : q(p) \in Pods /\ q(p).phase = pods[p].phase /\ q(p).cmd = pods[p].cmd
  BY DEF Pods
<1>2. pods' = [p \in PodIds |-> q(p)]
  BY DEF deleteTerraformerPods
<1>. HIDE DEF q
<1>. QED BY <1>1, <1>2

LEMMA ExecuteTF == TypeOK /\ Execute => TFTypeOK'
<1> SUFFICES ASSUME TFTypeOK, saved \in States, Execute PROVE TFTypeOK'
  BY DEF TypeOK, CRTypeOK
<1>. USE DEF TFTypeOK, tfObjects
<1>1. CASE UNCHANGED tfAll
  BY <1>1, TFUnchanged
<1>2. CASE CreateOrUpdateConfig \/ CreateOrUpdateVars \/ CleanupVars \/ CleanupConfig
  BY <1>2 DEF CreateOrUpdateConfig, CreateOrUpdateVars, CleanupVars, CleanupConfig
<1>3. CASE CleanupState
  BY <1>3 DEF CleanupState, NoState, States
<1>4. CASE InitializeState
  BY <1>4 DEF InitializeState, EmptyState, States
<1>5. CASE CleanUpPods \/ CollectPods
  BY <1>5, DeletePodsType, MaxFaultsAssumption DEF CleanUpPods, CollectPods, Fault
<1>6. ASSUME NEW p \in PodIds, DeployPod(p) PROVE TFTypeOK'
  <2>1. \A c \in {"apply", "destroy"} : NewPod(c) \in Pods
    BY DEF NewPod, NoPod, Pods
  <2>2. pods' \in [PodIds -> Pods]
    BY <1>6, <2>1 DEF DeployPod
  <2>. QED BY <1>6, <2>2, MaxFaultsAssumption DEF DeployPod, Fault
<1>7. CASE WaitForPod
  <2>1. UNCHANGED <<tfObjects, cloud, pods>> /\ (UNCHANGED faults \/ Fault)
    BY <1>7 DEF WaitForPod
  <2>. QED BY <2>1, MaxFaultsAssumption DEF Fault
<1>. QED
  BY <1>1, <1>2, <1>3, <1>4, <1>5, <1>6, <1>7
     DEF Execute, InitializerConfig, CountResources, Prepared, SkipDestroy, UpdateProviderStatus,
         DeleteCleanedUp, DeleteStateEmpty

LEMMA ExecuteCR == TypeOK /\ Execute => CRTypeOK' /\ requests' \in 0..MaxRequests
<1> SUFFICES ASSUME TypeOK, Execute PROVE CRTypeOK' /\ requests' \in 0..MaxRequests
  OBVIOUS
<1>1. CASE Actuator
  BY <1>1, CRUnchanged DEF Actuator, TypeOK
<1>2. CASE UpdateProviderStatus
  BY <1>2 DEF UpdateProviderStatus, TypeOK, CRTypeOK, TFTypeOK
<1>. QED
  BY <1>1, <1>2
     DEF Execute, InitializerConfig, CreateOrUpdateConfig, CreateOrUpdateVars, InitializeState,
         CountResources, CleanUpPods, Prepared, SkipDestroy, DeployPod, WaitForPod, CollectPods,
         DeleteCleanedUp, DeleteStateEmpty, CleanupVars, CleanupConfig, CleanupState

LEMMA ExecuteController == ControllerTypeOK /\ Execute => ControllerTypeOK'
<1> SUFFICES ASSUME ControllerTypeOK, Execute PROVE ControllerTypeOK'
  OBVIOUS
<1>. USE DEF ControllerTypeOK, Actuator, Goto, With, Steps, ActuatorSteps, ReconcilerSteps
<1>1. CASE InitializerConfig
  <2>1. IsStateEmpty \in BOOLEAN
    BY DEF IsStateEmpty
  <2>2. \A b \in BOOLEAN : [loc EXCEPT !["init"] = b] \in Locals
    BY DEF Locals
  <2>. QED BY <1>1, <2>1, <2>2 DEF InitializerConfig
<1>2. CASE CreateOrUpdateConfig \/ CreateOrUpdateVars \/ InitializeState
  BY <1>2 DEF CreateOrUpdateConfig, CreateOrUpdateVars, InitializeState
<1>3. CASE CountResources
  <2>1. NumberOfResources \in 0..3
    BY DEF NumberOfResources, One
  <2>. QED BY <1>3, <2>1 DEF CountResources, Locals
<1>4. CASE CleanUpPods \/ SkipDestroy \/ DeleteCleanedUp \/ DeleteStateEmpty
  BY <1>4 DEF CleanUpPods, SkipDestroy, DeleteCleanedUp, DeleteStateEmpty
<1>5. CASE Prepared
  <2>1. AfterExecute \in Steps
    BY DEF AfterExecute
  <2>2. [loc EXCEPT !["retried"] = TRUE] \in Locals
    BY DEF Locals
  <2>. QED BY <1>5, <2>1, <2>2 DEF Prepared
<1>6. ASSUME NEW p \in PodIds, DeployPod(p) PROVE ControllerTypeOK'
  <2>1. [loc EXCEPT !["pod"] = p] \in Locals
    BY DEF Locals
  <2>. QED BY <1>6, <2>1 DEF DeployPod
<1>7. CASE WaitForPod
  <2>1. \A b \in BOOLEAN : [loc EXCEPT !["ok"] = b] \in Locals
    BY DEF Locals
  <2>. QED BY <1>7, <2>1 DEF WaitForPod
<1>8. CASE CollectPods
  BY <1>8 DEF CollectPods, AfterExecute
<1>9. CASE UpdateProviderStatus
  BY <1>9 DEF UpdateProviderStatus, AfterActuator
<1>10. CASE CleanupVars \/ CleanupConfig \/ CleanupState
  BY <1>10 DEF CleanupVars, CleanupConfig, CleanupState, AfterActuator
<1>. QED BY <1>1, <1>2, <1>3, <1>4, <1>5, <1>6, <1>7, <1>8, <1>9, <1>10 DEF Execute

LEMMA ExecuteTypeOK == TypeOK /\ Execute => TypeOK'
  BY ExecuteTF, ExecuteCR, ExecuteController DEF TypeOK

LEMMA FaultsTypeOK == TypeOK /\ Faults => TypeOK'
<1> SUFFICES ASSUME TypeOK, Faults PROVE TypeOK'
  OBVIOUS
<1>1. TFTypeOK' /\ CRTypeOK' /\ requests' \in 0..MaxRequests
  <2>1. UNCHANGED <<tfObjects, cloud, pods, crVars, requests>> /\ Fault
    BY DEF Faults, CallFails, StateUnreadable, ReconcilerFails, Crash, Actuator
  <2>2. TFTypeOK'
    BY <2>1, MaxFaultsAssumption DEF TypeOK, TFTypeOK, tfObjects, Fault
  <2>. QED BY <2>1, <2>2, CRUnchanged DEF TypeOK
<1>2. ControllerTypeOK'
  <2>. USE DEF TypeOK, ControllerTypeOK, Actuator, Goto, With, Return
  <2>1. CASE CallFails
    BY <2>1 DEF CallFails, Steps, ReconcilerSteps
  <2>2. CASE StateUnreadable
    <3>1. [loc EXCEPT !["init"] = FALSE] \in Locals
      BY DEF Locals
    <3>. QED BY <2>2, <3>1 DEF StateUnreadable, Steps, ActuatorSteps
  <2>3. CASE ReconcilerFails \/ Crash
    BY <2>3, NoLocalsType DEF ReconcilerFails, Crash, Steps, Jobs
  <2>. QED BY <2>1, <2>2, <2>3 DEF Faults
<1>. QED BY <1>1, <1>2 DEF TypeOK

\* A pod step changes no pod but its own, which exists and keeps its command.
LEMMA PodStepType ==
  ASSUME TFTypeOK, NEW p \in PodIds, PodStep(p)
  PROVE  /\ TFTypeOK'
         /\ Exists(p)
         /\ \A q \in PodIds \ {p} : pods'[q] = pods[q]
         /\ Exists(p)' => pods'[p].cmd = pods[p].cmd
<1>. USE MaxFaultsAssumption DEF TFTypeOK, tfObjects, Fault, Exists
<1>. DEFINE Goal == /\ TFTypeOK' /\ Exists(p)
                    /\ \A q \in PodIds \ {p} : pods'[q] = pods[q]
                    /\ Exists(p)' => pods'[p].cmd = pods[p].cmd
<1>0. ASSUME SaveState(pods[p].res) PROVE tfState' \in States
  BY <1>0 DEF SaveState, Json, States, Pods
<1>1. CASE PodStart(p)
  <2>1. tfState.res \in SUBSET Resources
    BY DEF States
  <2>. DEFINE phase == IF tfConfig /\ tfVars THEN "running" ELSE "failed"
  <2>2. phase \in {"running", "failed"}
    OBVIOUS
  <2>3. pods' = [pods EXCEPT ![p].phase = phase, ![p].res = tfState.res] /\ pods[p].phase = "pending"
    BY <1>1 DEF PodStart
  <2>. HIDE DEF phase
  <2>4. pods' \in [PodIds -> Pods] /\ pods'[p].cmd = pods[p].cmd
    BY <2>1, <2>2, <2>3 DEF Pods
  <2>5. \A q \in PodIds \ {p} : pods'[q] = pods[q]
    BY <2>3
  <2>. QED BY <1>1, <2>3, <2>4, <2>5 DEF PodStart
<1>2. ASSUME NEW r \in Resources, PodCreates(p, r) PROVE Goal
  BY <1>2 DEF PodCreates, Pods
<1>3. ASSUME NEW r \in Resources, PodDestroys(p, r) PROVE Goal
  BY <1>3 DEF PodDestroys, Pods
<1>4. CASE PodSucceeds(p)
  BY <1>0, <1>4 DEF PodSucceeds, Pods
<1>5. CASE PodFails(p)
  BY <1>0, <1>5 DEF PodFails, Pods
<1>6. CASE PodRemoved(p)
  BY <1>6 DEF PodRemoved, Pods, NoPod
<1>7. CASE PodLost(p)
  BY <1>7 DEF PodLost, Pods, NoPod
<1>. QED BY <1>1, <1>2, <1>3, <1>4, <1>5, <1>6, <1>7 DEF PodStep

LEMMA NextTypeOK == TypeOK /\ [Next]_vars => TypeOK'
<1> SUFFICES ASSUME TypeOK, [Next]_vars PROVE TypeOK'
  OBVIOUS
<1>1. CASE Gardenlet
  BY <1>1, GardenletTypeOK
<1>2. CASE Controller
  BY <1>2, ReconcilerTypeOK, ExecuteTypeOK DEF Controller
<1>3. CASE Faults
  BY <1>3, FaultsTypeOK
<1>4. CASE PodSteps
  BY <1>4, PodStepType, CRUnchanged, ControllerUnchanged DEF PodSteps, TypeOK
<1>5. CASE UNCHANGED vars
  BY <1>5, TFUnchanged, CRUnchanged, ControllerUnchanged DEF vars, TypeOK
<1>. QED BY <1>1, <1>2, <1>3, <1>4, <1>5 DEF Next

\* Every variable keeps its type: what the other proofs rest on.
THEOREM TypeCorrect == Spec => []TypeOK
  BY InitTypeOK, NextTypeOK, PTL DEF Spec

----------------------------------------------------------------------------
(* At most one Terraformer.  A pod is only created at "deploy", and the    *)
(* way there leads through prepare, which has seen no pod; between the two *)
(* no pod can come into being, because nobody but the controller creates   *)
(* one and a pod cannot come back once it is gone.                         *)

OnePodInv ==
    /\ AtMostOneTerraformer
    /\ pc \in {"skip", "deploy"} => NoPods

\* Steps that create no pod keep the first half.
LEMMA NoNewPod ==
  ASSUME AtMostOneTerraformer, \A p \in PodIds : Exists(p)' => Exists(p)
  PROVE  AtMostOneTerraformer' /\ (NoPods => NoPods')
  BY DEF AtMostOneTerraformer, NoPods, Exists

\* Only DeployPod creates a pod.
LEMMA PodsComeFromDeploy ==
  ASSUME TypeOK, [Next]_vars, \A p \in PodIds : ~DeployPod(p)
  PROVE  \A p \in PodIds : Exists(p)' => Exists(p)
<1>1. CASE UNCHANGED pods
  BY <1>1 DEF Exists
<1>2. CASE CleanUpPods \/ CollectPods
  BY <1>2, DeletePodsType DEF CleanUpPods, CollectPods, TypeOK, TFTypeOK, Exists
<1>3. CASE PodSteps
  BY <1>3, PodStepType DEF PodSteps, TypeOK, Exists
<1>. QED
  BY <1>1, <1>2, <1>3
     DEF Next, vars, tfAll, Gardenlet, PublishState, RequestOperation, RequestDelete,
         GardenletWrites, Controller, Reconciler, Dispatch, EnsureFinalizer, MarkProcessing,
         ReportError, MarkSucceeded, DeleteFinalizer, RemoveAnnotation, Execute,
         InitializerConfig, CreateOrUpdateConfig, CreateOrUpdateVars, InitializeState,
         CountResources, Prepared, SkipDestroy, WaitForPod, UpdateProviderStatus,
         DeleteCleanedUp, DeleteStateEmpty, CleanupVars, CleanupConfig, CleanupState,
         Faults, CallFails, StateUnreadable, ReconcilerFails, Crash

\* The only way to "skip" and "deploy" leads through Prepared.
LEMMA DeployIsPrepared ==
  ASSUME [Next]_vars, pc' \in {"skip", "deploy"}, ~Prepared
  PROVE  pc \in {"skip", "deploy"} /\ \A p \in PodIds : ~DeployPod(p)
<1>1. CASE UNCHANGED pc
  BY <1>1 DEF DeployPod, With, Goto
<1>2. CASE Reconciler
  BY <1>2
     DEF Reconciler, Dispatch, EnsureFinalizer, MarkProcessing, ReportError, MarkSucceeded,
         DeleteFinalizer, RemoveAnnotation, Return, Goto, ActuatorStart
<1>3. CASE Execute
  BY <1>3
     DEF Execute, InitializerConfig, CreateOrUpdateConfig, CreateOrUpdateVars, InitializeState,
         CountResources, CleanUpPods, SkipDestroy, DeployPod, WaitForPod, CollectPods,
         UpdateProviderStatus, DeleteCleanedUp, DeleteStateEmpty, CleanupVars, CleanupConfig,
         CleanupState, With, Goto, AfterExecute, AfterActuator
<1>4. CASE Faults
  BY <1>4 DEF Faults, CallFails, StateUnreadable, ReconcilerFails, Crash, Return, With, Goto, DeployPod
<1>. QED
  BY <1>1, <1>2, <1>3, <1>4
     DEF Next, vars, ctrlVars, Controller, Gardenlet, PublishState, RequestOperation, RequestDelete,
         GardenletWrites, PodSteps

LEMMA OnePodStep == TypeOK /\ OnePodInv /\ [Next]_vars => OnePodInv'
<1> SUFFICES ASSUME TypeOK, OnePodInv, [Next]_vars PROVE OnePodInv'
  OBVIOUS
<1>1. ASSUME NEW p \in PodIds, DeployPod(p) PROVE OnePodInv'
  <2>1. NoPods /\ pc' \in {"waitForPod", "error"}
    BY <1>1 DEF DeployPod, OnePodInv, With, Goto
  <2>2. \A q \in PodIds \ {p} : pods'[q] = pods[q]
    BY <1>1 DEF DeployPod, TypeOK, TFTypeOK
  <2>. QED BY <2>1, <2>2 DEF OnePodInv, AtMostOneTerraformer, NoPods, Exists
<1>2. ASSUME \A p \in PodIds : ~DeployPod(p) PROVE OnePodInv'
  <2>1. AtMostOneTerraformer' /\ (NoPods => NoPods')
    BY <1>2, PodsComeFromDeploy, NoNewPod DEF OnePodInv
  <2>2. ASSUME pc' \in {"skip", "deploy"} PROVE NoPods'
    BY <2>1, <2>2, DeployIsPrepared DEF OnePodInv, Prepared
  <2>. QED BY <2>1, <2>2 DEF OnePodInv
<1>. QED BY <1>1, <1>2

\* Never do two Terraformer pods of one infrastructure exist at a time: for
\* every number of faults and requests, also when pods can get lost.
THEOREM OneTerraformer == Spec => []AtMostOneTerraformer
<1>1. Init => OnePodInv
  BY DEF Init, TFInit, OnePodInv, AtMostOneTerraformer, Exists, NoPod
<1>2. OnePodInv => AtMostOneTerraformer
  BY DEF OnePodInv
<1>. QED BY <1>1, <1>2, TypeCorrect, OnePodStep, PTL DEF Spec

----------------------------------------------------------------------------
(* A deletion only deletes.  Delete waits until no pod is left, so an      *)
(* "apply" of an earlier attempt is over, and every pod it creates itself  *)
(* runs "destroy".                                                         *)

CleanedUp == job = "delete" /\ pc \in ActuatorSteps \ {"cleanUp", "awaitClean"}

DestroyInv == CleanedUp => \A p \in PodIds : Exists(p) => pods[p].cmd = "destroy"

\* No step but DeployPod gives a pod another command.
LEMMA CommandsComeFromDeploy ==
  ASSUME TypeOK, [Next]_vars, \A p \in PodIds : ~DeployPod(p),
         NEW q \in PodIds, Exists(q)'
  PROVE  pods'[q].cmd = pods[q].cmd
<1>1. CASE UNCHANGED pods
  BY <1>1
<1>2. CASE CleanUpPods \/ CollectPods
  BY <1>2, DeletePodsType DEF CleanUpPods, CollectPods, TypeOK, TFTypeOK
<1>3. CASE PodSteps
  BY <1>3, PodStepType DEF PodSteps, TypeOK
<1>. QED
  BY <1>1, <1>2, <1>3
     DEF Next, vars, tfAll, Gardenlet, PublishState, RequestOperation, RequestDelete,
         GardenletWrites, Controller, Reconciler, Dispatch, EnsureFinalizer, MarkProcessing,
         ReportError, MarkSucceeded, DeleteFinalizer, RemoveAnnotation, Execute,
         InitializerConfig, CreateOrUpdateConfig, CreateOrUpdateVars, InitializeState,
         CountResources, Prepared, SkipDestroy, WaitForPod, UpdateProviderStatus,
         DeleteCleanedUp, DeleteStateEmpty, CleanupVars, CleanupConfig, CleanupState,
         Faults, CallFails, StateUnreadable, ReconcilerFails, Crash

\* The only way past the two waiting steps leads through DeleteCleanedUp.
LEMMA CleanedUpIsWaitedFor ==
  ASSUME [Next]_vars, CleanedUp', ~DeleteCleanedUp
  PROVE  CleanedUp
<1>. USE DEF CleanedUp, ActuatorSteps
<1>1. CASE UNCHANGED <<pc, job>>
  BY <1>1
<1>2. CASE Reconciler
  BY <1>2
     DEF Reconciler, Dispatch, EnsureFinalizer, MarkProcessing, ReportError, MarkSucceeded,
         DeleteFinalizer, RemoveAnnotation, Return, Goto, ActuatorStart
<1>3. CASE Execute
  BY <1>3
     DEF Execute, InitializerConfig, CreateOrUpdateConfig, CreateOrUpdateVars, InitializeState,
         CountResources, CleanUpPods, Prepared, SkipDestroy, DeployPod, WaitForPod, CollectPods,
         UpdateProviderStatus, DeleteStateEmpty, CleanupVars, CleanupConfig, CleanupState, With, Goto
<1>4. CASE Faults
  BY <1>4 DEF Faults, CallFails, StateUnreadable, ReconcilerFails, Crash, Return, With, Goto
<1>. QED
  BY <1>1, <1>2, <1>3, <1>4
     DEF Next, vars, ctrlVars, Controller, Gardenlet, PublishState, RequestOperation, RequestDelete,
         GardenletWrites, PodSteps

LEMMA DestroyStep == TypeOK /\ DestroyInv /\ [Next]_vars => DestroyInv'
<1> SUFFICES ASSUME TypeOK, DestroyInv, [Next]_vars, CleanedUp', NEW q \in PodIds, Exists(q)'
             PROVE  pods'[q].cmd = "destroy"
  BY DEF DestroyInv
<1>1. ASSUME NEW p \in PodIds, DeployPod(p) PROVE pods'[q].cmd = "destroy"
  <2>1. CleanedUp /\ job = "delete"
    BY <1>1 DEF DeployPod, CleanedUp, ActuatorSteps, With, Goto
  <2>2. pods'[p].cmd = "destroy" /\ (q # p => pods'[q] = pods[q])
    BY <1>1, <2>1 DEF DeployPod, Destroying, NewPod, NoPod, TypeOK, TFTypeOK
  <2>. QED BY <2>1, <2>2 DEF DestroyInv, Exists
<1>2. ASSUME \A p \in PodIds : ~DeployPod(p) PROVE pods'[q].cmd = "destroy"
  <2>1. Exists(q) /\ pods'[q].cmd = pods[q].cmd
    BY <1>2, PodsComeFromDeploy, CommandsComeFromDeploy
  <2>2. ~DeleteCleanedUp
    BY <2>1 DEF DeleteCleanedUp, NoPods
  <2>. QED BY <2>1, <2>2, CleanedUpIsWaitedFor DEF DestroyInv
<1>. QED BY <1>1, <1>2

\* Only a pod that runs "apply" adds to the cloud.
LEMMA OnlyApplyCreates ==
  ASSUME [Next]_vars, ~(cloud' \subseteq cloud)
  PROVE  \E p \in PodIds : Exists(p) /\ pods[p].cmd = "apply"
<1>1. CASE UNCHANGED cloud
  BY <1>1
<1>2. CASE PodSteps
  <2>1. PICK p \in PodIds : PodStep(p)
    BY <1>2 DEF PodSteps
  <2>2. PICK r \in Resources : PodCreates(p, r)
    BY <2>1
       DEF PodStep, PodStart, PodDestroys, PodSucceeds, PodFails, PodRemoved, PodLost
  <2>. QED BY <2>2 DEF PodCreates, Exists
<1>. QED
  BY <1>1, <1>2
     DEF Next, vars, tfAll, Gardenlet, PublishState, RequestOperation, RequestDelete,
         GardenletWrites, Controller, Reconciler, Dispatch, EnsureFinalizer, MarkProcessing,
         ReportError, MarkSucceeded, DeleteFinalizer, RemoveAnnotation, Execute,
         InitializerConfig, CreateOrUpdateConfig, CreateOrUpdateVars, InitializeState,
         CountResources, CleanUpPods, Prepared, SkipDestroy, DeployPod, WaitForPod, CollectPods,
         UpdateProviderStatus, DeleteCleanedUp, DeleteStateEmpty, CleanupVars, CleanupConfig,
         CleanupState, Faults, CallFails, StateUnreadable, ReconcilerFails, Crash

\* Once Delete has seen the Terraformer pods gone, nothing is created in the
\* cloud any more, whatever ran before and however often it is interrupted.
THEOREM DeletesOnly == Spec => DeletionOnlyDeletes
<1>1. Init => DestroyInv
  BY DEF Init, DestroyInv, CleanedUp
<1>2. DestroyInv /\ [Next]_vars =>
        [job = "delete" /\ pc \in ActuatorSteps \ {"cleanUp", "awaitClean"}
           => cloud' \subseteq cloud]_vars
  BY OnlyApplyCreates DEF DestroyInv, CleanedUp
<1>. QED BY <1>1, <1>2, TypeCorrect, DestroyStep, PTL DEF Spec, DeletionOnlyDeletes

----------------------------------------------------------------------------
(* What the controller does at each place, and what is stored meanwhile.   *)

Deploys == job \in {"reconcile", "restore"}
\* Nothing but an operation of this kind has ever been begun.
Kept == op \notin {"migrate", "delete"}
NoneActive == \A p \in PodIds : ~Active(p)

Places ==
    /\ pc = "idle" <=> job = "none"
    /\ pc \in {"ensureFinalizer", "initState", "putConfig", "putVars", "putState", "providerStatus"} => Deploys
    /\ pc \in {"cleanUp", "awaitClean", "stateEmpty", "skip"} => job = "delete"
    /\ pc \in {"count", "prepare", "awaitPrepared", "deploy", "waitForPod", "collect"} => job # "migrate"
    /\ pc \in {"dropVars", "dropConfig", "dropState", "deleteFinalizer"} => ~Deploys
    /\ pc = "unannotate" => job \in {"restore", "migrate"}

OperationInv ==
    /\ op = "delete" => deleting
    /\ op = "none" => opState = "none"
    /\ op = "migrate" => (ann = "migrate" \/ opState = "succeeded") /\ job \in {"none", "migrate"}
    /\ ann = "wait-for-state" => op = "none" /\ pc = "idle"
    /\ job = "migrate" => ann = "migrate"
    /\ job = "delete" => deleting
    /\ Deploys => Kept
    /\ ~(pc \in {"idle", "ensureFinalizer", "processing"}) =>
          /\ IF job = "reconcile" THEN op # "none" ELSE op = job
          /\ opState = IF pc \in {"deleteFinalizer", "unannotate"} /\ ~Deploys THEN "succeeded" ELSE "processing"

ControlInv == Places /\ OperationInv

LEMMA ControlPods == ControlInv /\ UNCHANGED <<crVars, pc, job>> => ControlInv'
  BY DEF ControlInv, Places, OperationInv, Deploys, Kept, crVars

LEMMA ControlGardenlet == TypeOK /\ ControlInv /\ Gardenlet => ControlInv'
<1> SUFFICES ASSUME TypeOK, ControlInv, Gardenlet PROVE ControlInv'
  OBVIOUS
<1>. USE DEF ControlInv, Places, OperationInv, Deploys, Kept, GardenletWrites
<1>1. CASE PublishState
  BY <1>1 DEF PublishState
<1>2. ASSUME NEW a \in {"reconcile", "migrate"}, RequestOperation(a) PROVE ControlInv'
  BY <1>2 DEF RequestOperation
<1>3. CASE RequestDelete
  BY <1>3 DEF RequestDelete
<1>. QED BY <1>1, <1>2, <1>3 DEF Gardenlet

LEMMA ControlReconciler == TypeOK /\ ControlInv /\ Reconciler => ControlInv'
<1> SUFFICES ASSUME TypeOK, ControlInv, Reconciler PROVE ControlInv'
  OBVIOUS
<1>. USE DEF ControlInv, Places, OperationInv, Deploys, Kept, Return, Goto
<1>1. CASE Dispatch
  BY <1>1 DEF Dispatch, Dispatched, IsMigrated
<1>2. CASE EnsureFinalizer
  BY <1>2 DEF EnsureFinalizer
<1>3. CASE MarkProcessing
  BY <1>3 DEF MarkProcessing, ActuatorStart, OperationType, TypeOK, ControllerTypeOK, Jobs
<1>4. CASE ReportError
  BY <1>4 DEF ReportError
<1>5. CASE MarkSucceeded
  BY <1>5 DEF MarkSucceeded, TypeOK, ControllerTypeOK, Jobs
<1>6. CASE DeleteFinalizer
  BY <1>6 DEF DeleteFinalizer, TypeOK, ControllerTypeOK, Jobs
<1>7. CASE RemoveAnnotation
  BY <1>7 DEF RemoveAnnotation, TypeOK, ControllerTypeOK, Jobs
<1>. QED BY <1>1, <1>2, <1>3, <1>4, <1>5, <1>6, <1>7 DEF Reconciler

LEMMA ControlExecute == TypeOK /\ ControlInv /\ Execute => ControlInv'
<1> SUFFICES ASSUME TypeOK, ControlInv, Execute PROVE ControlInv'
  OBVIOUS
<1>. USE DEF ControlInv, Places, OperationInv, Deploys, Kept, With, Goto, Actuator, crVars,
             AfterExecute, AfterActuator, Destroying
<1>1. CASE InitializerConfig \/ CreateOrUpdateConfig \/ CreateOrUpdateVars \/ InitializeState
  BY <1>1 DEF InitializerConfig, CreateOrUpdateConfig, CreateOrUpdateVars, InitializeState
<1>2. CASE CountResources \/ CleanUpPods \/ SkipDestroy
  BY <1>2 DEF CountResources, CleanUpPods, SkipDestroy
<1>3. CASE Prepared
  BY <1>3 DEF Prepared, TypeOK, ControllerTypeOK, Jobs
<1>4. ASSUME NEW p \in PodIds, DeployPod(p) PROVE ControlInv'
  BY <1>4 DEF DeployPod
<1>5. CASE WaitForPod \/ CollectPods
  BY <1>5 DEF WaitForPod, CollectPods, TypeOK, ControllerTypeOK, Jobs
<1>6. CASE UpdateProviderStatus
  BY <1>6 DEF UpdateProviderStatus
<1>7. CASE DeleteCleanedUp \/ DeleteStateEmpty
  BY <1>7 DEF DeleteCleanedUp, DeleteStateEmpty
<1>8. CASE CleanupVars \/ CleanupConfig \/ CleanupState
  BY <1>8 DEF CleanupVars, CleanupConfig, CleanupState
<1>. QED BY <1>1, <1>2, <1>3, <1>4, <1>5, <1>6, <1>7, <1>8 DEF Execute

LEMMA ControlFaults == TypeOK /\ ControlInv /\ Faults => ControlInv'
<1> SUFFICES ASSUME TypeOK, ControlInv, Faults PROVE ControlInv'
  OBVIOUS
<1>. USE DEF ControlInv, Places, OperationInv, Deploys, Kept, With, Goto, Return, Actuator, crVars
<1>1. CASE CallFails
  BY <1>1 DEF CallFails, ActuatorSteps
<1>2. CASE StateUnreadable
  BY <1>2 DEF StateUnreadable
<1>3. CASE ReconcilerFails \/ Crash
  BY <1>3 DEF ReconcilerFails, Crash
<1>. QED BY <1>1, <1>2, <1>3 DEF Faults

LEMMA ControlStep == TypeOK /\ ControlInv /\ [Next]_vars => ControlInv'
<1> SUFFICES ASSUME TypeOK, ControlInv, [Next]_vars PROVE ControlInv'
  OBVIOUS
<1>1. CASE PodSteps \/ UNCHANGED vars
  BY <1>1, ControlPods DEF PodSteps, vars, ctrlVars
<1>. QED
  BY <1>1, ControlGardenlet, ControlReconciler, ControlExecute, ControlFaults DEF Next, Controller

LEMMA ControlHolds == Spec => []ControlInv
<1>1. Init => ControlInv
  BY DEF Init, ControlInv, Places, OperationInv, Deploys, Kept
<1>. QED BY <1>1, TypeCorrect, ControlStep, PTL DEF Spec

----------------------------------------------------------------------------
(* A stored success is true.                                               *)

\* Until a deletion or migration begins, what is stored and what pods work on
\* exists.
KnownInv ==
    Kept => /\ tfState.res \subseteq cloud /\ saved.res \subseteq cloud
            /\ \A p \in PodIds : Exists(p) => pods[p].cmd = "apply" /\ pods[p].res \subseteq cloud

\* A success is reported when the only pod has ended with the complete state.
Complete == NoneActive /\ tfState = Json(Resources) /\ saved = Json(Resources)
SuccessInv ==
    /\ pc = "waitForPod" => loc.pod \in PodIds
    /\ Deploys /\ (pc = "providerStatus" \/ (pc = "collect" /\ loc.ok)) => NoneActive
    /\ Deploys /\ pc \in {"unannotate", "success"} => Complete
    /\ op \in {"create", "reconcile", "restore"} /\ opState = "succeeded" => Complete

LEMMA DeletePodsRes ==
  ASSUME pods \in [PodIds -> Pods], deleteTerraformerPods
  PROVE  \A p \in PodIds : pods'[p].res = pods[p].res
<1> DEFINE q(p) == IF Exists(p) THEN [pods[p] EXCEPT !.terminating = TRUE] ELSE pods[p]
<1>1. \A p \in PodIds : q(p).res = pods[p].res
  BY DEF Pods
<1>2. pods' = [p \in PodIds |-> q(p)]
  BY DEF deleteTerraformerPods
<1>. HIDE DEF q
<1>. QED BY <1>1, <1>2

\* What a deletion or migration has begun is never taken back.
LEMMA KeptBefore == TypeOK /\ ControlInv /\ [Next]_vars /\ Kept' => Kept
<1> SUFFICES ASSUME TypeOK, ControlInv, [Next]_vars, Kept' PROVE Kept
  OBVIOUS
<1>1. CASE UNCHANGED op
  BY <1>1 DEF Kept
<1>2. CASE MarkProcessing
  BY <1>2 DEF MarkProcessing, Kept, ControlInv, Places, OperationInv, Deploys, TypeOK, ControllerTypeOK, Jobs
<1>. QED
  BY <1>1, <1>2
     DEF Next, vars, crVars, Gardenlet, PublishState, RequestOperation, RequestDelete,
         GardenletWrites, Controller, Reconciler, Dispatch, EnsureFinalizer, ReportError,
         MarkSucceeded, DeleteFinalizer, RemoveAnnotation, Execute,
         InitializerConfig, CreateOrUpdateConfig, CreateOrUpdateVars, InitializeState,
         CountResources, CleanUpPods, Prepared, SkipDestroy, DeployPod, WaitForPod, CollectPods,
         UpdateProviderStatus, DeleteCleanedUp, DeleteStateEmpty, CleanupVars, CleanupConfig,
         CleanupState, Faults, CallFails, StateUnreadable, ReconcilerFails, Crash, Actuator, PodSteps

LEMMA KnownPods == TypeOK /\ KnownInv /\ Kept /\ PodSteps => KnownInv'
<1> SUFFICES ASSUME TFTypeOK, saved.res \subseteq cloud, tfState.res \subseteq cloud,
                    \A q \in PodIds : Exists(q) => pods[q].cmd = "apply" /\ pods[q].res \subseteq cloud,
                    UNCHANGED saved,
                    NEW p \in PodIds, PodStep(p)
             PROVE  KnownInv'
  BY DEF KnownInv, TypeOK, PodSteps, crVars
<1>. USE DEF TFTypeOK, tfObjects, Exists, KnownInv
<1>0. ASSUME SaveState(pods[p].res), pods[p].phase = "running" PROVE tfState'.res \subseteq cloud
  BY <1>0 DEF SaveState, Json
<1>1. CASE PodStart(p)
  <2>1. \A q \in PodIds : pods'[q].res \subseteq cloud \/ pods'[q] = pods[q]
    BY <1>1 DEF PodStart, Pods
  <2>2. \A q \in PodIds : Exists(q)' => Exists(q) /\ pods'[q].cmd = pods[q].cmd
    BY <1>1, PodStepType
  <2>. QED BY <1>1, <2>1, <2>2 DEF PodStart
<1>2. ASSUME NEW r \in Resources, PodCreates(p, r) PROVE KnownInv'
  BY <1>2 DEF PodCreates, Pods
<1>3. ASSUME NEW r \in Resources, PodDestroys(p, r) PROVE KnownInv'
  BY <1>3 DEF PodDestroys
<1>4. CASE PodSucceeds(p)
  BY <1>0, <1>4 DEF PodSucceeds, Pods
<1>5. CASE PodFails(p)
  BY <1>0, <1>5 DEF PodFails, Pods
<1>6. CASE PodRemoved(p)
  BY <1>6 DEF PodRemoved, Pods, NoPod
<1>7. CASE PodLost(p)
  BY <1>7 DEF PodLost, Pods, NoPod
<1>. QED BY <1>1, <1>2, <1>3, <1>4, <1>5, <1>6, <1>7 DEF PodStep

LEMMA KnownStep == TypeOK /\ ControlInv /\ KnownInv /\ [Next]_vars => KnownInv'
<1> SUFFICES ASSUME TypeOK, ControlInv, KnownInv, [Next]_vars, Kept, Kept' PROVE KnownInv'
  BY KeptBefore DEF KnownInv
<1>. USE DEF KnownInv, Actuator, crVars, tfObjects, tfAll, Exists
<1>1. CASE UNCHANGED <<tfState, saved, pods, cloud>>
  BY <1>1
<1>2. CASE PodSteps
  BY <1>2, KnownPods
<1>3. CASE PublishState
  BY <1>3 DEF PublishState, GardenletWrites
<1>4. CASE InitializeState
  BY <1>4 DEF InitializeState, EmptyState
<1>5. CASE CleanUpPods \/ CollectPods
  BY <1>5, DeletePodsType, DeletePodsRes DEF CleanUpPods, CollectPods, TypeOK, TFTypeOK
<1>6. ASSUME NEW p \in PodIds, DeployPod(p) PROVE KnownInv'
  <2>1. pc = "deploy" /\ ~Destroying
    BY <1>6 DEF DeployPod, Destroying, ControlInv, OperationInv, Kept
  <2>2. pods' = [pods EXCEPT ![p] = NewPod("apply")] /\ UNCHANGED <<tfState, saved, cloud>>
    BY <1>6, <2>1 DEF DeployPod
  <2>. QED BY <2>2 DEF NewPod, NoPod, TypeOK, TFTypeOK
<1>7. CASE UpdateProviderStatus
  BY <1>7 DEF UpdateProviderStatus
<1>8. CASE CleanupState
  BY <1>8 DEF CleanupState, NoState
<1>. QED
  BY <1>1, <1>2, <1>3, <1>4, <1>5, <1>6, <1>7, <1>8
     DEF Next, vars, Gardenlet, RequestOperation, RequestDelete,
         GardenletWrites, Controller, Reconciler, Dispatch, EnsureFinalizer, MarkProcessing, ReportError,
         MarkSucceeded, DeleteFinalizer, RemoveAnnotation, Execute,
         InitializerConfig, CreateOrUpdateConfig, CreateOrUpdateVars,
         CountResources, Prepared, SkipDestroy, WaitForPod,
         DeleteCleanedUp, DeleteStateEmpty, CleanupVars, CleanupConfig,
         Faults, CallFails, StateUnreadable, ReconcilerFails, Crash

\* Once no pod is active, none becomes active or writes a state, until the
\* next one is deployed.
LEMMA NoneActivePods ==
  ASSUME TypeOK, NoneActive, PodSteps
  PROVE  NoneActive' /\ UNCHANGED <<tfObjects, cloud>>
<1>1. PICK p \in PodIds : PodStep(p)
  BY DEF PodSteps
<1>2. PodRemoved(p)
  BY <1>1
     DEF PodStep, PodStart, PodCreates, PodDestroys, PodSucceeds, PodFails, PodLost, NoneActive, Active
<1>3. \A q \in PodIds : pods'[q].phase = pods[q].phase \/ pods'[q].phase = "none"
  BY <1>2 DEF PodRemoved, NoPod, TypeOK, TFTypeOK
<1>. QED BY <1>2, <1>3 DEF PodRemoved, NoneActive, Active

LEMMA SuccessGardenlet == TypeOK /\ ControlInv /\ SuccessInv /\ Gardenlet => SuccessInv'
<1> SUFFICES ASSUME TypeOK, ControlInv, SuccessInv, Gardenlet PROVE SuccessInv'
  OBVIOUS
<1>. USE DEF SuccessInv, Complete, NoneActive, Active, Deploys, GardenletWrites, tfAll
<1>1. CASE PublishState
  BY <1>1 DEF PublishState, ControlInv, OperationInv
<1>2. ASSUME NEW a \in {"reconcile", "migrate"}, RequestOperation(a) PROVE SuccessInv'
  BY <1>2 DEF RequestOperation
<1>3. CASE RequestDelete
  BY <1>3 DEF RequestDelete
<1>. QED BY <1>1, <1>2, <1>3 DEF Gardenlet

LEMMA SuccessReconciler == TypeOK /\ ControlInv /\ SuccessInv /\ Reconciler => SuccessInv'
<1> SUFFICES ASSUME TypeOK, ControlInv, SuccessInv, Reconciler PROVE SuccessInv'
  OBVIOUS
<1>0. UNCHANGED <<tfObjects, cloud, pods, saved>>
  BY DEF Reconciler, Dispatch, EnsureFinalizer, MarkProcessing, ReportError, MarkSucceeded,
         DeleteFinalizer, RemoveAnnotation, tfAll, tfObjects
<1>1. Complete' = Complete /\ NoneActive' = NoneActive
  BY <1>0 DEF Complete, NoneActive, Active, tfObjects
<1>. USE <1>1 DEF SuccessInv, Deploys, Return, Goto
<1>2. CASE Dispatch
  BY <1>2 DEF Dispatch
<1>3. CASE EnsureFinalizer
  BY <1>3 DEF EnsureFinalizer
<1>4. CASE MarkProcessing
  BY <1>4 DEF MarkProcessing, ActuatorStart
<1>5. CASE ReportError
  BY <1>5 DEF ReportError
<1>6. CASE MarkSucceeded
  BY <1>6 DEF MarkSucceeded, ControlInv, Places, OperationInv, Kept, TypeOK, ControllerTypeOK, Jobs
<1>7. CASE DeleteFinalizer
  BY <1>7 DEF DeleteFinalizer, ControlInv, Places
<1>8. CASE RemoveAnnotation
  BY <1>8 DEF RemoveAnnotation
<1>. QED BY <1>2, <1>3, <1>4, <1>5, <1>6, <1>7, <1>8 DEF Reconciler

LEMMA SuccessExecute ==
  TypeOK /\ ControlInv /\ AtMostOneTerraformer /\ SuccessInv /\ Execute => SuccessInv'
<1> SUFFICES ASSUME TypeOK, ControlInv, AtMostOneTerraformer, SuccessInv, Execute PROVE SuccessInv'
  OBVIOUS
\* No success is stored while the actuator works.
<1>0. ASSUME UNCHANGED <<op, opState>>, ~(pc \in {"idle", "ensureFinalizer", "processing"})
      PROVE  op' \in {"create", "reconcile", "restore"} => opState' # "succeeded"
  BY <1>0 DEF ControlInv, Places, OperationInv, Deploys, TypeOK, ControllerTypeOK, Jobs
<1>. USE DEF SuccessInv, Deploys, With, Goto, Actuator, crVars, tfAll, AfterExecute, AfterActuator,
             Destroying
<1>1. CASE InitializerConfig \/ CreateOrUpdateConfig \/ CreateOrUpdateVars \/ InitializeState
  BY <1>0, <1>1 DEF InitializerConfig, CreateOrUpdateConfig, CreateOrUpdateVars, InitializeState
<1>2. CASE CountResources \/ CleanUpPods
  BY <1>0, <1>2 DEF CountResources, CleanUpPods
<1>3. CASE Prepared
  BY <1>0, <1>3 DEF Prepared, NoneActive, NoPods, Exists, Active
<1>4. CASE SkipDestroy
  BY <1>0, <1>4 DEF SkipDestroy, ControlInv, Places
<1>5. ASSUME NEW p \in PodIds, DeployPod(p) PROVE SuccessInv'
  BY <1>0, <1>5 DEF DeployPod, TypeOK, ControllerTypeOK, Locals
<1>6. CASE WaitForPod
  <2>1. ASSUME loc'.ok PROVE NoneActive'
    <3>1. loc.pod \in PodIds /\ pods[loc.pod].phase = "succeeded" /\ UNCHANGED pods
      BY <1>6, <2>1 DEF WaitForPod, TypeOK, ControllerTypeOK, Locals
    <3>. QED BY <3>1 DEF AtMostOneTerraformer, Exists, NoneActive, Active
  <2>. QED BY <1>0, <1>6, <2>1 DEF WaitForPod
<1>7. CASE CollectPods
  <2>1. NoneActive => NoneActive'
    BY <1>7, DeletePodsType DEF CollectPods, NoneActive, Active, TypeOK, TFTypeOK
  <2>. QED BY <1>0, <1>7, <2>1 DEF CollectPods
<1>8. CASE UpdateProviderStatus
  <2>1. pc = "providerStatus" /\ Deploys /\ NoneActive'
    BY <1>8 DEF UpdateProviderStatus, ControlInv, Places, NoneActive, Active
  <2>2. pc' \in {"unannotate", "success"} => Complete'
    BY <1>8, <2>1 DEF UpdateProviderStatus, Complete
  <2>. QED BY <1>0, <1>8, <2>1, <2>2 DEF UpdateProviderStatus
<1>9. CASE DeleteCleanedUp \/ DeleteStateEmpty
  BY <1>0, <1>9 DEF DeleteCleanedUp, DeleteStateEmpty
<1>10. CASE CleanupVars \/ CleanupConfig \/ CleanupState
  BY <1>0, <1>10 DEF CleanupVars, CleanupConfig, CleanupState, ControlInv, Places
<1>. QED BY <1>1, <1>2, <1>3, <1>4, <1>5, <1>6, <1>7, <1>8, <1>9, <1>10 DEF Execute

LEMMA SuccessFaults == TypeOK /\ SuccessInv /\ Faults => SuccessInv'
<1> SUFFICES ASSUME SuccessInv, Faults PROVE SuccessInv'
  OBVIOUS
<1>1. UNCHANGED <<tfState, pods, crVars>>
  BY DEF Faults, CallFails, StateUnreadable, ReconcilerFails, Crash, Actuator, tfObjects
<1>2. Complete' = Complete
  BY <1>1 DEF Complete, NoneActive, Active, crVars
<1>3. pc' \in {"error", "idle", "putConfig", "count", "deploy"} 
  BY DEF Faults, CallFails, StateUnreadable, ReconcilerFails, Crash, Goto, Return, With
<1>. QED BY <1>1, <1>2, <1>3 DEF SuccessInv, crVars

LEMMA SuccessStep ==
  TypeOK /\ ControlInv /\ AtMostOneTerraformer /\ SuccessInv /\ [Next]_vars => SuccessInv'
<1> SUFFICES ASSUME TypeOK, ControlInv, AtMostOneTerraformer, SuccessInv, [Next]_vars
             PROVE  SuccessInv'
  OBVIOUS
<1>1. CASE PodSteps
  BY <1>1, NoneActivePods
     DEF PodSteps, SuccessInv, Complete, Deploys, ctrlVars, crVars, tfObjects
<1>2. CASE UNCHANGED vars
  BY <1>2 DEF vars, SuccessInv, Complete, NoneActive, Active, Deploys, ctrlVars, crVars, tfAll
<1>. QED
  BY <1>1, <1>2, SuccessGardenlet, SuccessReconciler, SuccessExecute, SuccessFaults
     DEF Next, Controller

\* A stored success of a create, reconcile or restore is true: every resource
\* of the configuration exists, and both Terraform and Status.State list it;
\* for every number of faults, also when nodes are lost and whatever state was
\* published for a restore.
THEOREM SuccessIsTrue == Spec => []SuccessIsComplete
<1>1. Init => KnownInv /\ SuccessInv
  BY DEF Init, TFInit, KnownInv, SuccessInv, Deploys, NoState, Exists, NoPod
<1>2. TypeOK /\ KnownInv /\ SuccessInv => SuccessIsComplete
  <2> SUFFICES ASSUME TypeOK, KnownInv, SuccessInv,
                      op \in {"create", "reconcile", "restore"}, opState = "succeeded"
               PROVE  cloud = Resources /\ tfState.res = Resources /\ saved.res = Resources
    BY DEF SuccessIsComplete
  <2>1. tfState.res = Resources /\ saved.res = Resources
    BY DEF SuccessInv, Complete, Json
  <2>2. Resources \subseteq cloud
    BY <2>1 DEF KnownInv, Kept
  <2>3. cloud \subseteq Resources
    BY DEF TypeOK, TFTypeOK
  <2>. QED BY <2>1, <2>2, <2>3
<1>. QED
  BY <1>1, <1>2, TypeCorrect, ControlHolds, OneTerraformer, KnownStep, SuccessStep, PTL DEF Spec

----------------------------------------------------------------------------
(* A saved state is never thrown back.                                     *)

StatesArePublished == \A s \in PublishedStates : s.kind = "json"
RestoredInv == ann = "restore" \/ job = "restore" => saved.kind = "json"

LEMMA RestoredStep ==
  ASSUME StatesArePublished
  PROVE  TypeOK /\ RestoredInv /\ [Next]_vars => RestoredInv'
<1> SUFFICES ASSUME TypeOK, RestoredInv, [Next]_vars PROVE RestoredInv'
  OBVIOUS
<1>. USE DEF RestoredInv
<1>1. CASE UNCHANGED <<ann, job, saved>>
  BY <1>1
<1>2. CASE Gardenlet
  BY <1>2
     DEF Gardenlet, PublishState, RequestOperation, RequestDelete, GardenletWrites, StatesArePublished
<1>3. CASE Reconciler
  BY <1>3
     DEF Reconciler, Dispatch, Dispatched, EnsureFinalizer, MarkProcessing, ReportError,
         MarkSucceeded, DeleteFinalizer, RemoveAnnotation, Goto, Return
<1>4. CASE UpdateProviderStatus
  BY <1>4 DEF UpdateProviderStatus, Json, Goto
<1>5. CASE Faults
  BY <1>5
     DEF Faults, CallFails, StateUnreadable, ReconcilerFails, Crash, Actuator, crVars, Goto, Return, With
<1>. QED
  BY <1>1, <1>2, <1>3, <1>4, <1>5
     DEF Next, vars, crVars, ctrlVars, Controller, Execute,
         InitializerConfig, CreateOrUpdateConfig, CreateOrUpdateVars, InitializeState,
         CountResources, CleanUpPods, Prepared, SkipDestroy, DeployPod, WaitForPod, CollectPods,
         DeleteCleanedUp, DeleteStateEmpty, CleanupVars, CleanupConfig,
         CleanupState, PodSteps, Actuator, Goto, With

\* Who throws a saved state away is the last cleanup step of a Delete or Migrate.
LEMMA OnlyCleanupResets ==
  ASSUME TypeOK, ControlInv, RestoredInv, [Next]_vars,
         tfState.kind = "json", tfState'.kind # "json"
  PROVE  pc = "dropState" /\ job \in {"delete", "migrate"}
<1>1. ~PodSteps
  <2> SUFFICES ASSUME NEW p \in PodIds, PodStep(p) PROVE FALSE
    BY DEF PodSteps
  <2>. QED
    BY DEF PodStep, PodStart, PodCreates, PodDestroys, PodSucceeds, PodFails, PodRemoved, PodLost,
           SaveState, Json, tfObjects
<1>2. ~InitializeState
  BY DEF InitializeState, RestoredInv, ControlInv, Places, Deploys
<1>3. CleanupState
  BY <1>1, <1>2
     DEF Next, vars, tfAll, tfObjects, Gardenlet, PublishState, RequestOperation, RequestDelete,
         GardenletWrites, Controller, Reconciler, Dispatch, EnsureFinalizer, MarkProcessing,
         ReportError, MarkSucceeded, DeleteFinalizer, RemoveAnnotation, Execute,
         InitializerConfig, CreateOrUpdateConfig, CreateOrUpdateVars,
         CountResources, CleanUpPods, Prepared, SkipDestroy, DeployPod, WaitForPod, CollectPods,
         UpdateProviderStatus, DeleteCleanedUp, DeleteStateEmpty, CleanupVars, CleanupConfig,
         Faults, CallFails, StateUnreadable, ReconcilerFails, Crash
<1>. QED
  BY <1>3 DEF CleanupState, ControlInv, Places, Deploys, TypeOK, ControllerTypeOK, Jobs

\* When the gardenlet publishes Terraform states, a saved state is only ever
\* removed by the cleanup of a Delete or Migrate.
THEOREM StatesAreKept == ASSUME StatesArePublished PROVE Spec => StateNeverReset
<1>1. Init => RestoredInv
  BY DEF Init, RestoredInv
<1>2. TypeOK /\ ControlInv /\ RestoredInv /\ [Next]_vars =>
        [tfState.kind = "json" /\ tfState'.kind # "json"
           => pc = "dropState" /\ job \in {"delete", "migrate"}]_vars
  BY OnlyCleanupResets
<1>. QED
  BY <1>1, <1>2, TypeCorrect, ControlHolds, RestoredStep, PTL DEF Spec, StateNeverReset

----------------------------------------------------------------------------
(* Nothing is forgotten, and a deletion leaves nothing.                    *)

\* No node is lost, and a restore that has begun is not cut off by a deletion.
QuietSeed == ~NodeLoss /\ ~DeleteDuringRestore /\ StatesArePublished

\* Until a restore is over, its state is not empty, and it replaces none.
RestoreInv ==
    /\ ann \in {"wait-for-state", "restore"} =>
          ~deleting /\ op \in {"none", "restore"} /\ job \in {"none", "restore"}
    /\ ann = "wait-for-state" => tfState = NoState /\ NoPods
    /\ ann \in {"wait-for-state", "restore"} \/ job = "restore" => tfState.kind # "empty"
    /\ job = "restore" => ann = "restore" \/ pc = "success"

\* Where a seed that has not handed it over remembers the cloud.
Recorded ==
    IF tfState.kind = "json" THEN tfState.res
    ELSE IF ann = "restore" THEN saved.res ELSE {}
Memory ==
    /\ \A p \in PodIds : pods[p].phase = "running" => cloud \subseteq pods[p].res
    /\ (\A p \in PodIds : pods[p].phase # "running") => cloud \subseteq Recorded
    /\ tfState.kind = "absent" => NoneActive
    /\ \A p \in PodIds : pods[p].cmd = "destroy" /\ pods[p].phase = "succeeded" => cloud = {}
MemoryInv == op # "migrate" /\ ann # "wait-for-state" => Memory

\* What the count of the resources, made earlier, still says of the state.
CountInv ==
    /\ pc \in {"prepare", "awaitPrepared"} /\ loc.count = 3 => tfState.kind # "absent"
    /\ pc \in {"skip", "deploy"} => tfState.kind # "absent"
    /\ pc \in {"prepare", "awaitPrepared"} /\ job = "delete" /\ loc.count = 0 => tfState.kind = "absent"
    /\ job = "restore" /\ ((pc \in {"putConfig", "putVars"} /\ loc.init) \/ pc = "putState")
          => tfState.kind = "absent"

\* What a deletion has done at each place.
Destroyed == cloud = {} /\ NoneActive
Gone == Destroyed /\ ~tfVars /\ ~tfConfig /\ tfState = NoState
DeletionInv ==
    /\ job = "delete" =>
          /\ pc \in {"stateEmpty", "count", "prepare", "awaitPrepared", "skip", "deploy"} => NoPods
          /\ pc = "collect" /\ loc.ok => Destroyed
          /\ pc \in {"dropVars", "dropConfig", "dropState"} => Destroyed
          /\ pc \in {"dropConfig", "dropState"} => ~tfVars
          /\ pc = "dropState" => ~tfConfig
          /\ pc \in {"success", "deleteFinalizer"} => Gone
    /\ ~exists /\ op = "delete" => pc = "idle" /\ Gone

\* A pod leaves an absent state absent unless it runs, and never empties one.
LEMMA PodsWriteStates ==
  ASSUME TypeOK, PodSteps
  PROVE  /\ tfState' = tfState \/ tfState'.kind = "json"
         /\ NoPods => tfState' = tfState /\ NoPods'
<1>1. PICK p \in PodIds : PodStep(p)
  BY DEF PodSteps
<1>2. tfState' = tfState \/ tfState'.kind = "json"
  BY <1>1
     DEF PodStep, PodStart, PodCreates, PodDestroys, PodSucceeds, PodFails, PodRemoved, PodLost,
         SaveState, Json, tfObjects
<1>3. ~NoPods
  BY <1>1, PodStepType DEF TypeOK, NoPods
<1>. QED BY <1>2, <1>3

LEMMA RestoreStep ==
  ASSUME QuietSeed
  PROVE  TypeOK /\ ControlInv /\ RestoredInv /\ RestoreInv /\ [Next]_vars => RestoreInv'
<1> SUFFICES ASSUME TypeOK, ControlInv, RestoredInv, RestoreInv, [Next]_vars PROVE RestoreInv'
  OBVIOUS
<1>0. UNCHANGED pods => (NoPods' <=> NoPods)
  BY DEF NoPods, Exists
<1>. USE DEF RestoreInv, tfAll, tfObjects
<1>1. CASE UNCHANGED <<ann, deleting, op, job, tfState, pods, pc>>
  BY <1>0, <1>1
<1>2. CASE PublishState
  BY <1>0, <1>2 DEF PublishState, GardenletWrites, ControlInv, OperationInv, NoState
<1>3. ASSUME NEW a \in {"reconcile", "migrate"}, RequestOperation(a) PROVE RestoreInv'
  BY <1>3 DEF RequestOperation, GardenletWrites
<1>4. CASE RequestDelete
  BY <1>0, <1>4 DEF RequestDelete, GardenletWrites, QuietSeed
<1>5. CASE Reconciler
  <2>. USE <1>0 DEF Return, Goto
  <2>1. CASE Dispatch
    BY <2>1 DEF Dispatch, Dispatched
  <2>2. CASE EnsureFinalizer
    BY <2>2 DEF EnsureFinalizer
  <2>3. CASE MarkProcessing
    BY <2>3 DEF MarkProcessing, ActuatorStart, ControlInv, Places
  <2>4. CASE ReportError
    BY <2>4 DEF ReportError
  <2>5. CASE MarkSucceeded
    BY <2>5 DEF MarkSucceeded
  <2>6. CASE DeleteFinalizer
    BY <2>6 DEF DeleteFinalizer, ControlInv, Places, Deploys
  <2>7. CASE RemoveAnnotation
    BY <2>7 DEF RemoveAnnotation
  <2>. QED BY <1>5, <2>1, <2>2, <2>3, <2>4, <2>5, <2>6, <2>7 DEF Reconciler
<1>6. CASE PodSteps
  BY <1>6, PodsWriteStates DEF PodSteps, crVars, ctrlVars, NoState
<1>7. CASE Execute
  <2>1. /\ UNCHANGED <<ann, deleting, op, job>> /\ ann # "wait-for-state"
        /\ pc # "success"
    BY <1>7
       DEF Execute, InitializerConfig, CreateOrUpdateConfig, CreateOrUpdateVars, InitializeState,
           CountResources, CleanUpPods, Prepared, SkipDestroy, DeployPod, WaitForPod, CollectPods,
           UpdateProviderStatus, DeleteCleanedUp, DeleteStateEmpty, CleanupVars, CleanupConfig,
           CleanupState, With, Goto, Actuator, crVars, ControlInv, OperationInv
  <2>2. job = "restore" \/ ann = "restore" => tfState'.kind # "empty"
    <3>1. CASE InitializeState
      BY <2>1, <3>1 DEF InitializeState, RestoredInv, ControlInv, Places
    <3>2. CASE CleanupState
      BY <3>2 DEF CleanupState, NoState
    <3>3. CASE UNCHANGED tfState
      BY <3>3
    <3>. QED
      BY <1>7, <3>1, <3>2, <3>3
         DEF Execute, InitializerConfig, CreateOrUpdateConfig, CreateOrUpdateVars,
             CountResources, CleanUpPods, Prepared, SkipDestroy, DeployPod, WaitForPod, CollectPods,
             UpdateProviderStatus, DeleteCleanedUp, DeleteStateEmpty, CleanupVars, CleanupConfig
  <2>. QED BY <2>1, <2>2
<1>8. CASE Faults
  <2>1. /\ UNCHANGED <<tfState, pods, ann, deleting, op>>
        /\ (job' = job /\ pc' # "success" /\ pc # "success") \/ job' = "none"
    BY <1>8
       DEF Faults, CallFails, StateUnreadable, ReconcilerFails, Crash, Actuator, crVars, Goto,
           Return, With, ActuatorSteps
  <2>2. pc = "idle" => job' = "none"
    BY <1>8
       DEF Faults, CallFails, StateUnreadable, ReconcilerFails, Crash, Return, ActuatorSteps,
           ReconcilerSteps
  <2>. QED BY <1>0, <2>1, <2>2
<1>. QED
  BY <1>1, <1>2, <1>3, <1>4, <1>5, <1>6, <1>7, <1>8
     DEF Next, vars, crVars, ctrlVars, Controller, Gardenlet

LEMMA MemoryPods ==
  ASSUME QuietSeed, TypeOK, AtMostOneTerraformer, RestoreInv, ann # "wait-for-state", Memory, PodSteps
  PROVE  Memory'
<1>1. PICK p \in PodIds : PodStep(p)
  BY DEF PodSteps
<1>2. /\ UNCHANGED <<ann, saved>>
      /\ \A q \in PodIds \ {p} : pods'[q] = pods[q] /\ pods[q].phase = "none"
  <2>1. Exists(p) /\ \A q \in PodIds \ {p} : pods'[q] = pods[q]
    BY <1>1, PodStepType DEF TypeOK
  <2>. QED BY <2>1 DEF PodSteps, crVars, AtMostOneTerraformer, Exists
<1>3. pods \in [PodIds -> Pods] /\ tfState \in States
  BY DEF TypeOK, TFTypeOK
\* A running pod has been started on an existing state and can write it back.
<1>4. ASSUME pods[p].phase = "running", SaveState(pods[p].res)
      PROVE  tfState'.kind = "json" /\ tfState'.res = pods[p].res
  BY <1>4 DEF SaveState, Json, Memory, NoneActive, Active
<1>. USE DEF Memory, NoneActive, Active, Recorded, tfObjects
<1>5. CASE PodStart(p)
  <2>1. cloud \subseteq Recorded
    BY <1>2, <1>5 DEF PodStart
  <2>2. tfState.kind = "json"  \/ cloud = {}
    BY <1>3, <1>5, <2>1 DEF RestoreInv, PodStart, States
  <2>3. cloud \subseteq tfState.res
    BY <2>1, <2>2
  <2>4. /\ UNCHANGED <<tfState, cloud>> /\ tfState.kind # "absent"
        /\ \/ pods'[p].phase = "running" /\ pods'[p].res = tfState.res
           \/ pods'[p].phase = "failed"
    BY <1>3, <1>5 DEF PodStart, Pods
  <2>. QED BY <1>2, <2>1, <2>3, <2>4
<1>6. ASSUME NEW r \in Resources, PodCreates(p, r) PROVE Memory'
  <2>1. /\ pods[p].phase = "running" /\ pods'[p].phase = "running"
        /\ cloud' \subseteq pods'[p].res /\ UNCHANGED tfState
    BY <1>3, <1>6 DEF PodCreates, Pods
  <2>. QED BY <1>2, <2>1
<1>7. ASSUME NEW r \in Resources, PodDestroys(p, r) PROVE Memory'
  <2>1. /\ pods[p].phase = "running" /\ pods'[p].phase = "running"
        /\ cloud' \subseteq pods'[p].res /\ UNCHANGED tfState
    BY <1>3, <1>7 DEF PodDestroys, Pods
  <2>. QED BY <1>2, <2>1
<1>8. CASE PodSucceeds(p) \/ PodFails(p)
  <2>1. /\ pods[p].phase = "running" /\ SaveState(pods[p].res) /\ UNCHANGED cloud
        /\ pods'[p].phase \in {"succeeded", "failed"}
        /\ pods'[p].phase = "succeeded" /\ pods'[p].cmd = "destroy" => pods[p].res = {}
    BY <1>3, <1>8 DEF PodSucceeds, PodFails, Pods
  <2>2. cloud' \subseteq Recorded'
    BY <1>4, <2>1
  <2>3. pods'[p].phase = "succeeded" /\ pods'[p].cmd = "destroy" => cloud' = {}
    BY <2>1
  <2>. QED BY <1>2, <1>4, <2>1, <2>2, <2>3
<1>9. CASE PodRemoved(p)
  <2>1. /\ pods[p].phase # "running" /\ pods'[p].phase = "none"
        /\ UNCHANGED <<tfState, cloud>>
    BY <1>3, <1>9 DEF PodRemoved, NoPod
  <2>. QED BY <1>2, <2>1
<1>10. ~PodLost(p)
  BY DEF PodLost, QuietSeed
<1>. QED BY <1>1, <1>5, <1>6, <1>7, <1>8, <1>9, <1>10 DEF PodStep

LEMMA MemoryStep ==
  ASSUME QuietSeed
  PROVE  /\ TypeOK /\ ControlInv /\ OnePodInv /\ SuccessInv /\ RestoredInv /\ RestoreInv
         /\ MemoryInv /\ CountInv /\ DeletionInv /\ [Next]_vars
         => MemoryInv'
<1> SUFFICES ASSUME TypeOK, ControlInv, OnePodInv, SuccessInv, RestoredInv, RestoreInv,
                    MemoryInv, CountInv, DeletionInv, [Next]_vars,
                    op' # "migrate", ann' # "wait-for-state"
             PROVE  Memory'
  BY DEF MemoryInv
<1>1. CASE PublishState
  <2>1. NoPods /\ UNCHANGED <<tfState, cloud, pods>> /\ tfState = NoState
        /\ ann' = "restore" /\ saved'.res = cloud
    BY <1>1 DEF PublishState, GardenletWrites, RestoreInv, tfAll
  <2>. QED BY <2>1 DEF Memory, NoPods, Exists, NoneActive, Active, Recorded, NoState
\* Every other step is one of a seed that keeps the infrastructure.
<1>2. ASSUME ~PublishState PROVE op # "migrate" /\ ann # "wait-for-state"
  <2>1. op = "migrate" => ~MarkProcessing \/ op' = "migrate"
    BY DEF MarkProcessing, ControlInv, Places, OperationInv
  <2>2. ann = "wait-for-state" => ~RemoveAnnotation
    BY DEF RemoveAnnotation, ControlInv, OperationInv
  <2>. QED
    BY <1>2, <2>1, <2>2
       DEF Next, vars, crVars, Gardenlet, RequestOperation, RequestDelete,
           GardenletWrites, Controller, Reconciler, Dispatch, EnsureFinalizer, MarkProcessing, ReportError,
           MarkSucceeded, DeleteFinalizer, RemoveAnnotation, Execute,
           InitializerConfig, CreateOrUpdateConfig, CreateOrUpdateVars, InitializeState,
           CountResources, CleanUpPods, Prepared, SkipDestroy, DeployPod, WaitForPod, CollectPods,
           UpdateProviderStatus, DeleteCleanedUp, DeleteStateEmpty, CleanupVars, CleanupConfig,
           CleanupState, Faults, CallFails, StateUnreadable, ReconcilerFails, Crash, Actuator, PodSteps
<1>3. ~PublishState => Memory /\ op # "migrate" /\ ann # "wait-for-state"
  BY <1>2 DEF MemoryInv
<1>4. CASE PodSteps
  BY <1>3, <1>4, MemoryPods DEF OnePodInv, PodSteps, crVars, PublishState
<1>5. CASE UNCHANGED <<tfState, cloud, pods, ann, saved>>
  BY <1>3, <1>5 DEF Memory, NoneActive, Active, Recorded, PublishState
<1>6. ASSUME UNCHANGED <<tfState, cloud, pods, saved>>, ann # "restore", ann' # "restore", ~PublishState
      PROVE  Memory'
  BY <1>3, <1>6 DEF Memory, NoneActive, Active, Recorded
<1>7. CASE Dispatch
  BY <1>5, <1>6, <1>7 DEF Dispatch, PublishState, tfObjects
<1>8. ASSUME NEW a \in {"reconcile", "migrate"}, RequestOperation(a) PROVE Memory'
  BY <1>6, <1>8 DEF RequestOperation, GardenletWrites, PublishState, tfAll
<1>9. CASE RemoveAnnotation
  <2>1. pc = "unannotate" /\ UNCHANGED <<tfState, cloud, pods, saved, op>> /\ ~PublishState
    BY <1>9 DEF RemoveAnnotation, tfAll, PublishState, GardenletWrites, ControlInv, OperationInv
  <2>2. job = "restore"
    BY <1>3, <2>1 DEF ControlInv, Places, OperationInv
  <2>3. tfState.kind = "json"
    BY <2>1, <2>2 DEF SuccessInv, Complete, Deploys, Json
  <2>. QED BY <1>3, <2>1, <2>3 DEF Memory, NoneActive, Active, Recorded
<1>10. CASE UpdateProviderStatus
  <2>1. CASE UNCHANGED saved
    BY <1>5, <1>10, <2>1 DEF UpdateProviderStatus, tfAll
  <2>2. CASE tfState = Json(Resources)
    BY <1>3, <1>10, <2>2
       DEF UpdateProviderStatus, tfAll, Memory, NoneActive, Active, Recorded, Json, PublishState,
           GardenletWrites, ControlInv, OperationInv
  <2>. QED BY <1>10, <2>1, <2>2 DEF UpdateProviderStatus
<1>11. CASE InitializeState
  <2>1. /\ pc = "putState" /\ UNCHANGED <<cloud, pods, ann, saved>> /\ ~PublishState
    BY <1>11 DEF InitializeState, Actuator, crVars, PublishState, ControlInv, OperationInv
  <2>2. CASE job = "restore"
    <3>1. tfState.kind = "absent" /\ saved.kind = "json" /\ ann = "restore" /\ tfState' = saved
      BY <1>11, <2>1, <2>2 DEF InitializeState, CountInv, RestoredInv, RestoreInv
    <3>. QED BY <1>3, <2>1, <3>1 DEF Memory, NoneActive, Active, Recorded
  <2>3. CASE job = "reconcile"
    <3>1. ann # "restore"
      BY <2>3 DEF RestoreInv
    <3>2. tfState' = IF tfState.kind = "absent" THEN EmptyState ELSE tfState
      BY <1>11, <2>3 DEF InitializeState
    <3>. QED BY <1>3, <2>1, <3>1, <3>2 DEF Memory, NoneActive, Active, Recorded, EmptyState
  <2>. QED BY <2>1, <2>2, <2>3 DEF ControlInv, Places, Deploys
<1>12. CASE CleanUpPods \/ CollectPods
  <2>1. /\ UNCHANGED <<tfState, cloud, ann, saved>> /\ ~PublishState
        /\ \A p \in PodIds : /\ pods'[p].phase = pods[p].phase /\ pods'[p].cmd = pods[p].cmd
                             /\ pods'[p].res = pods[p].res
    BY <1>12, DeletePodsType, DeletePodsRes
       DEF CleanUpPods, CollectPods, Actuator, crVars, PublishState, ControlInv, OperationInv,
           TypeOK, TFTypeOK, tfObjects
  <2>. QED BY <1>3, <2>1 DEF Memory, NoneActive, Active, Recorded
<1>13. ASSUME NEW p \in PodIds, DeployPod(p) PROVE Memory'
  <2>1. /\ UNCHANGED <<tfState, cloud, ann, saved>> /\ ~PublishState /\ NoPods
        /\ tfState.kind # "absent"
        /\ \A q \in PodIds : pods'[q] = pods[q] \/ pods'[q].phase = "pending"
    BY <1>13
       DEF DeployPod, Actuator, crVars, PublishState, ControlInv, OperationInv, tfObjects, OnePodInv,
           CountInv, NewPod, NoPod, TypeOK, TFTypeOK
  <2>. QED BY <1>3, <2>1 DEF Memory, NoneActive, Active, Recorded, NoPods, Exists
<1>14. CASE CleanupState
  <2>1. /\ pc = "dropState" /\ UNCHANGED <<cloud, pods, ann, saved, op>> /\ ~PublishState
        /\ tfState' = NoState
    BY <1>14 DEF CleanupState, Actuator, crVars, PublishState, ControlInv, OperationInv
  <2>2. job = "delete"
    BY <1>3, <2>1 DEF ControlInv, Places, OperationInv, Deploys, TypeOK, ControllerTypeOK, Jobs
  <2>3. Destroyed
    BY <2>1, <2>2 DEF DeletionInv
  <2>. QED BY <2>1, <2>3 DEF Destroyed, Memory, NoneActive, Active
<1>. QED
  BY <1>1, <1>4, <1>5, <1>7, <1>8, <1>9, <1>10, <1>11, <1>12, <1>13, <1>14
     DEF Next, vars, tfAll, tfObjects, crVars, Gardenlet, RequestDelete,
         GardenletWrites, Controller, Reconciler, EnsureFinalizer, MarkProcessing, ReportError,
         MarkSucceeded, DeleteFinalizer, Execute,
         InitializerConfig, CreateOrUpdateConfig, CreateOrUpdateVars,
         CountResources, Prepared, SkipDestroy, WaitForPod,
         DeleteCleanedUp, DeleteStateEmpty, CleanupVars, CleanupConfig,
         Faults, CallFails, StateUnreadable, ReconcilerFails, Crash, Actuator

LEMMA CountStep ==
  TypeOK /\ ControlInv /\ RestoreInv /\ MemoryInv /\ CountInv /\ DeletionInv /\ [Next]_vars => CountInv'
<1> SUFFICES ASSUME TypeOK, ControlInv, RestoreInv, MemoryInv, CountInv, DeletionInv, [Next]_vars
             PROVE  CountInv'
  OBVIOUS
<1>. USE DEF CountInv, Goto, With, Return, tfObjects, tfAll
<1>1. CASE UNCHANGED <<pc, job, loc, tfState>>
  BY <1>1
<1>2. CASE PodSteps
  <2>1. UNCHANGED <<pc, job, loc>>
    BY <1>2 DEF PodSteps, ctrlVars
  <2>2. job = "delete" /\ pc \in {"prepare", "awaitPrepared"} => tfState' = tfState
    BY <1>2, PodsWriteStates DEF DeletionInv
  <2>3. job = "restore" /\ pc \in {"putConfig", "putVars", "putState"} /\ tfState.kind = "absent"
          => tfState' = tfState
    BY <1>2, NoneActivePods DEF MemoryInv, Memory, ControlInv, OperationInv
  <2>. QED BY <1>2, <2>1, <2>2, <2>3, PodsWriteStates
<1>3. CASE Reconciler
  BY <1>3
     DEF Reconciler, Dispatch, EnsureFinalizer, MarkProcessing, ReportError, MarkSucceeded,
         DeleteFinalizer, RemoveAnnotation, ActuatorStart
<1>4. CASE Faults
  BY <1>4 DEF Faults, CallFails, StateUnreadable, ReconcilerFails, Crash, TypeOK, ControllerTypeOK, Locals
<1>5. CASE InitializerConfig
  BY <1>5 DEF InitializerConfig, IsStateEmpty, RestoreInv, TypeOK, ControllerTypeOK, Locals
<1>6. CASE CreateOrUpdateConfig \/ CreateOrUpdateVars \/ InitializeState
  BY <1>6 DEF CreateOrUpdateConfig, CreateOrUpdateVars, InitializeState
<1>7. CASE CountResources
  BY <1>7 DEF CountResources, NumberOfResources, One, TypeOK, ControllerTypeOK, Locals
<1>8. CASE CleanUpPods \/ SkipDestroy \/ CollectPods
  BY <1>8 DEF CleanUpPods, SkipDestroy, CollectPods, AfterExecute
<1>9. CASE Prepared
  BY <1>9 DEF Prepared, AfterExecute
<1>10. ASSUME NEW p \in PodIds, DeployPod(p) PROVE CountInv'
  BY <1>10 DEF DeployPod
<1>11. CASE WaitForPod \/ UpdateProviderStatus \/ DeleteCleanedUp \/ DeleteStateEmpty
  BY <1>11 DEF WaitForPod, UpdateProviderStatus, AfterActuator, DeleteCleanedUp, DeleteStateEmpty
<1>12. CASE CleanupVars \/ CleanupConfig \/ CleanupState
  BY <1>12 DEF CleanupVars, CleanupConfig, CleanupState, AfterActuator
<1>. QED
  BY <1>1, <1>2, <1>3, <1>4, <1>5, <1>6, <1>7, <1>8, <1>9, <1>10, <1>11, <1>12
     DEF Next, vars, ctrlVars, Controller, Gardenlet, PublishState, RequestOperation, RequestDelete,
         GardenletWrites, Execute

\* What a deletion has reached stays when nobody but pods and the gardenlet act.
LEMMA GoneStays ==
  ASSUME TypeOK, PodSteps
  PROVE  (NoPods => NoPods') /\ (Destroyed => Destroyed' /\ UNCHANGED tfObjects) /\ (Gone => Gone')
<1>1. Destroyed => Destroyed' /\ UNCHANGED <<tfObjects, cloud>>
  BY NoneActivePods DEF Destroyed
<1>2. NoPods => NoPods'
  BY PodsWriteStates
<1>. QED BY <1>1, <1>2 DEF Gone, tfObjects

LEMMA DeletionReconciler == TypeOK /\ ControlInv /\ DeletionInv /\ Reconciler => DeletionInv'
<1> SUFFICES ASSUME TypeOK, ControlInv, DeletionInv, Reconciler PROVE DeletionInv'
  OBVIOUS
<1>0. UNCHANGED <<tfObjects, cloud, pods>>
  BY DEF Reconciler, Dispatch, EnsureFinalizer, MarkProcessing, ReportError, MarkSucceeded,
         DeleteFinalizer, RemoveAnnotation, tfAll, tfObjects
<1>1. (NoPods' <=> NoPods) /\ (Destroyed' <=> Destroyed) /\ (Gone' <=> Gone)
  BY <1>0 DEF NoPods, Exists, Destroyed, Gone, NoneActive, Active, tfObjects
<1>. USE <1>1 DEF DeletionInv, Return, Goto
<1>2. CASE Dispatch
  BY <1>2 DEF Dispatch
<1>3. CASE EnsureFinalizer
  BY <1>3 DEF EnsureFinalizer
<1>4. CASE MarkProcessing
  BY <1>4 DEF MarkProcessing, ActuatorStart
<1>5. CASE ReportError
  BY <1>5 DEF ReportError
<1>6. CASE MarkSucceeded
  BY <1>6 DEF MarkSucceeded
<1>7. CASE DeleteFinalizer
  BY <1>7 DEF DeleteFinalizer, ControlInv, Places, OperationInv, Deploys, TypeOK, ControllerTypeOK, Jobs
<1>8. CASE RemoveAnnotation
  BY <1>8 DEF RemoveAnnotation
<1>. QED BY <1>2, <1>3, <1>4, <1>5, <1>6, <1>7, <1>8 DEF Reconciler

LEMMA DeletionExecute ==
  ASSUME TypeOK, ControlInv, OnePodInv, DestroyInv, SuccessInv, RestoreInv, MemoryInv,
         CountInv, DeletionInv, Execute
  PROVE  DeletionInv'
<1>1. UNCHANGED <<exists, op, job>> /\ pc \in ActuatorSteps
  BY DEF Execute, InitializerConfig, CreateOrUpdateConfig, CreateOrUpdateVars, InitializeState,
         CountResources, CleanUpPods, Prepared, SkipDestroy, DeployPod, WaitForPod, CollectPods,
         UpdateProviderStatus, DeleteCleanedUp, DeleteStateEmpty, CleanupVars, CleanupConfig,
         CleanupState, With, Goto, Actuator, crVars, ActuatorSteps
<1>2. CASE job # "delete"
  BY <1>1, <1>2 DEF DeletionInv, ActuatorSteps
<1>3. CASE job = "delete"
  <2>1. op = "delete" /\ ann \notin {"wait-for-state", "restore"} /\ Destroying
    BY <1>1, <1>3 DEF RestoreInv, ControlInv, OperationInv, Deploys, ActuatorSteps, Destroying
  <2>2. Memory /\ exists
    BY <1>1, <2>1 DEF MemoryInv, DeletionInv, ActuatorSteps
\* Without pods and with an empty state, nothing exists in the cloud.
  <2>3. NoPods /\ IsStateEmpty => Destroyed
    BY <2>1, <2>2 DEF Memory, NoPods, Exists, IsStateEmpty, Recorded, Destroyed, NoneActive, Active
  <2>4. UNCHANGED <<pods, cloud>> => (NoPods' <=> NoPods) /\ (Destroyed' <=> Destroyed)
    BY DEF NoPods, Exists, Destroyed, NoneActive, Active
  <2>. USE <1>1, <1>3, <2>1, <2>2, <2>4 DEF DeletionInv, Goto, With, tfAll, tfObjects
  <2>5. CASE CountResources \/ DeleteCleanedUp
    BY <2>5 DEF CountResources, DeleteCleanedUp, Destroyed
  <2>6. CASE CleanUpPods
    <3>1. NoPods => NoPods'
      BY <2>6, DeletePodsType DEF CleanUpPods, NoPods, Exists, TypeOK, TFTypeOK
    <3>. QED BY <2>6, <3>1 DEF CleanUpPods
  <2>7. CASE Prepared
    <3>1. pc = "awaitPrepared" /\ NoPods /\ (loc.count = 0 => Destroyed)
      BY <2>3, <2>7 DEF Prepared, CountInv, IsStateEmpty
    <3>. QED BY <2>7, <3>1 DEF Prepared, AfterExecute
  <2>8. CASE SkipDestroy
    BY <2>3, <2>8 DEF SkipDestroy
  <2>9. ASSUME NEW p \in PodIds, DeployPod(p) PROVE DeletionInv'
    BY <2>9 DEF DeployPod
  <2>10. CASE WaitForPod
    <3>1. ASSUME loc'.ok PROVE Destroyed
      <4>1. pods[loc.pod].phase = "succeeded" /\ pc = "waitForPod"
        BY <2>10, <3>1 DEF WaitForPod, TypeOK, ControllerTypeOK, Locals
      <4>2. loc.pod \in PodIds
        BY <4>1 DEF SuccessInv
      <4>3. pods[loc.pod].cmd = "destroy"
        BY <4>1, <4>2 DEF DestroyInv, CleanedUp, Exists, ActuatorSteps
      <4>4. cloud = {}
        BY <4>1, <4>2, <4>3 DEF Memory
      <4>. QED BY <4>1, <4>2, <4>4 DEF OnePodInv, AtMostOneTerraformer, Exists, Destroyed, NoneActive, Active
    <3>. QED BY <2>10, <3>1 DEF WaitForPod
  <2>11. CASE CollectPods
    <3>1. Destroyed => Destroyed'
      BY <2>11, DeletePodsType DEF CollectPods, Destroyed, NoneActive, Active, TypeOK, TFTypeOK
    <3>. QED BY <2>11, <3>1 DEF CollectPods, AfterExecute
  <2>12. CASE DeleteStateEmpty
    BY <2>3, <2>12 DEF DeleteStateEmpty
  <2>13. CASE CleanupVars \/ CleanupConfig
    BY <2>13 DEF CleanupVars, CleanupConfig
  <2>14. CASE CleanupState
    BY <2>14 DEF CleanupState, AfterActuator, Gone
  <2>15. ~(InitializerConfig \/ CreateOrUpdateConfig \/ CreateOrUpdateVars \/ InitializeState
           \/ UpdateProviderStatus)
    BY DEF InitializerConfig, CreateOrUpdateConfig, CreateOrUpdateVars, InitializeState,
           UpdateProviderStatus, ControlInv, Places, Deploys
  <2>. QED
    BY <2>5, <2>6, <2>7, <2>8, <2>9, <2>10, <2>11, <2>12, <2>13, <2>14, <2>15 DEF Execute
<1>. QED BY <1>2, <1>3

LEMMA DeletionStep ==
  TypeOK /\ ControlInv /\ OnePodInv /\ DestroyInv /\ SuccessInv /\ RestoreInv /\ MemoryInv
  /\ CountInv /\ DeletionInv /\ [Next]_vars => DeletionInv'
<1> SUFFICES ASSUME TypeOK, ControlInv, OnePodInv, DestroyInv, SuccessInv, RestoreInv, MemoryInv,
                    CountInv, DeletionInv, [Next]_vars
             PROVE  DeletionInv'
  OBVIOUS
<1>0. UNCHANGED <<tfObjects, pods, cloud>> =>
        (NoPods' <=> NoPods) /\ (Destroyed' <=> Destroyed) /\ (Gone' <=> Gone)
  BY DEF NoPods, Exists, Destroyed, Gone, NoneActive, Active, tfObjects
<1>1. CASE Gardenlet \/ UNCHANGED vars
  <2>1. /\ UNCHANGED <<tfObjects, pods, cloud, pc, job, loc, op>>
        /\ op = "delete" => UNCHANGED exists
    BY <1>1
       DEF Gardenlet, PublishState, RequestOperation, RequestDelete, GardenletWrites,
           ControlInv, OperationInv, vars, crVars, ctrlVars, tfAll, tfObjects
  <2>. QED BY <1>0, <2>1 DEF DeletionInv, tfObjects
<1>2. CASE PodSteps
  <2>1. UNCHANGED <<pc, job, loc, op, exists>>
    BY <1>2 DEF PodSteps, crVars, ctrlVars
  <2>. QED BY <1>2, <2>1, GoneStays DEF DeletionInv, tfObjects
<1>3. CASE Faults
  <2>1. UNCHANGED <<tfObjects, pods, cloud, exists, op>>
    BY <1>3 DEF Faults, CallFails, StateUnreadable, ReconcilerFails, Crash, Actuator, crVars
  <2>2. \/ pc' \in {"error", "idle"}
        \/ /\ job' = job
           /\ \/ pc = "initState" /\ pc' = "putConfig"
              \/ pc = "stateEmpty" /\ pc' = "count"
              \/ pc = "skip" /\ pc' = "deploy"
    BY <1>3 DEF Faults, CallFails, StateUnreadable, ReconcilerFails, Crash, Goto, Return, With
  <2>3. pc = "idle" => pc' = "idle"
    BY <1>3
       DEF Faults, CallFails, StateUnreadable, ReconcilerFails, Crash, ActuatorSteps, ReconcilerSteps
  <2>. QED BY <1>0, <2>1, <2>2, <2>3 DEF DeletionInv
<1>. QED
  BY <1>1, <1>2, <1>3, DeletionReconciler, DeletionExecute DEF Next, Controller

SeedInv ==
    /\ ControlInv /\ OnePodInv /\ DestroyInv /\ SuccessInv
    /\ RestoredInv /\ RestoreInv /\ MemoryInv /\ CountInv /\ DeletionInv

LEMMA SeedHolds == ASSUME QuietSeed PROVE Spec => []SeedInv
<1>1. Init => SeedInv
  <2> SUFFICES ASSUME Init PROVE SeedInv
    OBVIOUS
  <2>1. NoPods /\ NoneActive /\ \A p \in PodIds : pods[p].phase = "none"
    BY DEF Init, TFInit, NoPods, Exists, NoPod, NoneActive, Active
  <2>2. ControlInv /\ SuccessInv /\ DestroyInv /\ CountInv /\ DeletionInv
    BY DEF Init, ControlInv, Places, OperationInv, Deploys, Kept, SuccessInv, DestroyInv, CleanedUp,
           CountInv, DeletionInv
  <2>3. OnePodInv /\ RestoredInv /\ RestoreInv
    BY <2>1 DEF Init, TFInit, OnePodInv, AtMostOneTerraformer, NoPods, RestoredInv, RestoreInv, NoState
  <2>4. MemoryInv
    BY <2>1 DEF Init, MemoryInv, Memory
  <2>. QED BY <2>2, <2>3, <2>4 DEF SeedInv
<1>2. TypeOK /\ SeedInv /\ [Next]_vars => SeedInv'
  <2> SUFFICES ASSUME TypeOK, SeedInv, [Next]_vars PROVE SeedInv'
    OBVIOUS
  <2>1. ControlInv' /\ OnePodInv' /\ DestroyInv'
    BY ControlStep, OnePodStep, DestroyStep DEF SeedInv
  <2>2. SuccessInv'
    BY SuccessStep DEF SeedInv, OnePodInv
  <2>3. RestoredInv' /\ RestoreInv'
    BY RestoredStep, RestoreStep DEF SeedInv, QuietSeed
  <2>4. MemoryInv'
    BY MemoryStep DEF SeedInv
  <2>5. CountInv' /\ DeletionInv'
    BY CountStep, DeletionStep DEF SeedInv
  <2>. QED BY <2>1, <2>2, <2>3, <2>4, <2>5 DEF SeedInv
<1>. QED BY <1>1, <1>2, TypeCorrect, PTL DEF Spec

\* On a seed that loses no node, whatever exists in the subscription is listed
\* where the next Terraform run finds it, over any number of failed calls,
\* crashes, failed runs and requests, until the infrastructure is handed over.
THEOREM NothingIsForgotten == ASSUME QuietSeed PROVE Spec => []NothingForgotten
<1>1. TypeOK /\ SeedInv => NothingForgotten
  <2> SUFFICES ASSUME TypeOK, SeedInv, op # "migrate", ann # "wait-for-state"
               PROVE  cloud \subseteq Remembered
    BY DEF NothingForgotten, Remembered
  <2>1. Memory
    BY DEF SeedInv, MemoryInv
  <2>2. ASSUME NEW p \in PodIds, pods[p].phase = "running" PROVE cloud \subseteq Remembered
    BY <2>1, <2>2 DEF Memory, Remembered
  <2>3. ASSUME \A p \in PodIds : pods[p].phase # "running" PROVE cloud \subseteq Remembered
    <3>1. cloud \subseteq Recorded
      BY <2>1, <2>3 DEF Memory
    <3>2. tfState.kind # "json" => IsStateEmpty
      BY DEF TypeOK, TFTypeOK, States, IsStateEmpty
    <3>. QED BY <3>1, <3>2 DEF Recorded, Remembered
  <2>. QED BY <2>2, <2>3
<1>. QED BY <1>1, TypeCorrect, SeedHolds, PTL

\* On a seed that loses no node, a deletion that drops the last finalizer has
\* left nothing in the cloud and in the shoot's namespace.
THEOREM DeletionLeavesNone == ASSUME QuietSeed PROVE Spec => []DeletionLeavesNothing
<1>1. SeedInv => DeletionLeavesNothing
  BY DEF SeedInv, DeletionInv, DeletionLeavesNothing, Gone, Destroyed, NoneActive
<1>. QED BY <1>1, SeedHolds, PTL
=============================================================================
