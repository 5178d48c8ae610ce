------------------------- MODULE CSIMigrationProofs -------------------------
(***************************************************************************)
(* Proofs about CSIMigration, for every set of machines and storage        *)
(* classes, every number of changes and faults, and every environment:     *)
(* what the controller patches, what new kubelets find, and what a         *)
(* completed migration has left.                                           *)
(***************************************************************************)
EXTENDS CSIMigration, TLAPS

----------------------------------------------------------------------------
(* Type correctness.                                                       *)

LEMMA EnsureType ==
  ASSUME NEW d \in Deployments, NEW old \in SUBSET Pieces, NEW v \in Versions, NEW n \in BOOLEAN,
         NEW s \in BOOLEAN
  PROVE  Ensure(d, old, v, n, s) \in SUBSET Pieces
<1> DEFINE complete == MigrationComplete(v, n)
<1>1. Gates \subseteq Pieces /\ CompleteGates \subseteq Pieces /\ CloudArgs \subseteq Pieces
      /\ Volumes \subseteq Pieces /\ PluginArgs \subseteq Pieces /\ Checksums \subseteq Pieces
      /\ OtherPieces \subseteq Pieces
  BY DEF Pieces
<1>2. EnsureGates(old, v, complete) \in SUBSET Pieces
  BY <1>1 DEF EnsureGates
<1>a. ASSUME NEW p \in SUBSET Pieces
      PROVE  EnsureChecksumAnnotations(EnsureVolumes(p, v, complete), complete, s) \in SUBSET Pieces
  <2>1. EnsureVolumes(p, v, complete) \in SUBSET Pieces
    BY <1>1 DEF EnsureVolumes, Volumes
  <2>. QED BY <1>1, <2>1 DEF EnsureChecksumAnnotations, Checksums
<1>3. EnsureKubeAPIServer(old, v, complete, s) \in SUBSET Pieces
  BY <1>1, <1>2, <1>a DEF EnsureKubeAPIServer, PluginArgs, OtherPieces
<1>4. EnsureKubeControllerManager(old, v, complete, s) \in SUBSET Pieces
  BY <1>1, <1>2, <1>a DEF EnsureKubeControllerManager, PluginArgs, OtherPieces, CloudArgs
<1>5. EnsureKubeScheduler(old, v, complete) \in SUBSET Pieces
  BY <1>2 DEF EnsureKubeScheduler
<1>6. CASE d = "kube-apiserver"
  BY <1>3, <1>6 DEF Ensure
<1>7. CASE d = "kube-controller-manager"
  BY <1>4, <1>7 DEF Ensure
<1>8. CASE d = "kube-scheduler"
  BY <1>5, <1>8 DEF Ensure
<1>. QED BY <1>6, <1>7, <1>8 DEF Deployments

LEMMA MutatedType ==
  ASSUME TypeOK, NEW d \in Deployments, NEW old \in SUBSET Pieces
  PROVE  Mutated(d, old) \in [Deployments -> SUBSET Pieces]
<1>1. Ensure(d, old, seen.version, seen.needsComplete, secret) \in SUBSET Pieces
  BY EnsureType DEF TypeOK, Clusters
<1>. QED BY <1>1 DEF Mutated, TypeOK

LEMMA InitTypeOK == Init => TypeOK
<1> SUFFICES ASSUME NEW start \in Starts, StartOf(start), Init PROVE TypeOK
  BY DEF Init
<1>1. start \in {"existing", "hibernated", "new"}
  BY StartsAssumption
<1>0. cluster.version \in Versions /\ secret \in BOOLEAN
  <2>1. PICK v \in Versions :
           cluster = [version |-> v, hibernated |-> start = "hibernated", halted |-> FALSE,
                      needsComplete |-> FALSE, finished |-> FALSE]
    BY DEF StartOf
  <2>2. secret \in BOOLEAN
    BY DEF StartOf
  <2>. QED BY <2>1, <2>2
<1>2. ASSUME NEW d \in Deployments PROVE Ensure(d, {}, cluster.version, FALSE, secret) \in SUBSET Pieces
  <2>1. {} \in SUBSET Pieces /\ FALSE \in BOOLEAN
    OBVIOUS
  <2>. QED BY ONLY <1>0, <2>1, EnsureType
<1>3. pieces \in [Deployments -> SUBSET Pieces]
  BY <1>2 DEF StartOf
<1>4. cluster \in Clusters /\ queued \in BOOLEAN /\ controlPlane \in BOOLEAN /\ apiUp \in BOOLEAN
  BY <1>1 DEF StartOf, Clusters
<1>5. wanted \in Provisioners /\ classes \in [Classes -> Provisioners] /\ worker \in Workers
      /\ machines \in [Machines -> {"none", "booting", "old", "new"}]
  BY DEF StartOf, Provisioners, Workers
<1>6. deployed \subseteq Deployments /\ flow \in FlowSteps
  BY DEF StartOf, FlowSteps
<1>7. changes \in 0..MaxChanges /\ faults \in 0..MaxFaults
  BY MaxChangesAssumption, MaxFaultsAssumption DEF Init
<1>. QED BY <1>0, <1>3, <1>4, <1>5, <1>6, <1>7 DEF Init, TypeOK, CtrlSteps

LEMMA NextTypeOK == TypeOK /\ [Next]_vars => TypeOK'
<1> SUFFICES ASSUME TypeOK, [Next]_vars PROVE TypeOK'
  OBVIOUS
<1>. USE DEF TypeOK, cacheVars, ctrlVars, seedVars, shootVars
<1>1. CASE Observe
  BY <1>1 DEF Observe, IsRelevant, Clusters
<1>2. CASE Controller
  <2>. USE DEF Goto, Return, Requeue, Unchanging, CtrlSteps
  <2>1. CASE Dispatch
    BY <2>1 DEF Dispatch
  <2>2. CASE CheckControlPlane
    BY <2>2 DEF CheckControlPlane
  <2>3. \A c, step : /\ Update(c, step) /\ c \in Clusters /\ step \in CtrlSteps
                     => /\ cluster' \in Clusters /\ seen' \in Clusters /\ copy' \in Clusters
                        /\ synced' \in BOOLEAN /\ fresh' \in BOOLEAN
                        /\ pc' \in CtrlSteps /\ queued' \in BOOLEAN
    BY DEF Update, Store
  <2>4. /\ [copy EXCEPT !.needsComplete = TRUE, !.finished = TRUE] \in Clusters
        /\ [copy EXCEPT !.needsComplete = TRUE] \in Clusters
        /\ [copy EXCEPT !.finished = TRUE] \in Clusters
    BY DEF Clusters
  <2>5. CASE MarkNew
    BY <2>3, <2>4, <2>5 DEF MarkNew
  <2>6. CASE CheckNodes
    BY <2>6 DEF CheckNodes
  <2>7. CASE ListClasses
    BY <2>7 DEF ListClasses
  <2>8. CASE DeleteClass
    <3>1. classes' \in [Classes -> Provisioners] /\ legacy' \subseteq Classes
      BY <2>8 DEF DeleteClass, Provisioners
    <3>2. pc' \in CtrlSteps /\ queued' \in BOOLEAN
      BY <2>8 DEF DeleteClass
    <3>. QED BY <2>8, <3>1, <3>2 DEF DeleteClass
  <2>9. CASE MarkNeedsComplete
    BY <2>3, <2>4, <2>9 DEF MarkNeedsComplete
  <2>10. CASE PatchDeployment
    <3>1. NextToPatch \in Deployments
      BY DEF NextToPatch, Deployments
    <3>2. Mutated(NextToPatch, pieces[NextToPatch]) \in [Deployments -> SUBSET Pieces]
      BY <3>1, MutatedType
    <3>3. pieces' \in [Deployments -> SUBSET Pieces] /\ patched' \subseteq Deployments
      BY <2>10, <3>1, <3>2 DEF PatchDeployment
    <3>4. pc' \in CtrlSteps /\ queued' \in BOOLEAN
      BY <2>10 DEF PatchDeployment
    <3>. QED BY <2>10, <3>3, <3>4 DEF PatchDeployment
  <2>11. CASE MarkFinished
    BY <2>3, <2>4, <2>11 DEF MarkFinished
  <2>. QED BY <1>2, <2>1, <2>2, <2>5, <2>6, <2>7, <2>8, <2>9, <2>10, <2>11 DEF Controller
<1>3. CASE CallFails
  BY <1>3, MaxFaultsAssumption DEF CallFails, Requeue, CtrlSteps
<1>4. CASE Crash
  BY <1>4, MaxFaultsAssumption DEF Crash, IsRelevant, Clusters, CtrlSteps
<1>5. CASE Gardenlet
  <2>1. CASE ChangeShoot
    <3>1. PICK v \in Versions, h \in BOOLEAN :
             SyncCluster([cluster EXCEPT !.version = v, !.hibernated = h, !.halted = FALSE])
      BY <2>1 DEF ChangeShoot
    <3>2. [cluster EXCEPT !.version = v, !.hibernated = h, !.halted = FALSE] \in Clusters
      BY DEF Clusters
    <3>3. changes' \in 0..MaxChanges
      BY <2>1, MaxChangesAssumption DEF ChangeShoot
    <3>. QED BY <2>1, <3>1, <3>2, <3>3 DEF ChangeShoot, SyncCluster, Store, FlowSteps
  <2>2. CASE Resync
    <3>1. [cluster EXCEPT !.halted = FALSE] \in Clusters
      BY DEF Clusters
    <3>. QED BY <2>2, <3>1 DEF Resync, SyncCluster, Store, FlowSteps
  <2>3. CASE FlowFails
    <3>1. [cluster EXCEPT !.halted = TRUE] \in Clusters
      BY DEF Clusters
    <3>2. faults' \in 0..MaxFaults
      BY <2>3, MaxFaultsAssumption DEF FlowFails
    <3>. QED BY <2>3, <3>1, <3>2 DEF FlowFails, Store, FlowSteps
  <2>4. CASE DeployControlPlane
    BY <2>4 DEF DeployControlPlane, Provisioners, FlowSteps, Deployments
  <2>5. ASSUME NEW d \in Deployments, Deploy(d)
        PROVE  TypeOK'
    <3>1. Mutated(d, {}) \in [Deployments -> SUBSET Pieces]
      BY MutatedType
    <3>2. NextFlowStep(d) \in FlowSteps
      BY DEF NextFlowStep, FlowSteps, Deployments
    <3>3. apiUp' \in BOOLEAN
      BY <2>5 DEF Deploy, Clusters
    <3>. QED BY <2>5, <3>1, <3>2, <3>3 DEF Deploy
  <2>6. CASE DeployWorker
    BY <2>6 DEF DeployWorker, EnsureKubelet, Workers, Clusters, FlowSteps
  <2>7. CASE Hibernate
    BY <2>7 DEF Hibernate, FlowSteps
  <2>8. CASE MoveSeed
    <3>1. [cluster EXCEPT !.needsComplete = FALSE, !.finished = FALSE] \in Clusters
      BY DEF Clusters
    <3>2. cluster' \in Clusters /\ queued' \in BOOLEAN
      BY <2>8, <3>1 DEF MoveSeed, IsRelevant, Clusters
    <3>3. changes' \in 0..MaxChanges
      BY <2>8, MaxChangesAssumption DEF MoveSeed
    <3>4. pieces' \in [Deployments -> SUBSET Pieces]
      BY <2>8 DEF MoveSeed
    <3>. QED BY <2>8, <3>2, <3>3, <3>4 DEF MoveSeed, FlowSteps, CtrlSteps, Provisioners
  <2>. QED BY <1>5, <2>1, <2>2, <2>3, <2>4, <2>5, <2>6, <2>7, <2>8 DEF Gardenlet, Flow
<1>6. CASE Environment
  <2>1. ASSUME NEW m \in Machines, CreateMachine(m) \/ JoinMachine(m) \/ DeleteMachine(m)
        PROVE  TypeOK'
    BY <2>1 DEF CreateMachine, JoinMachine, DeleteMachine, Environmental
  <2>2. ASSUME NEW c \in Classes, CreateClass(c)
        PROVE  TypeOK'
    BY <2>2 DEF CreateClass, Environmental
  <2>. QED BY <1>6, <2>1, <2>2 DEF Environment
<1>7. CASE UNCHANGED vars
  BY <1>7 DEF vars
<1>. QED BY <1>1, <1>2, <1>3, <1>4, <1>5, <1>6, <1>7 DEF Next

\* Every variable of the migration keeps its type, in every environment.
THEOREM TypeCorrect == Spec => []TypeOK
<1>1. Init => TypeOK
  BY InitTypeOK
<1>2. TypeOK /\ [Next]_vars => TypeOK'
  BY NextTypeOK
<1>. QED BY <1>1, <1>2, PTL DEF Spec

----------------------------------------------------------------------------
(* MigratesAwake.  The Update that completes a migration succeeds only for *)
(* a fresh copy, and a fresh copy is the stored Cluster; on the way to it  *)
(* the copy has been found awake and at the minimum version.               *)

MigrationSteps == {"nodes", "classes", "delete", "needsComplete"}

CopyInv ==
    /\ synced => seen = cluster
    /\ fresh => copy = cluster
    /\ pc \in MigrationSteps => copy.version = csiMigrationVersion /\ ~copy.hibernated

LEMMA NextCopyInv == TypeOK /\ CopyInv /\ [Next]_vars => CopyInv'
<1> SUFFICES ASSUME TypeOK, CopyInv, [Next]_vars PROVE CopyInv'
  OBVIOUS
<1>. USE DEF CopyInv, cacheVars, ctrlVars, MigrationSteps
<1>1. CASE Observe
  BY <1>1 DEF Observe
<1>2. CASE Controller
  <2>. USE DEF Goto, Return, Requeue, Unchanging
  <2>1. CASE Dispatch
    BY <2>1 DEF Dispatch
  <2>2. CASE CheckControlPlane
    BY <2>2 DEF CheckControlPlane
  <2>3. \A c, step : Update(c, step) /\ step \notin MigrationSteps => CopyInv'
    BY DEF Update, Store
  <2>4. CASE MarkNew
    BY <2>3, <2>4 DEF MarkNew
  <2>5. CASE CheckNodes
    BY <2>5 DEF CheckNodes
  <2>6. CASE ListClasses
    BY <2>6 DEF ListClasses
  <2>7. CASE DeleteClass
    BY <2>7 DEF DeleteClass
  <2>8. CASE MarkNeedsComplete
    BY <2>3, <2>8 DEF MarkNeedsComplete
  <2>9. CASE PatchDeployment
    BY <2>9 DEF PatchDeployment
  <2>10. CASE MarkFinished
    BY <2>3, <2>10 DEF MarkFinished
  <2>. QED BY <1>2, <2>1, <2>2, <2>4, <2>5, <2>6, <2>7, <2>8, <2>9, <2>10 DEF Controller
<1>3. CASE CallFails
  BY <1>3 DEF CallFails, Requeue
<1>4. CASE Crash
  BY <1>4 DEF Crash
<1>5. CASE Gardenlet
  <2>1. CASE ChangeShoot \/ Resync \/ FlowFails
    BY <2>1 DEF ChangeShoot, Resync, FlowFails, SyncCluster, Store
  <2>2. CASE Flow
    BY <2>2 DEF Flow, DeployControlPlane, Deploy, DeployWorker, Hibernate
  <2>3. CASE MoveSeed
    BY <2>3 DEF MoveSeed
  <2>. QED BY <1>5, <2>1, <2>2, <2>3 DEF Gardenlet
<1>6. CASE Environment
  BY <1>6 DEF Environment, CreateMachine, JoinMachine, DeleteMachine, CreateClass, Environmental
<1>7. CASE UNCHANGED vars
  BY <1>7 DEF vars
<1>. QED BY <1>1, <1>2, <1>3, <1>4, <1>5, <1>6, <1>7 DEF Next

\* However old the copy is the controller decides on, a migration is never
\* completed while the stored Cluster is hibernated or of another version:
\* the optimistic lock of the final Update covers every check before it.
THEOREM CompletedAwake == Spec => MigratesAwake
<1>1. Init => TypeOK /\ CopyInv
  BY InitTypeOK DEF Init, CopyInv, MigrationSteps
<1>2. TypeOK /\ CopyInv /\ [Next]_vars => TypeOK' /\ CopyInv'
  BY NextTypeOK, NextCopyInv
<1>3. TypeOK /\ CopyInv /\ [Next]_vars
        => [pc = "needsComplete" /\ cluster'.needsComplete /\ ~cluster.needsComplete
              => ~cluster.hibernated /\ cluster.version = csiMigrationVersion]_vars
  <2> SUFFICES ASSUME TypeOK, CopyInv, [Next]_vars, pc = "needsComplete",
                      cluster'.needsComplete, ~cluster.needsComplete
               PROVE  ~cluster.hibernated /\ cluster.version = csiMigrationVersion
    OBVIOUS
  <2>. USE DEF cacheVars, ctrlVars, seedVars, shootVars
  <2>1. cluster' # cluster
    OBVIOUS
  <2>2. CASE MarkNeedsComplete
    BY <2>1, <2>2 DEF MarkNeedsComplete, Update, CopyInv, MigrationSteps, Requeue
  <2>3. CASE Gardenlet
    <3>1. CASE ChangeShoot \/ Resync \/ FlowFails \/ MoveSeed
      <4>1. cluster'.needsComplete \in {cluster.needsComplete, FALSE}
        BY <3>1 DEF ChangeShoot, Resync, FlowFails, MoveSeed, SyncCluster, Store, TypeOK, Clusters
      <4>. QED BY <4>1
    <3>2. CASE Flow
      BY <2>1, <3>2 DEF Flow, DeployControlPlane, Deploy, DeployWorker, Hibernate
    <3>. QED BY <2>3, <3>1, <3>2 DEF Gardenlet
  <2>4. CASE Observe \/ CallFails \/ Crash \/ Environment
    BY <2>1, <2>4
       DEF Observe, CallFails, Crash, Environment, CreateMachine, JoinMachine, DeleteMachine,
           CreateClass, Environmental
  <2>5. CASE Controller /\ ~MarkNeedsComplete
    BY <2>1, <2>5
       DEF Controller, Dispatch, CheckControlPlane, MarkNew, CheckNodes, ListClasses, DeleteClass,
           PatchDeployment, MarkFinished
  <2>6. CASE UNCHANGED vars
    BY <2>1, <2>6 DEF vars
  <2>. QED BY <2>2, <2>3, <2>4, <2>5, <2>6 DEF Next
<1>. QED BY <1>1, <1>2, <1>3, PTL DEF Spec, MigratesAwake

----------------------------------------------------------------------------
(* PatchLeavesOnlyChecksums.  A deployment was last mutated for a version  *)
(* and an annotation the cache has moved on from, never back; mutating it  *)
(* for a later one gives what a new deployment would get, and leaves only  *)
(* checksums.                                                              *)

\* These pieces are those of a new deployment and checksums of earlier ones.
LeftOver(p, new) == new \subseteq p /\ p \ new \subseteq Checksums

MutatedFor(d, p, v, n) == \E s \in BOOLEAN : LeftOver(p, Ensure(d, {}, v, n, s))

PiecesInv ==
    /\ seen.version <= cluster.version
    /\ seen.needsComplete => cluster.needsComplete
    /\ \A d \in deployed :
          \E v \in Versions, n \in BOOLEAN :
             v <= seen.version /\ (n => seen.needsComplete) /\ MutatedFor(d, pieces[d], v, n)

LEMMA CompletionIsMonotone ==
  ASSUME NEW v \in Versions, NEW w \in Versions, NEW n \in BOOLEAN, NEW o \in BOOLEAN,
         v <= w, n => o
  PROVE  /\ UseCSI(v) => UseCSI(w)
         /\ MigrationComplete(v, n) => MigrationComplete(w, o)
BY DEF Versions, UseCSI, MigrationComplete, csiMigrationVersion

LEMMA EnsureAgain ==
  ASSUME NEW d \in Deployments, NEW p,
         NEW v \in Versions, NEW w \in Versions, NEW n \in BOOLEAN, NEW o \in BOOLEAN,
         NEW s \in BOOLEAN, v <= w, n => o, MutatedFor(d, p, v, n)
  PROVE  LeftOver(Ensure(d, p, w, o, s), Ensure(d, {}, w, o, s))
<1> DEFINE before == MigrationComplete(v, n)
           after  == MigrationComplete(w, o)
<1>1. /\ (UseCSI(v) => UseCSI(w)) /\ (before => after)
      /\ mustMountEtcSSLFolder(v) => mustMountEtcSSLFolder(w)
  <2>1. mustMountEtcSSLFolder(v) => mustMountEtcSSLFolder(w)
    BY DEF mustMountEtcSSLFolder, etcSSLVersion, Versions
  <2>. QED BY <2>1, CompletionIsMonotone
<1>2. PICK r \in BOOLEAN : LeftOver(p, Ensure(d, {}, v, n, r))
  BY DEF MutatedFor
<1>. USE DEF Gates, CompleteGates, CloudArgs, Volumes, Checksums, EnsureGates, LeftOver,
             EnsureVolumes, EnsureChecksumAnnotations
<1>3. CASE d = "kube-apiserver"
  <2>1. LeftOver(p, EnsureKubeAPIServer({}, v, before, r))
    BY <1>2, <1>3 DEF Ensure
  <2>2. LeftOver(EnsureKubeAPIServer(p, w, after, s), EnsureKubeAPIServer({}, w, after, s))
    <3>1. CASE after
      BY <1>1, <2>1, <3>1 DEF EnsureKubeAPIServer
    <3>2. CASE ~after
      BY <1>1, <2>1, <3>2 DEF EnsureKubeAPIServer
    <3>. QED BY <3>1, <3>2
  <2>. QED BY <1>3, <2>2 DEF Ensure
<1>4. CASE d = "kube-controller-manager"
  <2>1. LeftOver(p, EnsureKubeControllerManager({}, v, before, r))
    BY <1>2, <1>4 DEF Ensure
  <2>2. LeftOver(EnsureKubeControllerManager(p, w, after, s),
                 EnsureKubeControllerManager({}, w, after, s))
    <3>1. CASE after
      BY <1>1, <2>1, <3>1 DEF EnsureKubeControllerManager
    <3>2. CASE ~after
      BY <1>1, <2>1, <3>2 DEF EnsureKubeControllerManager
    <3>. QED BY <3>1, <3>2
  <2>. QED BY <1>4, <2>2 DEF Ensure
<1>5. CASE d = "kube-scheduler"
  BY <1>1, <1>2, <1>5 DEF Ensure, EnsureKubeScheduler
<1>. QED BY <1>3, <1>4, <1>5 DEF Deployments

\* A mutation of the deployment d, of nothing or of what it contains.
LEMMA MutationKeepsPieces ==
  ASSUME TypeOK, PiecesInv, NEW d \in Deployments, NEW old \in {{}, pieces[d]},
         d \in deployed \/ old = {},
         pieces' = Mutated(d, old), deployed' \subseteq deployed \cup {d},
         UNCHANGED <<cluster, seen>>
  PROVE  PiecesInv'
<1>1. seen.version \in Versions /\ seen.needsComplete \in BOOLEAN /\ secret \in BOOLEAN
  BY DEF TypeOK, Clusters
<1>2. pieces'[d] = Ensure(d, old, seen.version, seen.needsComplete, secret)
  BY DEF Mutated, TypeOK
<1>3. MutatedFor(d, pieces'[d], seen.version, seen.needsComplete)
  <2>1. CASE old = {}
    BY <1>1, <1>2, <2>1 DEF MutatedFor, LeftOver
  <2>2. CASE d \in deployed /\ old = pieces[d]
    <3>1. PICK v \in Versions, n \in BOOLEAN :
             v <= seen.version /\ (n => seen.needsComplete) /\ MutatedFor(d, pieces[d], v, n)
      BY <2>2 DEF PiecesInv
    <3>2. LeftOver(pieces'[d], Ensure(d, {}, seen.version, seen.needsComplete, secret))
      BY <1>1, <1>2, <2>2, <3>1, EnsureAgain
    <3>. QED BY <1>1, <3>2 DEF MutatedFor
  <2>. QED BY <2>1, <2>2
<1>4. ASSUME NEW e \in deployed'
      PROVE  \E v \in Versions, n \in BOOLEAN :
                v <= seen'.version /\ (n => seen'.needsComplete) /\ MutatedFor(e, pieces'[e], v, n)
  <2>1. CASE e = d
    <3>1. seen.version <= seen'.version /\ (seen.needsComplete => seen'.needsComplete)
      BY <1>1 DEF Versions
    <3>. QED BY <1>1, <1>3, <2>1, <3>1
  <2>2. CASE e # d
    <3>1. e \in deployed /\ pieces'[e] = pieces[e]
      BY <2>2 DEF Mutated, TypeOK
    <3>. QED BY <3>1 DEF PiecesInv
  <2>. QED BY <2>1, <2>2
<1>. QED BY <1>4 DEF PiecesInv

\* A step that leaves the deployments alone while the two Clusters grow.
LEMMA GrowthKeepsPieces ==
  ASSUME TypeOK, TypeOK', PiecesInv,
         deployed' = deployed, pieces' = pieces,
         seen.version <= seen'.version, seen.needsComplete => seen'.needsComplete,
         seen'.version <= cluster'.version, seen'.needsComplete => cluster'.needsComplete
  PROVE  PiecesInv'
<1> SUFFICES ASSUME NEW d \in deployed
             PROVE  \E v \in Versions, n \in BOOLEAN :
                       v <= seen'.version /\ (n => seen'.needsComplete) /\ MutatedFor(d, pieces[d], v, n)
  BY DEF PiecesInv
<1>1. PICK v \in Versions, n \in BOOLEAN :
         v <= seen.version /\ (n => seen.needsComplete) /\ MutatedFor(d, pieces[d], v, n)
  BY DEF PiecesInv
<1>2. v <= seen'.version
  BY <1>1 DEF TypeOK, Clusters, Versions
<1>. QED BY <1>1, <1>2

LEMMA NextPiecesInv ==
  TypeOK /\ TypeOK' /\ CopyInv /\ PiecesInv /\ [Next]_vars => PiecesInv'
<1> SUFFICES ASSUME TypeOK, TypeOK', CopyInv, PiecesInv, [Next]_vars PROVE PiecesInv'
  OBVIOUS
<1>. USE DEF cacheVars, ctrlVars, seedVars, shootVars
<1>1. /\ seen.version <= cluster.version /\ (seen.needsComplete => cluster.needsComplete)
      /\ seen.version \in Int /\ cluster.version \in Int
  BY DEF PiecesInv, TypeOK, Clusters, Versions
<1>2. ASSUME UNCHANGED <<deployed, pieces>>,
             \/ UNCHANGED seen
             \/ seen' = cluster,
             cluster.version <= cluster'.version,
             cluster.needsComplete => cluster'.needsComplete
      PROVE  PiecesInv'
  <2>1. cluster'.version \in Int
    BY DEF TypeOK, Clusters, Versions
  <2>. QED BY <1>1, <1>2, <2>1, GrowthKeepsPieces
<1>3. CASE Observe \/ CallFails \/ Crash
  BY <1>1, <1>2, <1>3 DEF Observe, CallFails, Crash
<1>4. CASE Controller
  <2>1. CASE Dispatch \/ CheckControlPlane \/ CheckNodes \/ ListClasses \/ DeleteClass
    BY <1>1, <1>2, <2>1
       DEF Dispatch, CheckControlPlane, CheckNodes, ListClasses, DeleteClass, Unchanging
  <2>2. CASE MarkNew \/ MarkNeedsComplete \/ MarkFinished
    <3>1. /\ UNCHANGED <<deployed, pieces, seen>>
          /\ \/ cluster' = cluster
             \/ cluster' = [cluster EXCEPT !.needsComplete = TRUE, !.finished = TRUE]
             \/ cluster' = [cluster EXCEPT !.needsComplete = TRUE]
             \/ cluster' = [cluster EXCEPT !.finished = TRUE]
      BY <2>2 DEF MarkNew, MarkNeedsComplete, MarkFinished, Update, Store, CopyInv
    <3>2. cluster'.version = cluster.version /\ (cluster.needsComplete => cluster'.needsComplete)
      BY <3>1 DEF TypeOK, Clusters
    <3>. QED BY <1>1, <1>2, <3>1, <3>2
  <2>3. CASE PatchDeployment
    <3>1. CASE NextToPatch \in deployed
      <4>1. NextToPatch \in Deployments
        BY DEF NextToPatch, Deployments
      <4>2. /\ pieces' = Mutated(NextToPatch, pieces[NextToPatch])
            /\ UNCHANGED <<deployed, cluster, seen>>
        BY <2>3, <3>1 DEF PatchDeployment
      <4>. QED BY <3>1, <4>1, <4>2, MutationKeepsPieces
    <3>2. CASE NextToPatch \notin deployed
      BY <1>1, <1>2, <2>3, <3>2 DEF PatchDeployment
    <3>. QED BY <3>1, <3>2
  <2>. QED BY <1>4, <2>1, <2>2, <2>3 DEF Controller
<1>5. CASE Gardenlet
  <2>1. CASE ChangeShoot
    <3>1. PICK v \in Versions, h \in BOOLEAN :
             /\ v \in {cluster.version, cluster.version + 1}
             /\ SyncCluster([cluster EXCEPT !.version = v, !.hibernated = h, !.halted = FALSE])
      BY <2>1 DEF ChangeShoot
    <3>2. cluster'.version = v /\ cluster'.needsComplete = cluster.needsComplete /\ UNCHANGED seen
      BY <3>1 DEF SyncCluster, Store, TypeOK, Clusters
    <3>3. cluster.version <= v
      BY <1>1, <3>1
    <3>. QED BY <1>2, <2>1, <3>2, <3>3 DEF ChangeShoot
  <2>2. CASE Resync \/ FlowFails
    <3>1. /\ cluster'.version = cluster.version /\ cluster'.needsComplete = cluster.needsComplete
          /\ UNCHANGED <<seen, deployed, pieces>>
      BY <2>2 DEF Resync, FlowFails, SyncCluster, Store, TypeOK, Clusters
    <3>. QED BY <1>1, <1>2, <3>1
  <2>3. CASE DeployControlPlane \/ DeployWorker \/ Hibernate
    BY <1>1, <1>2, <2>3 DEF DeployControlPlane, DeployWorker, Hibernate
  <2>4. ASSUME NEW d \in Deployments, Deploy(d)
        PROVE  PiecesInv'
    BY <2>4, MutationKeepsPieces DEF Deploy
  <2>5. CASE MoveSeed
    <3>1. deployed' = {} /\ seen' = cluster' /\ cluster'.version \in Int
      BY <2>5 DEF MoveSeed, TypeOK, Clusters, Versions
    <3>. QED BY <3>1 DEF PiecesInv
  <2>. QED BY <1>5, <2>1, <2>2, <2>3, <2>4, <2>5 DEF Gardenlet, Flow
<1>6. CASE Environment
  BY <1>1, <1>2, <1>6
     DEF Environment, CreateMachine, JoinMachine, DeleteMachine, CreateClass, Environmental
<1>7. CASE UNCHANGED vars
  BY <1>1, <1>2, <1>7 DEF vars
<1>. QED BY <1>3, <1>4, <1>5, <1>6, <1>7 DEF Next

LEMMA InitPiecesInv == Init => PiecesInv
<1> SUFFICES ASSUME NEW start \in Starts, StartOf(start), Init
             PROVE  PiecesInv
  BY DEF Init
<1>1. TypeOK /\ seen = cluster
  BY InitTypeOK DEF Init
<1>2. cluster.version \in Versions /\ cluster.version <= cluster.version
  BY <1>1 DEF TypeOK, Clusters, Versions
<1>3. ASSUME NEW d \in deployed
      PROVE  MutatedFor(d, pieces[d], cluster.version, FALSE)
  <2>1. start # "new" /\ d \in Deployments /\ secret \in BOOLEAN
    BY DEF StartOf
  <2>2. pieces = [e \in Deployments |-> Ensure(e, {}, cluster.version, FALSE, secret)]
    BY <2>1 DEF StartOf
  <2>. QED BY <2>1, <2>2 DEF MutatedFor, LeftOver
<1>. QED BY <1>1, <1>2, <1>3 DEF PiecesInv

\* Whatever order patches, deployments, events and crashes come in, every
\* deployment is what deploying it anew for some stage of the migration
\* gives, up to checksums of a configuration: the webhook's removals undo all
\* of its other additions.
THEOREM PatchesEqualDeployments == Spec => []PatchLeavesOnlyChecksums
<1>1. Init => TypeOK /\ CopyInv /\ PiecesInv
  BY InitTypeOK, InitPiecesInv DEF Init, CopyInv, MigrationSteps
<1>2. TypeOK /\ CopyInv /\ PiecesInv /\ [Next]_vars => TypeOK' /\ CopyInv' /\ PiecesInv'
  BY NextTypeOK, NextCopyInv, NextPiecesInv
<1>3. PiecesInv => PatchLeavesOnlyChecksums
  BY DEF PiecesInv, PatchLeavesOnlyChecksums, MutatedFor, LeftOver
<1>. QED BY <1>1, <1>2, <1>3, PTL DEF Spec

----------------------------------------------------------------------------
(* What the migration relies on and what its completion means: new         *)
(* kubelets find a control plane that knows CSI, and a completed migration *)
(* has left nothing of the in-tree provider.                               *)

Gated(d) == Gates \subseteq pieces[d]

\* What the flow has deployed since it stored the specification has the gates.
FlowGated ==
    /\ flow \in {"kube-controller-manager", "kube-scheduler", "workers"} => Gated("kube-apiserver")
    /\ flow \in {"kube-scheduler", "workers"} => Gated("kube-controller-manager")
    /\ flow = "workers" => Gated("kube-scheduler")

\* Kubelets are new only after that, and stay so, since versions only grow.
UsesNewKubelets == worker.kubelet = "new" \/ \E m \in Machines : machines[m] = "new"
KubeletInv ==
    /\ UseCSI(cluster.version) => FlowGated
    /\ UsesNewKubelets => UseCSI(cluster.version) /\ \A d \in deployed : Gated(d)

NoOld == \A m \in Machines : machines[m] # "old"
Empty == worker.asleep /\ \A m \in Machines : machines[m] = "none"
NoneLegacy == \A c \in Classes : classes[c] # "legacy"

\* A shoot without an API server sleeps and has no machines.
SleepInv ==
    /\ ~apiUp => Empty
    /\ flow = "sleep" => worker.asleep
    /\ flow \in {"kube-controller-manager", "kube-scheduler", "workers"} /\ ~cluster.hibernated => apiUp

\* At the minimum version, a shoot with old kubelets sleeps or has an old
\* node, which goes only when there is a new one; the storage classes have
\* changed before kubelets do, and before the API server wakes up.
UpgradeInv ==
    /\ (\E m \in Machines : machines[m] = "new") => worker.kubelet = "new"
    /\ UseCSI(cluster.version) /\ worker.kubelet = "old"
          => Empty \/ (~worker.asleep /\ \E m \in Machines : machines[m] = "old")
    /\ UseCSI(cluster.version) /\ flow \notin {"idle", "controlPlane", "sleep"} => wanted # "legacy"
    /\ UseCSI(cluster.version) /\ (worker.kubelet = "new" \/ (worker.asleep /\ apiUp)) => wanted # "legacy"

\* No old node is left, and none will come.
Rolled == UseCSI(cluster.version) /\ NoOld /\ wanted # "legacy"

\* What the controller has seen at each place, and what the Cluster tells.
CompletionInv ==
    /\ copy.version <= cluster.version
    /\ pc \in {"classes", "delete", "needsComplete"} => Rolled
    /\ pc = "delete" => \A c \in Classes : classes[c] = "legacy" => c \in legacy
    /\ pc = "needsComplete" => NoneLegacy
    /\ pc = "markNew" \/ ~controlPlane => Rolled /\ NoneLegacy
    /\ pc \in {"patch", "finish"} => cluster.needsComplete
    /\ cluster.needsComplete \/ cluster.finished => Rolled /\ NoneLegacy
    /\ cluster.version > csiMigrationVersion => Rolled

\* The gardenlet as it should be: nodes of the old kind are gone for good once
\* the last of them is, the version is raised again only after the migration,
\* and the shoot stays in its seed.
QuietEnvironment == ~Stragglers /\ ~LeavesEarly /\ ~SeedMoves

----------------------------------------------------------------------------
(* What the steps do.                                                      *)

LEMMA VersionNumbers ==
  ASSUME NEW v \in Versions
  PROVE  /\ v \in {-1, 0, 1, 2} /\ csiMigrationVersion = 1
         /\ UseCSI(v) <=> v \in {1, 2}
BY DEF csiMigrationVersion, UseCSI, Versions

LEMMA TypesOfClusters ==
  ASSUME TypeOK
  PROVE  /\ cluster.version \in Versions /\ seen.version \in Versions /\ copy.version \in Versions
         /\ cluster.hibernated \in BOOLEAN
         /\ worker.kubelet \in {"old", "new"} /\ worker.asleep \in BOOLEAN
         /\ worker = [kubelet |-> worker.kubelet, asleep |-> worker.asleep]
BY DEF TypeOK, Clusters, Workers

\* An Update of the copy keeps the stored specification.
LEMMA UpdateKeepsSpecification ==
  ASSUME TypeOK, CopyInv, MarkNew \/ MarkNeedsComplete \/ MarkFinished
  PROVE  /\ cluster'.version = cluster.version /\ cluster'.hibernated = cluster.hibernated
         /\ copy'.version = copy.version
         /\ cluster.needsComplete => cluster'.needsComplete
         /\ cluster.finished => cluster'.finished
         /\ MarkFinished => cluster'.needsComplete = cluster.needsComplete
         /\ MarkNeedsComplete => cluster'.finished = cluster.finished
         /\ MarkNeedsComplete /\ pc' = "patch" => cluster'.needsComplete
         /\ pc' \in {"idle", "patch"} /\ (pc' = "patch" => MarkNeedsComplete)
         /\ UNCHANGED <<seen, legacy, patched, seedVars, shootVars>>
<1>1. cluster \in Clusters /\ (fresh => copy = cluster)
  BY DEF TypeOK, CopyInv
<1>2. ASSUME NEW c, NEW step, Update(c, step)
      PROVE  \/ fresh /\ cluster' = c /\ copy' = c /\ pc' = step /\ UNCHANGED seen
             \/ ~fresh /\ pc' = "idle" /\ UNCHANGED <<cluster, copy, seen>>
  BY <1>2 DEF Update, Store, Goto, Requeue, cacheVars
<1>3. \A c : c = [cluster EXCEPT !.needsComplete = TRUE, !.finished = TRUE] =>
          /\ c.version = cluster.version /\ c.hibernated = cluster.hibernated
          /\ c.needsComplete /\ c.finished
  BY <1>1 DEF Clusters
<1>4. \A c : c = [cluster EXCEPT !.needsComplete = TRUE] =>
          /\ c.version = cluster.version /\ c.hibernated = cluster.hibernated
          /\ c.needsComplete /\ c.finished = cluster.finished
  BY <1>1 DEF Clusters
<1>5. \A c : c = [cluster EXCEPT !.finished = TRUE] =>
          /\ c.version = cluster.version /\ c.hibernated = cluster.hibernated
          /\ c.needsComplete = cluster.needsComplete /\ c.finished
  BY <1>1 DEF Clusters
<1>6. CASE MarkNew
  <2>1. Update([copy EXCEPT !.needsComplete = TRUE, !.finished = TRUE], "idle")
        /\ UNCHANGED <<legacy, patched, seedVars, shootVars>> /\ pc = "markNew"
    BY <1>6 DEF MarkNew
  <2>. QED BY <1>1, <1>2, <1>3, <2>1 DEF MarkNeedsComplete, MarkFinished
<1>7. CASE MarkNeedsComplete
  <2>1. Update([copy EXCEPT !.needsComplete = TRUE], "patch")
        /\ UNCHANGED <<legacy, patched, seedVars, shootVars>> /\ pc = "needsComplete"
    BY <1>7 DEF MarkNeedsComplete
  <2>. QED BY <1>1, <1>2, <1>4, <1>7, <2>1 DEF MarkFinished
<1>8. CASE MarkFinished
  <2>1. Update([copy EXCEPT !.finished = TRUE], "idle")
        /\ UNCHANGED <<legacy, patched, seedVars, shootVars>> /\ pc = "finish"
    BY <1>8 DEF MarkFinished
  <2>. QED BY <1>1, <1>2, <1>5, <1>8, <2>1 DEF MarkNeedsComplete
<1>. QED BY <1>6, <1>7, <1>8

\* The other steps of the controller, failures and the cache.
Looks == Dispatch \/ CheckControlPlane \/ CheckNodes \/ ListClasses \/ DeleteClass \/ Observe \/ CallFails \/ Crash

LEMMA LooksKeep ==
  ASSUME Looks
  PROVE  UNCHANGED <<cluster, seedVars, apiUp, worker, machines>>
BY DEF Looks, Dispatch, CheckControlPlane, CheckNodes, ListClasses, DeleteClass, Observe, CallFails, Crash,
       Unchanging, seedVars, shootVars

\* The gardenlet stores a specification or reports that its flow has failed.
LEMMA RequestsKeep ==
  ASSUME TypeOK, ChangeShoot \/ Resync \/ FlowFails
  PROVE  /\ flow' \in {"idle", "controlPlane"}
         /\ cluster'.needsComplete = cluster.needsComplete /\ cluster'.finished = cluster.finished
         /\ cluster'.version \in {cluster.version, cluster.version + 1}
         /\ cluster'.version # cluster.version =>
               /\ cluster'.version = 1 => Stragglers \/ QuietUpgrade
               /\ cluster'.version = 2 => LeavesEarly \/ cluster.finished
         /\ UNCHANGED <<pc, copy, legacy, patched, controlPlane, wanted, deployed, pieces, shootVars>>
<1>1. cluster \in Clusters
  BY DEF TypeOK
<1>2. CASE ChangeShoot
  <2>1. PICK v \in Versions, h \in BOOLEAN :
           /\ v \in {cluster.version, cluster.version + 1}
           /\ v = csiMigrationVersion /\ v # cluster.version => Stragglers \/ QuietUpgrade
           /\ v > csiMigrationVersion /\ v # cluster.version => LeavesEarly \/ cluster.finished
           /\ SyncCluster([cluster EXCEPT !.version = v, !.hibernated = h, !.halted = FALSE])
    BY <1>2 DEF ChangeShoot
  <2>2. cluster' = [cluster EXCEPT !.version = v, !.hibernated = h, !.halted = FALSE] /\ flow' = "controlPlane"
    BY <2>1 DEF SyncCluster, Store
  <2>3. cluster'.version = v /\ cluster'.needsComplete = cluster.needsComplete /\ cluster'.finished = cluster.finished
    BY <1>1, <2>2 DEF Clusters
  <2>4. UNCHANGED <<pc, copy, legacy, patched, controlPlane, wanted, deployed, pieces, shootVars>>
    BY <1>2 DEF ChangeShoot
  <2>. QED BY <2>1, <2>2, <2>3, <2>4, VersionNumbers
<1>3. CASE Resync \/ FlowFails
  <2>1. cluster' = [cluster EXCEPT !.halted = FALSE] \/ cluster' = [cluster EXCEPT !.halted = TRUE]
    BY <1>3 DEF Resync, FlowFails, SyncCluster, Store
  <2>2. /\ cluster'.version = cluster.version
        /\ cluster'.needsComplete = cluster.needsComplete /\ cluster'.finished = cluster.finished
    BY <1>1, <2>1 DEF Clusters
  <2>. QED BY <1>3, <2>2 DEF Resync, FlowFails, SyncCluster
<1>. QED BY <1>2, <1>3

LEMMA EnsureGated ==
  ASSUME NEW d \in Deployments, NEW old \in SUBSET Pieces, NEW v \in Versions, NEW n \in BOOLEAN,
         NEW s \in BOOLEAN, UseCSI(v) \/ Gates \subseteq old
  PROVE  Gates \subseteq Ensure(d, old, v, n, s)
<1> DEFINE complete == MigrationComplete(v, n)
<1>. USE DEF Gates, CompleteGates, CloudArgs, Volumes, EnsureVolumes, EnsureChecksumAnnotations
<1>1. Gates \subseteq EnsureGates(old, v, complete)
  BY DEF EnsureGates
<1>2. Gates \subseteq EnsureKubeAPIServer(old, v, complete, s)
  BY <1>1 DEF EnsureKubeAPIServer
<1>3. Gates \subseteq EnsureKubeControllerManager(old, v, complete, s)
  BY <1>1 DEF EnsureKubeControllerManager
<1>4. Gates \subseteq EnsureKubeScheduler(old, v, complete)
  BY <1>1 DEF EnsureKubeScheduler
<1>5. CASE d = "kube-apiserver"
  BY <1>2, <1>5 DEF Ensure
<1>6. CASE d = "kube-controller-manager"
  BY <1>3, <1>6 DEF Ensure
<1>7. CASE d = "kube-scheduler"
  BY <1>4, <1>7 DEF Ensure
<1>. QED BY <1>5, <1>6, <1>7 DEF Deployments

LEMMA MutationGates ==
  ASSUME TypeOK, NEW d \in Deployments, NEW old \in {{}, pieces[d]}, pieces' = Mutated(d, old)
  PROVE  /\ UseCSI(seen.version) \/ (Gated(d) /\ old = pieces[d]) => Gated(d)'
         /\ \A e \in Deployments \ {d} : Gated(e)' <=> Gated(e)
<1>1. /\ seen.version \in Versions /\ seen.needsComplete \in BOOLEAN /\ secret \in BOOLEAN
      /\ old \in SUBSET Pieces
  BY DEF TypeOK, Clusters
<1>2. pieces' = [pieces EXCEPT ![d] = Ensure(d, old, seen.version, seen.needsComplete, secret)]
  BY DEF Mutated
<1>3. pieces'[d] = Ensure(d, old, seen.version, seen.needsComplete, secret)
      /\ \A e \in Deployments \ {d} : pieces'[e] = pieces[e]
  BY <1>2 DEF TypeOK
<1>. QED BY <1>1, <1>3, EnsureGated DEF Gated

----------------------------------------------------------------------------
(* NewKubeletsNeedCSI, whatever the gardenlet, nodes and caches do.        *)

\* Steps that leave deployments and kubelets alone.
LEMMA KubeletsKept ==
  ASSUME KubeletInv,
         UNCHANGED <<deployed, pieces, worker>>,
         \A m \in Machines : machines'[m] = "new" => UsesNewKubelets,
         UseCSI(cluster.version) => UseCSI(cluster.version)',
         \/ UNCHANGED <<flow, cluster.version>>
         \/ flow' \in {"idle", "controlPlane", "kube-apiserver"}
  PROVE  KubeletInv'
<1>1. UsesNewKubelets' => UsesNewKubelets
  BY DEF UsesNewKubelets
<1>2. \A d : Gated(d)' <=> Gated(d)
  BY DEF Gated
<1>3. FlowGated /\ UNCHANGED flow => FlowGated'
  BY <1>2 DEF FlowGated
<1>4. flow' \in {"idle", "controlPlane", "kube-apiserver"} => FlowGated'
  BY DEF FlowGated
<1>. QED BY <1>1, <1>2, <1>3, <1>4 DEF KubeletInv

LEMMA NextKubeletInv == TypeOK /\ CopyInv /\ KubeletInv /\ [Next]_vars => KubeletInv'
<1> SUFFICES ASSUME TypeOK, CopyInv, KubeletInv, [Next]_vars PROVE KubeletInv'
  OBVIOUS
<1>. USE DEF cacheVars, ctrlVars, seedVars, shootVars
<1>0. UNCHANGED machines => \A m \in Machines : machines'[m] = "new" => UsesNewKubelets
  BY DEF UsesNewKubelets
<1>1. CASE Looks \/ MarkNew \/ MarkNeedsComplete \/ MarkFinished
  <2>1. UNCHANGED <<cluster.version, deployed, pieces, flow, worker, machines>>
    BY <1>1, LooksKeep, UpdateKeepsSpecification
  <2>. QED BY <1>0, <2>1, KubeletsKept
<1>2. CASE PatchDeployment
  <2>1. CASE UNCHANGED pieces
    BY <1>0, <1>2, <2>1, KubeletsKept DEF PatchDeployment
  <2>2. CASE pieces' # pieces
    <3>1. NextToPatch \in Deployments
      BY DEF NextToPatch, Deployments
    <3>2. /\ pieces' = Mutated(NextToPatch, pieces[NextToPatch])
          /\ UNCHANGED <<cluster, deployed, flow, worker, machines>>
      BY <1>2, <2>2 DEF PatchDeployment
    <3>3. \A d \in Deployments : Gated(d) => Gated(d)'
      BY <3>1, <3>2, MutationGates
    <3>4. UsesNewKubelets' <=> UsesNewKubelets
      BY <3>2 DEF UsesNewKubelets
    <3>5. FlowGated => FlowGated'
      BY <3>2, <3>3 DEF FlowGated, Deployments
    <3>. QED BY <3>2, <3>3, <3>4, <3>5 DEF KubeletInv, TypeOK
  <2>. QED BY <2>1, <2>2
<1>3. CASE ChangeShoot \/ Resync \/ FlowFails
  <2>1. cluster.version \in Versions /\ cluster'.version \in {cluster.version, cluster.version + 1}
    BY <1>3, RequestsKeep, TypesOfClusters
  <2>2. UseCSI(cluster.version) => UseCSI(cluster'.version)
    BY <2>1 DEF UseCSI, csiMigrationVersion, Versions
  <2>. QED BY <1>0, <1>3, <2>2, RequestsKeep, KubeletsKept
<1>4. CASE DeployControlPlane
  BY <1>0, <1>4, KubeletsKept DEF DeployControlPlane
<1>5. ASSUME NEW d \in Deployments, Deploy(d)
      PROVE  KubeletInv'
  <2>1. /\ flow = d /\ seen.version = cluster.version
        /\ deployed' = deployed \cup {d} /\ pieces' = Mutated(d, {}) /\ flow' = NextFlowStep(d)
        /\ UNCHANGED <<cluster, worker, machines>>
    BY <1>5 DEF Deploy, SpecificationSeen
  <2>2. /\ UseCSI(cluster.version) => Gated(d)'
        /\ \A e \in Deployments \ {d} : Gated(e)' <=> Gated(e)
    BY <2>1, MutationGates
  <2>3. UsesNewKubelets' <=> UsesNewKubelets
    BY <2>1 DEF UsesNewKubelets
  <2>4. UseCSI(cluster.version) => FlowGated'
    BY <2>1, <2>2 DEF KubeletInv, FlowGated, NextFlowStep, Deployments
  <2>. QED BY <2>1, <2>2, <2>3, <2>4 DEF KubeletInv, TypeOK
<1>6. CASE DeployWorker
  <2>1. /\ flow = "workers" /\ seen.version = cluster.version
        /\ worker'.kubelet = EnsureKubelet(seen.version) /\ flow' \in {"sleep", "idle"}
        /\ UNCHANGED <<cluster, deployed, pieces, machines>>
    BY <1>6 DEF DeployWorker, SpecificationSeen
  <2>2. UsesNewKubelets' => UseCSI(cluster.version)
    BY <2>1 DEF UsesNewKubelets, EnsureKubelet, KubeletInv
  <2>3. UseCSI(cluster.version) => \A d \in Deployments : Gated(d)
    BY <2>1 DEF KubeletInv, FlowGated, Deployments
  <2>4. FlowGated' /\ \A d : Gated(d)' <=> Gated(d)
    BY <2>1 DEF FlowGated, Gated
  <2>. QED BY <2>1, <2>2, <2>3, <2>4 DEF KubeletInv, TypeOK
<1>7. CASE Hibernate
  BY <1>0, <1>7, KubeletsKept DEF Hibernate
<1>8. CASE MoveSeed
  <2>1. cluster'.version = cluster.version
    BY <1>8 DEF MoveSeed, TypeOK, Clusters
  <2>2. FlowGated' /\ deployed' = {}
    BY <1>8 DEF MoveSeed, FlowGated
  <2>3. UsesNewKubelets' <=> UsesNewKubelets
    BY <1>8 DEF MoveSeed, UsesNewKubelets
  <2>. QED BY <2>1, <2>2, <2>3 DEF KubeletInv
<1>9. CASE Environment
  <2>1. ASSUME NEW m \in Machines, CreateMachine(m) \/ JoinMachine(m) \/ DeleteMachine(m)
        PROVE  KubeletInv'
    <3>1. \A k \in Machines : machines'[k] = "new" => UsesNewKubelets
      BY <2>1 DEF CreateMachine, JoinMachine, DeleteMachine, UsesNewKubelets, TypeOK
    <3>. QED BY <2>1, <3>1, KubeletsKept DEF CreateMachine, JoinMachine, DeleteMachine, Environmental
  <2>2. ASSUME NEW c \in Classes, CreateClass(c)
        PROVE  KubeletInv'
    BY <1>0, <2>2, KubeletsKept DEF CreateClass, Environmental
  <2>. QED BY <1>9, <2>1, <2>2 DEF Environment
<1>10. CASE UNCHANGED vars
  BY <1>0, <1>10, KubeletsKept DEF vars
<1>. QED BY <1>1, <1>2, <1>3, <1>4, <1>5, <1>6, <1>7, <1>8, <1>9, <1>10
     DEF Next, Controller, Gardenlet, Flow, Looks

LEMMA InitKubeletInv == Init => KubeletInv
<1> SUFFICES ASSUME NEW start \in Starts, StartOf(start) PROVE KubeletInv
  BY DEF Init
<1>1. FlowGated
  BY DEF StartOf, FlowGated
<1>2. ~UsesNewKubelets
  BY DEF StartOf, UsesNewKubelets
<1>. QED BY <1>1, <1>2 DEF KubeletInv

\* As soon as there is a kubelet that attaches volumes through CSI only, all
\* of the control plane that exists knows CSI, in every environment: on stale
\* caches, with stragglers, skipped versions, failures and on another seed.
THEOREM KubeletsFindCSI == Spec => []NewKubeletsNeedCSI
<1>1. Init => TypeOK /\ CopyInv /\ KubeletInv
  BY InitTypeOK, InitKubeletInv DEF Init, CopyInv, MigrationSteps
<1>2. TypeOK /\ CopyInv /\ KubeletInv /\ [Next]_vars => TypeOK' /\ CopyInv' /\ KubeletInv'
  BY NextTypeOK, NextCopyInv, NextKubeletInv
<1>3. KubeletInv => NewKubeletsNeedCSI
  BY DEF KubeletInv, UsesNewKubelets, NewKubeletsNeedCSI, Gated
<1>. QED BY <1>1, <1>2, <1>3, PTL DEF Spec

----------------------------------------------------------------------------
(* What the shoot and its flow know, in a quiet environment.               *)

LEMMA NextSleepInv ==
  ASSUME QuietEnvironment, TypeOK, CopyInv, SleepInv, [Next]_vars
  PROVE  SleepInv'
<1>. USE DEF cacheVars, ctrlVars, seedVars, shootVars
<1>1. UNCHANGED <<apiUp, flow, worker, machines, cluster.hibernated>> => SleepInv'
  BY DEF SleepInv, Empty
<1>2. CASE Looks \/ MarkNew \/ MarkNeedsComplete \/ MarkFinished
  BY <1>1, <1>2, LooksKeep, UpdateKeepsSpecification
<1>3. CASE PatchDeployment
  BY <1>1, <1>3 DEF PatchDeployment
<1>4. CASE ChangeShoot \/ Resync \/ FlowFails
  BY <1>4, RequestsKeep DEF SleepInv, Empty
<1>5. CASE DeployControlPlane
  BY <1>5 DEF DeployControlPlane, SleepInv, Empty
<1>6. ASSUME NEW d \in Deployments, Deploy(d)
      PROVE  SleepInv'
  BY <1>6 DEF Deploy, SleepInv, Empty, NextFlowStep, Deployments
<1>7. CASE DeployWorker
  BY <1>7 DEF DeployWorker, SleepInv, Empty
<1>8. CASE Hibernate
  BY <1>8 DEF Hibernate, SleepInv, Empty
<1>9. CASE Environment
  <2>1. ASSUME NEW m \in Machines, CreateMachine(m) \/ JoinMachine(m) \/ DeleteMachine(m)
        PROVE  SleepInv'
    BY <2>1 DEF CreateMachine, JoinMachine, DeleteMachine, Environmental, SleepInv, Empty
  <2>2. ASSUME NEW c \in Classes, CreateClass(c)
        PROVE  SleepInv'
    BY <1>1, <2>2 DEF CreateClass, Environmental
  <2>. QED BY <1>9, <2>1, <2>2 DEF Environment
<1>10. CASE UNCHANGED vars
  BY <1>1, <1>10 DEF vars
<1>11. ~MoveSeed
  BY DEF MoveSeed, QuietEnvironment
<1>. QED BY <1>2, <1>3, <1>4, <1>5, <1>6, <1>7, <1>8, <1>9, <1>10, <1>11
     DEF Next, Controller, Gardenlet, Flow, Looks

LEMMA NextUpgradeInv ==
  ASSUME QuietEnvironment, TypeOK, CopyInv, KubeletInv, SleepInv, UpgradeInv, [Next]_vars
  PROVE  UpgradeInv'
<1>. USE DEF cacheVars, ctrlVars, seedVars, shootVars
<1>1. UNCHANGED <<apiUp, flow, worker, machines, wanted, cluster.version>> => UpgradeInv'
  BY DEF UpgradeInv, Empty
<1>2. CASE Looks \/ MarkNew \/ MarkNeedsComplete \/ MarkFinished
  BY <1>1, <1>2, LooksKeep, UpdateKeepsSpecification
<1>3. CASE PatchDeployment
  BY <1>1, <1>3 DEF PatchDeployment
<1>4. CASE ChangeShoot \/ Resync \/ FlowFails
  <2>1. /\ flow' \in {"idle", "controlPlane"}
        /\ UNCHANGED <<wanted, apiUp, worker, machines>>
        /\ cluster.version \in Versions /\ cluster'.version \in {cluster.version, cluster.version + 1}
    BY <1>4, RequestsKeep, TypesOfClusters
  <2>2. CASE UseCSI(cluster.version)
    BY <2>1, <2>2 DEF UpgradeInv, Empty
  <2>3. CASE ~UseCSI(cluster.version) /\ ~UseCSI(cluster'.version)
    BY <2>1, <2>3 DEF UpgradeInv, Empty
  <2>4. CASE ~UseCSI(cluster.version) /\ UseCSI(cluster'.version)
    <3>1. cluster'.version = 1 /\ cluster'.version # cluster.version
      BY <2>1, <2>4 DEF UseCSI, csiMigrationVersion, Versions
    <3>2. QuietUpgrade
      BY <1>4, <3>1, RequestsKeep DEF QuietEnvironment
    <3>3. ~UsesNewKubelets
      BY <2>4 DEF KubeletInv
    <3>4. (Empty /\ ~apiUp) \/ (~worker.asleep /\ \E m \in Machines : machines[m] = "old")
      BY <3>2 DEF QuietUpgrade, SleepInv
    <3>. QED BY <2>1, <3>3, <3>4 DEF UpgradeInv, UsesNewKubelets, Empty
  <2>. QED BY <2>2, <2>3, <2>4
<1>5. CASE DeployControlPlane
  <2>1. UseCSI(cluster.version) => wanted' # "legacy"
    BY <1>5, TypesOfClusters, VersionNumbers DEF DeployControlPlane, SpecificationSeen
  <2>. QED BY <1>5, <2>1 DEF DeployControlPlane, UpgradeInv, Empty
<1>6. ASSUME NEW d \in Deployments, Deploy(d)
      PROVE  UpgradeInv'
  <2>1. d \notin {"idle", "controlPlane", "sleep"}
    BY DEF Deployments
  <2>. QED BY <1>6, <2>1 DEF Deploy, UpgradeInv, Empty
<1>7. CASE DeployWorker
  <2>1. /\ flow = "workers" /\ seen.version = cluster.version
        /\ worker'.kubelet = EnsureKubelet(seen.version) /\ flow' \in {"sleep", "idle"}
        /\ UNCHANGED <<cluster, wanted, machines>>
    BY <1>7 DEF DeployWorker, SpecificationSeen
  <2>2. worker'.kubelet = "old" <=> ~UseCSI(cluster.version)
    BY <2>1 DEF EnsureKubelet
  <2>3. (\E m \in Machines : machines[m] = "new") => worker'.kubelet = "new"
    BY <2>1 DEF KubeletInv, UsesNewKubelets, EnsureKubelet
  <2>4. UseCSI(cluster.version) => wanted # "legacy"
    BY <2>1 DEF UpgradeInv
  <2>. QED BY <2>1, <2>2, <2>3, <2>4 DEF UpgradeInv
<1>8. CASE Hibernate
  BY <1>8 DEF Hibernate, UpgradeInv, SleepInv, Empty
<1>9. ASSUME NEW m \in Machines, CreateMachine(m) \/ JoinMachine(m) \/ DeleteMachine(m)
      PROVE  UpgradeInv'
  <2>1. UNCHANGED <<cluster, flow, wanted, apiUp, worker>>
    BY <1>9 DEF CreateMachine, JoinMachine, DeleteMachine, Environmental
  <2>2. (\E k \in Machines : machines'[k] = "new") => worker.kubelet = "new"
    BY <1>9 DEF CreateMachine, JoinMachine, DeleteMachine, UpgradeInv, TypeOK
  <2>3. UseCSI(cluster.version) /\ worker.kubelet = "old"
           => Empty' \/ (~worker.asleep /\ \E k \in Machines : machines'[k] = "old")
    <3>. SUFFICES ASSUME UseCSI(cluster.version), worker.kubelet = "old"
                  PROVE  Empty' \/ (~worker.asleep /\ \E k \in Machines : machines'[k] = "old")
      OBVIOUS
    <3>1. CASE Empty
      BY <1>9, <3>1 DEF CreateMachine, JoinMachine, DeleteMachine, Empty
    <3>2. CASE ~worker.asleep /\ \E k \in Machines : machines[k] = "old"
      <4>1. PICK k \in Machines : machines[k] = "old"
        BY <3>2
      <4>2. \A n \in Machines : machines[n] # "new"
        BY DEF UpgradeInv
      <4>3. CASE CreateMachine(m) \/ JoinMachine(m)
        BY <3>2, <4>1, <4>3 DEF CreateMachine, JoinMachine, TypeOK
      <4>4. CASE DeleteMachine(m)
        <5>1. PICK n \in Machines \ {m} : machines[n] = "old"
          BY <3>2, <4>1, <4>2, <4>4 DEF DeleteMachine
        <5>2. machines'[n] = "old"
          BY <4>4, <5>1 DEF DeleteMachine, TypeOK
        <5>. QED BY <3>2, <5>2
      <4>. QED BY <1>9, <4>3, <4>4
    <3>. QED BY <3>1, <3>2 DEF UpgradeInv
  <2>. QED BY <2>1, <2>2, <2>3 DEF UpgradeInv
<1>10. ASSUME NEW c \in Classes, CreateClass(c)
       PROVE  UpgradeInv'
  BY <1>1, <1>10 DEF CreateClass, Environmental
<1>11. CASE UNCHANGED vars
  BY <1>1, <1>11 DEF vars
<1>12. ~MoveSeed
  BY DEF MoveSeed, QuietEnvironment
<1>. QED BY <1>2, <1>3, <1>4, <1>5, <1>6, <1>7, <1>8, <1>9, <1>10, <1>11, <1>12
     DEF Next, Controller, Gardenlet, Flow, Environment, Looks

\* Once no old node is left, none comes back, and no class of the in-tree
\* provisioner is created any more.
LEMMA RolledStays ==
  ASSUME QuietEnvironment, TypeOK, CopyInv, UpgradeInv, Rolled, [Next]_vars
  PROVE  Rolled' /\ \A c \in Classes : classes'[c] = "legacy" => classes[c] = "legacy"
<1>. USE DEF cacheVars, ctrlVars, seedVars, shootVars
<1>1. UNCHANGED <<machines, wanted, cluster.version>> => Rolled'
  BY DEF Rolled, NoOld
<1>2. CASE Looks
  <2>1. \A c \in Classes : classes'[c] = "legacy" => classes[c] = "legacy"
    BY <1>2 DEF Looks, Dispatch, CheckControlPlane, CheckNodes, ListClasses, DeleteClass, Observe, CallFails, Crash,
                Unchanging, TypeOK
  <2>. QED BY <1>1, <1>2, <2>1, LooksKeep
<1>3. CASE MarkNew \/ MarkNeedsComplete \/ MarkFinished
  BY <1>1, <1>3, UpdateKeepsSpecification
<1>4. CASE PatchDeployment
  BY <1>1, <1>4 DEF PatchDeployment
<1>5. CASE ChangeShoot \/ Resync \/ FlowFails
  <2>1. UseCSI(cluster.version) => UseCSI(cluster'.version)
    BY <1>5, RequestsKeep, TypesOfClusters DEF UseCSI, csiMigrationVersion, Versions
  <2>. QED BY <1>5, <2>1, RequestsKeep DEF Rolled, NoOld
<1>6. CASE DeployControlPlane
  <2>1. wanted' = "csi" /\ UNCHANGED <<cluster, machines, classes>>
    BY <1>6, TypesOfClusters, VersionNumbers DEF DeployControlPlane, SpecificationSeen, Rolled
  <2>. QED BY <2>1 DEF Rolled, NoOld
<1>7. CASE DeployWorker \/ Hibernate \/ \E d \in Deployments : Deploy(d)
  BY <1>1, <1>7 DEF DeployWorker, Hibernate, Deploy
<1>8. ASSUME NEW m \in Machines, CreateMachine(m) \/ JoinMachine(m) \/ DeleteMachine(m)
      PROVE  Rolled' /\ UNCHANGED classes
  <2>1. ~JoinMachine(m)
    BY DEF JoinMachine, QuietEnvironment, UpgradeInv, Rolled, NoOld, Empty
  <2>2. \A k \in Machines : machines'[k] # "old"
    BY <1>8, <2>1 DEF CreateMachine, DeleteMachine, Rolled, NoOld, TypeOK
  <2>. QED BY <1>8, <2>1, <2>2 DEF CreateMachine, DeleteMachine, Environmental, Rolled, NoOld
<1>9. ASSUME NEW c \in Classes, CreateClass(c)
      PROVE  Rolled' /\ \A k \in Classes : classes'[k] = "legacy" => classes[k] = "legacy"
  <2>1. \A k \in Classes : classes'[k] = "legacy" => classes[k] = "legacy"
    BY <1>9 DEF CreateClass, Rolled, TypeOK
  <2>. QED BY <1>1, <1>9, <2>1 DEF CreateClass, Environmental
<1>10. CASE UNCHANGED vars
  BY <1>1, <1>10 DEF vars
<1>11. ~MoveSeed
  BY DEF MoveSeed, QuietEnvironment
<1>. QED BY <1>2, <1>3, <1>4, <1>5, <1>6, <1>7, <1>8, <1>9, <1>10, <1>11
     DEF Next, Controller, Gardenlet, Flow, Environment, Looks

----------------------------------------------------------------------------
(* The controller and the Cluster.                                         *)

\* A step that leaves the controller, and what the Cluster tells, alone.
LEMMA CompletionKept ==
  ASSUME TypeOK, CompletionInv,
         Rolled => Rolled' /\ \A c \in Classes : classes'[c] = "legacy" => classes[c] = "legacy",
         UNCHANGED <<copy.version, cluster.needsComplete, cluster.finished, legacy>>,
         UNCHANGED pc \/ pc' = "idle",
         controlPlane => controlPlane',
         cluster.version \in Versions, copy.version \in Versions,
         \/ cluster'.version = cluster.version
         \/ cluster'.version = 1 /\ cluster.version = 0
         \/ cluster'.version = 0 /\ cluster.version = -1
         \/ cluster'.version = 2 /\ cluster.version = 1 /\ cluster.finished
  PROVE  CompletionInv'
<1>1. copy.version <= cluster'.version
  BY DEF CompletionInv, Versions
<1>2. Rolled /\ NoneLegacy => NoneLegacy'
  BY DEF NoneLegacy
<1>3. cluster'.version > csiMigrationVersion => Rolled
  BY DEF CompletionInv, csiMigrationVersion, Versions
<1>4. pc' = "delete" => \A c \in Classes : classes'[c] = "legacy" => c \in legacy
  BY DEF CompletionInv
<1>. QED BY <1>1, <1>2, <1>3, <1>4 DEF CompletionInv

LEMMA NextCompletionInv ==
  ASSUME QuietEnvironment, TypeOK, CopyInv, PiecesInv, SleepInv, UpgradeInv, CompletionInv, [Next]_vars
  PROVE  CompletionInv'
<1>. USE DEF cacheVars, ctrlVars, seedVars, shootVars
<1>0. /\ Rolled => Rolled' /\ \A c \in Classes : classes'[c] = "legacy" => classes[c] = "legacy"
      /\ cluster.version \in Versions /\ copy.version \in Versions /\ seen.version \in Versions
  BY RolledStays, TypesOfClusters
<1>1. CASE Dispatch
  <2>1. /\ UNCHANGED <<cluster, controlPlane, classes, wanted, machines>>
        /\ copy' = seen /\ pc' \in {"idle", "patch", "controlPlane"}
        /\ pc' = "patch" => seen.needsComplete
    BY <1>1 DEF Dispatch
  <2>. QED BY <2>1 DEF CompletionInv, PiecesInv, Rolled, NoOld, NoneLegacy
<1>2. CASE CheckControlPlane
  <2>1. /\ UNCHANGED <<cluster, copy, controlPlane, classes, wanted, machines>>
        /\ pc' \in {"idle", "markNew", "nodes"} /\ (pc' = "markNew" => ~controlPlane)
    BY <1>2 DEF CheckControlPlane, Goto, Return, Unchanging
  <2>. QED BY <2>1 DEF CompletionInv, Rolled, NoOld, NoneLegacy
<1>3. CASE CheckNodes
  <2>1. /\ UNCHANGED <<cluster, copy, controlPlane, classes, wanted, machines>>
        /\ pc' \in {"idle", "classes"} /\ (pc' = "classes" => apiUp /\ NoOld) /\ pc = "nodes"
    BY <1>3 DEF CheckNodes, Goto, Requeue, Unchanging, NoOld
  <2>2. UseCSI(cluster.version)
    BY <1>0, <2>1 DEF CopyInv, MigrationSteps, CompletionInv, UseCSI, csiMigrationVersion, Versions
  <2>3. apiUp /\ NoOld => wanted # "legacy"
    BY <2>2, TypesOfClusters DEF UpgradeInv, NoOld, Empty
  <2>. QED BY <2>1, <2>2, <2>3 DEF CompletionInv, Rolled, NoOld, NoneLegacy
<1>4. CASE ListClasses
  <2>1. /\ UNCHANGED <<cluster, copy, controlPlane, classes, wanted, machines>>
        /\ pc' \in {"idle", "delete"} /\ pc = "classes"
        /\ pc' = "delete" => legacy' = {c \in Classes : classes[c] = "legacy"}
    BY <1>4 DEF ListClasses, Goto, Requeue, Unchanging
  <2>. QED BY <2>1 DEF CompletionInv, Rolled, NoOld, NoneLegacy
<1>5. CASE DeleteClass
  <2>1. /\ UNCHANGED <<cluster, copy, controlPlane, wanted, machines>>
        /\ pc' \in {"idle", "delete", "needsComplete"} /\ pc = "delete"
        /\ pc' = "needsComplete" => legacy = {} /\ UNCHANGED classes
    BY <1>5 DEF DeleteClass, Goto, Requeue
  <2>2. pc' = "delete" => \A c \in Classes : classes'[c] = "legacy" => c \in legacy'
    BY <1>5 DEF DeleteClass, Goto, Requeue, CompletionInv, TypeOK
  <2>3. Rolled /\ Rolled'
    BY <1>0, <2>1 DEF CompletionInv
  <2>4. NoneLegacy => NoneLegacy'
    BY <1>0, <2>3 DEF NoneLegacy
  <2>. QED BY <2>1, <2>2, <2>3, <2>4 DEF CompletionInv, NoneLegacy
<1>6. CASE MarkNew \/ MarkNeedsComplete \/ MarkFinished
  <2>1. /\ cluster'.version = cluster.version /\ copy'.version = copy.version
        /\ cluster.needsComplete => cluster'.needsComplete
        /\ MarkFinished => cluster'.needsComplete = cluster.needsComplete
        /\ pc' \in {"idle", "patch"} /\ (pc' = "patch" => cluster'.needsComplete)
        /\ UNCHANGED <<controlPlane, classes, wanted, machines>>
    BY <1>6, UpdateKeepsSpecification
  <2>2. Rolled /\ NoneLegacy
    BY <1>6 DEF MarkNew, MarkNeedsComplete, MarkFinished, CompletionInv
  <2>. QED BY <2>1, <2>2 DEF CompletionInv, Rolled, NoOld, NoneLegacy
<1>7. CASE PatchDeployment
  <2>1. /\ UNCHANGED <<cluster, copy, controlPlane, classes, wanted, machines>>
        /\ pc' \in {"idle", "patch", "finish"} /\ pc = "patch"
    BY <1>7 DEF PatchDeployment, Goto, Requeue
  <2>. QED BY <2>1 DEF CompletionInv, Rolled, NoOld, NoneLegacy
<1>8. CASE Observe \/ CallFails \/ Crash
  BY <1>0, <1>8, CompletionKept DEF Observe, CallFails, Crash, Requeue
<1>9. CASE ChangeShoot \/ Resync \/ FlowFails
  <2>1. /\ cluster'.needsComplete = cluster.needsComplete /\ cluster'.finished = cluster.finished
        /\ cluster'.version \in {cluster.version, cluster.version + 1}
        /\ cluster'.version # cluster.version /\ cluster'.version = 2 => cluster.finished
        /\ UNCHANGED <<pc, copy, legacy, controlPlane>>
    BY <1>9, RequestsKeep DEF QuietEnvironment
  <2>2. cluster'.version \in Versions
    BY <1>0, <1>9, <2>1, NextTypeOK, TypesOfClusters DEF TypeOK, Clusters
  <2>3. \/ cluster'.version = cluster.version
        \/ cluster'.version = 1 /\ cluster.version = 0
        \/ cluster'.version = 0 /\ cluster.version = -1
        \/ cluster'.version = 2 /\ cluster.version = 1 /\ cluster.finished
    BY <1>0, <2>1, <2>2 DEF Versions
  <2>. QED BY <1>0, <2>1, <2>3, CompletionKept
<1>10. CASE Flow
  BY <1>0, <1>10, CompletionKept DEF Flow, DeployControlPlane, Deploy, DeployWorker, Hibernate
<1>11. CASE Environment
  BY <1>0, <1>11, CompletionKept
     DEF Environment, CreateMachine, JoinMachine, DeleteMachine, CreateClass, Environmental
<1>12. CASE UNCHANGED vars
  BY <1>0, <1>12, CompletionKept DEF vars
<1>13. ~MoveSeed
  BY DEF MoveSeed, QuietEnvironment
<1>. QED BY <1>1, <1>2, <1>3, <1>4, <1>5, <1>6, <1>7, <1>8, <1>9, <1>10, <1>11, <1>12, <1>13
     DEF Next, Controller, Gardenlet

----------------------------------------------------------------------------
(* CompleteMeansNewKubelets and NoLegacyClasses.                           *)

MigrationInv ==
    TypeOK /\ CopyInv /\ PiecesInv /\ KubeletInv /\ SleepInv /\ UpgradeInv /\ CompletionInv

LEMMA InitMigrationInv == Init => MigrationInv
<1> SUFFICES ASSUME NEW start \in Starts, StartOf(start), Init PROVE MigrationInv
  BY DEF Init
<1>1. TypeOK /\ CopyInv /\ PiecesInv /\ KubeletInv
  BY InitTypeOK, InitPiecesInv, InitKubeletInv DEF Init, CopyInv, MigrationSteps
<1>2. start \in {"existing", "hibernated", "new"} /\ cluster.version \in Versions
  BY <1>1, StartsAssumption, TypesOfClusters
<1>3. UseCSI(cluster.version) <=> start = "new"
  BY DEF StartOf, Clusters, UseCSI
<1>4. SleepInv
  BY <1>2 DEF StartOf, SleepInv, Empty
<1>5. UpgradeInv
  BY <1>2, <1>3 DEF StartOf, UpgradeInv, Empty
<1>6. start = "new" => Rolled /\ NoneLegacy
  BY <1>3 DEF StartOf, Rolled, NoOld, NoneLegacy
<1>7. /\ pc = "idle" /\ copy = cluster /\ ~cluster.needsComplete /\ ~cluster.finished
      /\ ~controlPlane => start = "new"
      /\ cluster.version > csiMigrationVersion => start = "new"
  <2>1. cluster.version > csiMigrationVersion => UseCSI(cluster.version)
    BY <1>2 DEF UseCSI, csiMigrationVersion, Versions
  <2>2. ~cluster.needsComplete /\ ~cluster.finished /\ controlPlane = (start # "new")
    BY DEF StartOf
  <2>. QED BY <1>3, <2>1, <2>2 DEF Init
<1>8. copy.version <= cluster.version
  BY <1>2, <1>7 DEF Versions
<1>9. CompletionInv
  BY <1>6, <1>7, <1>8 DEF CompletionInv
<1>. QED BY <1>1, <1>4, <1>5, <1>9 DEF MigrationInv

LEMMA NextMigrationInv == QuietEnvironment /\ MigrationInv /\ [Next]_vars => MigrationInv'
<1> SUFFICES ASSUME QuietEnvironment, MigrationInv, [Next]_vars PROVE MigrationInv'
  OBVIOUS
<1>1. TypeOK' /\ CopyInv' /\ PiecesInv' /\ KubeletInv'
  BY NextTypeOK, NextCopyInv, NextPiecesInv, NextKubeletInv DEF MigrationInv
<1>2. SleepInv' /\ UpgradeInv' /\ CompletionInv'
  BY NextSleepInv, NextUpgradeInv, NextCompletionInv DEF MigrationInv
<1>. QED BY <1>1, <1>2 DEF MigrationInv

\* In a quiet environment: when a part of the control plane is told that the
\* migration is complete, no node is left that attaches volumes in-tree,
\* although the check of the nodes, the annotation and the deployments are
\* separate calls, made on copies that may be old, and repeated after failures.
THEOREM CompletedIsRolled == ASSUME QuietEnvironment PROVE Spec => []CompleteMeansNewKubelets
<1>1. MigrationInv => CompleteMeansNewKubelets
  <2> SUFFICES ASSUME MigrationInv, NEW d \in deployed, IsComplete(d) PROVE NoOld
    BY DEF CompleteMeansNewKubelets, NoOld
  <2>1. PICK v \in Versions, n \in BOOLEAN, s \in BOOLEAN :
           /\ v <= seen.version /\ (n => seen.needsComplete)
           /\ LeftOver(pieces[d], Ensure(d, {}, v, n, s))
    BY DEF MigrationInv, PiecesInv, MutatedFor
  <2>2. d \in Deployments
    BY DEF MigrationInv, TypeOK
  <2>3. MigrationComplete(v, n)
    <3>1. "CSIMigrationComplete" \in Ensure(d, {}, v, n, s)
      <4>1. "CSIMigrationComplete" \in pieces[d]
        BY DEF IsComplete, CompleteGates
      <4>2. "CSIMigrationComplete" \notin Checksums
        BY DEF Checksums
      <4>3. pieces[d] \ Ensure(d, {}, v, n, s) \subseteq Checksums
        BY <2>1 DEF LeftOver
      <4>. QED BY ONLY <4>1, <4>2, <4>3
    <3>2. ASSUME ~MigrationComplete(v, n)
          PROVE  "CSIMigrationComplete" \notin Ensure(d, {}, v, n, s)
      <4> DEFINE gated == EnsureGates({}, v, FALSE)
      <4>1. "CSIMigrationComplete" \notin gated
        BY DEF EnsureGates, Gates
      <4>2. \A p : "CSIMigrationComplete" \notin p =>
               "CSIMigrationComplete" \notin
                    EnsureChecksumAnnotations(EnsureVolumes(p, v, FALSE), FALSE, s)
        BY DEF EnsureVolumes, EnsureChecksumAnnotations
      <4>3. MigrationComplete(v, n) = FALSE
        BY <3>2 DEF MigrationComplete
      <4>4. CASE d = "kube-apiserver"
        BY <4>1, <4>2, <4>3, <4>4 DEF Ensure, EnsureKubeAPIServer, CloudArgs
      <4>5. CASE d = "kube-controller-manager"
        BY <4>1, <4>2, <4>3, <4>5 DEF Ensure, EnsureKubeControllerManager
      <4>6. CASE d = "kube-scheduler"
        BY <4>1, <4>3, <4>6 DEF Ensure, EnsureKubeScheduler
      <4>. QED BY <2>2, <4>4, <4>5, <4>6 DEF Deployments
    <3>. QED BY <3>1, <3>2
  <2>4. v > csiMigrationVersion \/ n
    BY <2>3 DEF MigrationComplete
  <2>5. cluster.version > csiMigrationVersion \/ cluster.needsComplete
    BY <2>1, <2>4, TypesOfClusters DEF MigrationInv, PiecesInv, Versions, csiMigrationVersion
  <2>. QED BY <2>5 DEF MigrationInv, CompletionInv, Rolled
<1>. QED BY <1>1, InitMigrationInv, NextMigrationInv, PTL DEF Spec

\* In a quiet environment, a completed migration has left no storage class of
\* the in-tree provisioner, and none is created again.
THEOREM CompletedHasNoLegacy == ASSUME QuietEnvironment PROVE Spec => []NoLegacyClasses
<1>1. MigrationInv => NoLegacyClasses
  BY DEF MigrationInv, CompletionInv, Rolled, NoneLegacy, NoLegacyClasses
<1>. QED BY <1>1, InitMigrationInv, NextMigrationInv, PTL DEF Spec
=============================================================================
