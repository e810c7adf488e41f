------------------------- MODULE Provisioning_proofs -------------------------
(***************************************************************************)
(* Proofs about Provisioning, for any number of runs, cameras, failures and *)
(* deletions.                                                              *)
(***************************************************************************)
EXTENDS Provisioning, TLAPS

Labels == Steps \cup {"idle", "ok", "failed", "killed"}
RootFile == [by : 0..MaxRuns, data : 0..MaxRuns]
PublicFile == [by : 0..MaxRuns, data : 0..MaxSeeds]

PcType ==
    /\ pc \in [Runs -> Labels]
    /\ \A p \in Runs : pc[p] \in Steps \ RootgenSteps => camera[p] \in Cameras

-----------------------------------------------------------------------------
(* Types.                                                                   *)

(* Initially the state is well typed.                                       *)
LEMMA InitType == Init => TypeOK
BY BoundsAssumption
   DEF Init, TypeOK, Absent, NoManifest, Runs, Seeds, Steps, RootgenSteps,
       ProvisionSteps, CertgenSteps, EvictSteps

(* A file just created is a file.                                           *)
LEMMA CreatedType ==
    \A p \in Runs : Created(p) \in RootFile /\ Created(p) \in PublicFile
BY BoundsAssumption DEF Created, Runs, RootFile, PublicFile

(* So is no file.                                                           *)
LEMMA AbsentType == Absent \in RootFile /\ Absent \in PublicFile
BY BoundsAssumption DEF Absent, RootFile, PublicFile

(* A well-typed state has a well-typed pc.                                  *)
LEMMA TypePc == TypeOK => PcType
BY DEF TypeOK, PcType, Labels

(* A step to a label of the tool's own keeps pc well typed.                 *)
LEMMA GotoType ==
    ASSUME PcType, NEW p \in Runs, NEW l \in Labels, Goto(p, l), UNCHANGED camera,
           l \in Steps \ RootgenSteps => camera[p] \in Cameras
    PROVE  PcType'
BY DEF PcType, Goto

(* A run starts well typed.                                                 *)
LEMMA StartsType ==
    ASSUME TypeOK, NEW p \in Runs, NEW l \in Labels, NEW c \in Cameras \cup {NoCamera},
           Starts(p, l, c), l \in Steps \ RootgenSteps => c \in Cameras
    PROVE  PcType' /\ camera' \in [Runs -> Cameras \cup {NoCamera}]
BY TypePc DEF Starts, Goto, PcType, TypeOK

(* A failed call keeps the state well typed.                                *)
LEMMA FailsType ==
    ASSUME TypeOK, NEW p \in Runs, Running(p), Fails(p), faults' \in 0..MaxFaults
    PROVE  TypeOK'
BY DEF TypeOK, Fails, Running, Goto, AfterFailure, Steps, RootgenSteps,
       ProvisionSteps, CertgenSteps, EvictSteps, rootFiles, cameraFiles, tpms,
       locals, operator

(* Every step keeps the state well typed.                                   *)
LEMMA NextType == TypeOK /\ [Next]_vars => TypeOK'
<1> SUFFICES ASSUME TypeOK, [Next]_vars PROVE TypeOK'
  OBVIOUS
<1> USE TypePc DEF rootFiles, cameraFiles, registry, tpms, locals, operator
<1>1. ASSUME NEW p \in Runs, StartRootgen(p) PROVE TypeOK'
  <2>1. PcType' /\ camera' \in [Runs -> Cameras \cup {NoCamera}]
    BY <1>1, StartsType DEF StartRootgen, Labels, Steps, RootgenSteps, ProvisionSteps,
       CertgenSteps, EvictSteps
  <2>2. ca' \in [Runs -> 0..MaxRuns]
    BY <1>1, BoundsAssumption DEF StartRootgen, TypeOK, Runs
  <2> QED  BY <1>1, <2>1, <2>2 DEF StartRootgen, Starts, TypeOK, PcType, Labels, Goto
<1>2. ASSUME NEW p \in Runs, CreateRootCert(p) PROVE TypeOK'
  <2>1. CASE Fails(p)
    BY <1>2, <2>1, FailsType DEF CreateRootCert, Running, TypeOK, Steps, RootgenSteps,
       ProvisionSteps, CertgenSteps, EvictSteps
  <2>2. CASE ~Fails(p)
    <3>1. PcType'
      BY <1>2, <2>2, GotoType DEF CreateRootCert, PcType, Labels, Steps, RootgenSteps,
         ProvisionSteps, CertgenSteps, EvictSteps
    <3>2. rootCert' \in RootFile
      BY <1>2, <2>2, BoundsAssumption, CreatedType DEF CreateRootCert, TypeOK,
         RootFile, Written, Absent
    <3> QED  BY <1>2, <2>2, <3>1, <3>2 DEF CreateRootCert, TypeOK, PcType, Labels,
       RootFile
  <2> QED  BY <2>1, <2>2
<1>3. ASSUME NEW p \in Runs, CreateRootKey(p) PROVE TypeOK'
  <2>1. CASE Fails(p)
    BY <1>3, <2>1, FailsType DEF CreateRootKey, Running, TypeOK, Steps, RootgenSteps,
       ProvisionSteps, CertgenSteps, EvictSteps
  <2>2. CASE ~Fails(p)
    <3>1. PcType'
      BY <1>3, <2>2, GotoType DEF CreateRootKey, PcType, Labels, Steps, RootgenSteps,
         ProvisionSteps, CertgenSteps, EvictSteps
    <3>2. rootKey' \in RootFile
      BY <1>3, <2>2, BoundsAssumption, CreatedType DEF CreateRootKey, TypeOK,
         RootFile, Written, Absent
    <3> QED  BY <1>3, <2>2, <3>1, <3>2 DEF CreateRootKey, TypeOK, PcType, Labels,
       RootFile
  <2> QED  BY <2>1, <2>2
<1>4. ASSUME NEW p \in Runs, WriteRootCert(p) PROVE TypeOK'
  <2>1. PcType'
    BY <1>4, GotoType DEF WriteRootCert, PcType, Labels, Steps, RootgenSteps,
       ProvisionSteps, CertgenSteps, EvictSteps
  <2>2. rootCert' \in RootFile
    BY <1>4, BoundsAssumption DEF WriteRootCert, TypeOK, RootFile, Written, Runs
  <2> QED  BY <1>4, <2>1, <2>2 DEF WriteRootCert, TypeOK, PcType, Labels, RootFile
<1>5. ASSUME NEW p \in Runs, WriteRootKey(p) PROVE TypeOK'
  <2>1. PcType'
    BY <1>5, GotoType DEF WriteRootKey, PcType, Labels, Steps, RootgenSteps,
       ProvisionSteps, CertgenSteps, EvictSteps
  <2>2. rootKey' \in RootFile
    BY <1>5, BoundsAssumption DEF WriteRootKey, TypeOK, RootFile, Written, Runs
  <2> QED  BY <1>5, <2>1, <2>2 DEF WriteRootKey, TypeOK, PcType, Labels, RootFile
<1>6. ASSUME NEW p \in Runs, UndoRootCert(p) PROVE TypeOK'
  <2>1. PcType'
    BY <1>6, GotoType DEF UndoRootCert, PcType, Labels, Steps, RootgenSteps,
       ProvisionSteps, CertgenSteps, EvictSteps
  <2>2. rootCert' \in RootFile
    BY <1>6, BoundsAssumption, CreatedType DEF UndoRootCert, TypeOK, RootFile,
       Written, Absent
  <2> QED  BY <1>6, <2>1, <2>2 DEF UndoRootCert, TypeOK, PcType, Labels, RootFile
<1>7. ASSUME NEW p \in Runs, UndoRootKey(p) PROVE TypeOK'
  <2>1. PcType'
    BY <1>7, GotoType DEF UndoRootKey, PcType, Labels, Steps, RootgenSteps,
       ProvisionSteps, CertgenSteps, EvictSteps
  <2>2. rootKey' \in RootFile
    BY <1>7, BoundsAssumption, CreatedType DEF UndoRootKey, TypeOK, RootFile, Written,
       Absent
  <2> QED  BY <1>7, <2>1, <2>2 DEF UndoRootKey, TypeOK, PcType, Labels, RootFile
<1>8. ASSUME NEW p \in Runs, NEW c \in Cameras, StartProvision(p, c) PROVE TypeOK'
  <2>1. PcType' /\ camera' \in [Runs -> Cameras \cup {NoCamera}]
    BY <1>8, StartsType DEF StartProvision, Labels, Steps, RootgenSteps,
       ProvisionSteps, CertgenSteps, EvictSteps
  <2> QED  BY <1>8, <2>1 DEF StartProvision, Starts, TypeOK, PcType, Labels, Goto
<1>9. ASSUME NEW p \in Runs, OpenSigner(p) PROVE TypeOK'
  <2>1. PcType'
    BY <1>9, GotoType DEF OpenSigner, PcType, Labels, Steps, RootgenSteps,
       ProvisionSteps, CertgenSteps, EvictSteps
  <2> QED  BY <1>9, <2>1 DEF OpenSigner, TypeOK, PcType, Labels
<1>10. ASSUME NEW p \in Runs, CreatePrimary(p) PROVE TypeOK'
  <2>1. PcType'
    BY <1>10, GotoType DEF CreatePrimary, PcType, Labels, Steps, RootgenSteps,
       ProvisionSteps, CertgenSteps, EvictSteps
  <2>2. camera[p] \in Cameras
    BY <1>10 DEF CreatePrimary, TypeOK, Steps, RootgenSteps, ProvisionSteps,
       CertgenSteps, EvictSteps
  <2>3. key' \in [Runs -> 0..MaxSeeds]
    BY <1>10, <2>2, BoundsAssumption DEF CreatePrimary, TypeOK, Seeds
  <2> QED  BY <1>10, <2>1, <2>3 DEF CreatePrimary, TypeOK, PcType, Labels
<1>11. ASSUME NEW p \in Runs, Persist(p) PROVE TypeOK'
  <2>1. CASE Fails(p)
    BY <1>11, <2>1, FailsType DEF Persist, Running, TypeOK, Steps, RootgenSteps,
       ProvisionSteps, CertgenSteps, EvictSteps
  <2>2. CASE ~Fails(p)
    <3>1. PcType'
      BY <1>11, <2>2, GotoType DEF Persist, PcType, Labels, Steps, RootgenSteps,
         ProvisionSteps, CertgenSteps, EvictSteps
    <3>2. tpmKey' \in [Cameras -> 0..MaxSeeds]
      BY <1>11, <2>2 DEF Persist, TypeOK
    <3> QED  BY <1>11, <2>2, <3>1, <3>2 DEF Persist, TypeOK, PcType, Labels
  <2> QED  BY <2>1, <2>2
<1>12. ASSUME NEW p \in Runs, ReadBack(p) PROVE TypeOK'
  <2>1. CASE Fails(p)
    BY <1>12, <2>1, FailsType DEF ReadBack, Running, TypeOK, Steps, RootgenSteps,
       ProvisionSteps, CertgenSteps, EvictSteps
  <2>2. CASE ~Fails(p)
    <3>1. PcType'
      BY <1>12, <2>2, GotoType DEF ReadBack, PcType, Labels, Steps, RootgenSteps,
         ProvisionSteps, CertgenSteps, EvictSteps
    <3> QED  BY <1>12, <2>2, <3>1 DEF ReadBack, TypeOK, PcType, Labels
  <2> QED  BY <2>1, <2>2
<1>13. ASSUME NEW p \in Runs, ReadPublic(p) PROVE TypeOK'
  <2>1. CASE Fails(p)
    BY <1>13, <2>1, FailsType DEF ReadPublic, Running, TypeOK, Steps, RootgenSteps,
       ProvisionSteps, CertgenSteps, EvictSteps
  <2>2. CASE ~Fails(p)
    <3>1. PcType'
      BY <1>13, <2>2, GotoType DEF ReadPublic, PcType, Labels, Steps, RootgenSteps,
         ProvisionSteps, CertgenSteps, EvictSteps
    <3>2. camera[p] \in Cameras
      BY <1>13, <2>2 DEF ReadPublic, TypeOK, Steps, RootgenSteps, ProvisionSteps,
         CertgenSteps, EvictSteps
    <3>3. key' \in [Runs -> 0..MaxSeeds]
      BY <1>13, <2>2, <3>2 DEF ReadPublic, TypeOK, KeyOf
    <3> QED  BY <1>13, <2>2, <3>1, <3>3 DEF ReadPublic, TypeOK, PcType, Labels
  <2> QED  BY <2>1, <2>2
<1>14. ASSUME NEW p \in Runs, CreatePublic(p) PROVE TypeOK'
  <2>1. CASE Fails(p)
    BY <1>14, <2>1, FailsType DEF CreatePublic, Running, TypeOK, Steps, RootgenSteps,
       ProvisionSteps, CertgenSteps, EvictSteps
  <2>2. CASE ~Fails(p)
    <3>1. PcType'
      BY <1>14, <2>2, GotoType DEF CreatePublic, PcType, Labels, Steps, RootgenSteps,
         ProvisionSteps, CertgenSteps, EvictSteps
    <3>2. cameraPublic' \in [Cameras -> PublicFile]
      BY <1>14, <2>2, CreatedType DEF CreatePublic, TypeOK, PublicFile
    <3> QED  BY <1>14, <2>2, <3>1, <3>2 DEF CreatePublic, TypeOK, PcType, Labels,
       PublicFile
  <2> QED  BY <2>1, <2>2
<1>15. ASSUME NEW p \in Runs, WritePublic(p) PROVE TypeOK'
  <2>1. PcType'
    BY <1>15, GotoType DEF WritePublic, PcType, Labels, Steps, RootgenSteps,
       ProvisionSteps, CertgenSteps, EvictSteps
  <2>2. camera[p] \in Cameras
    BY <1>15 DEF WritePublic, TypeOK, Steps, RootgenSteps, ProvisionSteps,
       CertgenSteps, EvictSteps
  <2>3. Written(cameraPublic[camera[p]], p, key[p]) \in PublicFile
    BY <1>15, <2>2, BoundsAssumption DEF TypeOK, PublicFile, Written, Runs
  <2>4. cameraPublic' \in [Cameras -> PublicFile]
    BY <1>15, <2>3 DEF WritePublic, TypeOK, PublicFile
  <2> QED  BY <1>15, <2>1, <2>3, <2>4 DEF WritePublic, TypeOK, PcType, Labels,
     PublicFile
<1>16. ASSUME NEW p \in Runs, NEW c \in Cameras, StartEvict(p, c) PROVE TypeOK'
  <2>1. PcType' /\ camera' \in [Runs -> Cameras \cup {NoCamera}]
    BY <1>16, StartsType DEF StartEvict, Labels, Steps, RootgenSteps, ProvisionSteps,
       CertgenSteps, EvictSteps
  <2> QED  BY <1>16, <2>1 DEF StartEvict, Starts, TypeOK, PcType, Labels, Goto
<1>17. ASSUME NEW p \in Runs, FindKey(p) PROVE TypeOK'
  <2>1. CASE Fails(p)
    BY <1>17, <2>1, FailsType DEF FindKey, Running, TypeOK, Steps, RootgenSteps,
       ProvisionSteps, CertgenSteps, EvictSteps
  <2>2. CASE ~Fails(p)
    <3>1. PcType'
      BY <1>17, <2>2, GotoType DEF FindKey, PcType, Labels, Steps, RootgenSteps,
         ProvisionSteps, CertgenSteps, EvictSteps
    <3> QED  BY <1>17, <2>2, <3>1 DEF FindKey, TypeOK, PcType, Labels
  <2> QED  BY <2>1, <2>2
<1>18. ASSUME NEW p \in Runs, EvictKey(p) PROVE TypeOK'
  <2>1. CASE Fails(p)
    BY <1>18, <2>1, FailsType DEF EvictKey, Running, TypeOK, Steps, RootgenSteps,
       ProvisionSteps, CertgenSteps, EvictSteps
  <2>2. CASE ~Fails(p)
    <3>1. PcType'
      BY <1>18, <2>2, GotoType DEF EvictKey, PcType, Labels, Steps, RootgenSteps,
         ProvisionSteps, CertgenSteps, EvictSteps
    <3>2. tpmKey' \in [Cameras -> 0..MaxSeeds]
      BY <1>18, <2>2, BoundsAssumption DEF EvictKey, TypeOK
    <3> QED  BY <1>18, <2>2, <3>1, <3>2 DEF EvictKey, TypeOK, PcType, Labels
  <2> QED  BY <2>1, <2>2
<1>19. ASSUME NEW p \in Runs, NEW c \in Cameras, StartCertgen(p, c) PROVE TypeOK'
  <2>1. PcType' /\ camera' \in [Runs -> Cameras \cup {NoCamera}]
    BY <1>19, StartsType DEF StartCertgen, Labels, Steps, RootgenSteps,
       ProvisionSteps, CertgenSteps, EvictSteps
  <2> QED  BY <1>19, <2>1 DEF StartCertgen, Starts, TypeOK, PcType, Labels, Goto
<1>20. ASSUME NEW p \in Runs, LoadRootCert(p) PROVE TypeOK'
  <2>1. CASE Fails(p)
    BY <1>20, <2>1, FailsType DEF LoadRootCert, Running, TypeOK, Steps, RootgenSteps,
       ProvisionSteps, CertgenSteps, EvictSteps
  <2>2. CASE ~Fails(p)
    <3>1. PcType'
      BY <1>20, <2>2, GotoType DEF LoadRootCert, PcType, Labels, Steps, RootgenSteps,
         ProvisionSteps, CertgenSteps, EvictSteps
    <3>2. ca' \in [Runs -> 0..MaxRuns]
      BY <1>20, <2>2 DEF LoadRootCert, TypeOK
    <3> QED  BY <1>20, <2>2, <3>1, <3>2 DEF LoadRootCert, TypeOK, PcType, Labels
  <2> QED  BY <2>1, <2>2
<1>21. ASSUME NEW p \in Runs, LoadKeys(p) PROVE TypeOK'
  <2>1. CASE Fails(p)
    BY <1>21, <2>1, FailsType DEF LoadKeys, Running, TypeOK, Steps, RootgenSteps,
       ProvisionSteps, CertgenSteps, EvictSteps
  <2>2. CASE ~Fails(p)
    <3>1. PcType'
      BY <1>21, <2>2, GotoType DEF LoadKeys, PcType, Labels, Steps, RootgenSteps,
         ProvisionSteps, CertgenSteps, EvictSteps
    <3>2. camera[p] \in Cameras
      BY <1>21, <2>2 DEF LoadKeys, TypeOK, Steps, RootgenSteps, ProvisionSteps,
         CertgenSteps, EvictSteps
    <3>3. key' \in [Runs -> 0..MaxSeeds]
      BY <1>21, <2>2, <3>2 DEF LoadKeys, TypeOK
    <3> QED  BY <1>21, <2>2, <3>1, <3>3 DEF LoadKeys, TypeOK, PcType, Labels
  <2> QED  BY <2>1, <2>2
<1>22. ASSUME NEW p \in Runs, ReadManifest(p) PROVE TypeOK'
  <2>1. CASE Fails(p)
    BY <1>22, <2>1, FailsType DEF ReadManifest, Running, TypeOK, Steps, RootgenSteps,
       ProvisionSteps, CertgenSteps, EvictSteps
  <2>2. CASE ~Fails(p)
    <3>1. PcType'
      BY <1>22, <2>2, GotoType DEF ReadManifest, PcType, Labels, Steps, RootgenSteps,
         ProvisionSteps, CertgenSteps, EvictSteps
    <3>2. seen' \in [Runs -> SUBSET Runs]
      BY <1>22, <2>2 DEF ReadManifest, TypeOK
    <3> QED  BY <1>22, <2>2, <3>1, <3>2 DEF ReadManifest, TypeOK, PcType, Labels
  <2> QED  BY <2>1, <2>2
<1>23. ASSUME NEW p \in Runs, CreateCert(p) PROVE TypeOK'
  <2>1. CASE Fails(p)
    BY <1>23, <2>1, FailsType DEF CreateCert, Running, TypeOK, Steps, RootgenSteps,
       ProvisionSteps, CertgenSteps, EvictSteps
  <2>2. CASE ~Fails(p)
    <3>1. PcType'
      BY <1>23, <2>2, GotoType DEF CreateCert, PcType, Labels, Steps, RootgenSteps,
         ProvisionSteps, CertgenSteps, EvictSteps
    <3>2. cameraCert' \in [Cameras -> RootFile]
      BY <1>23, <2>2, CreatedType DEF CreateCert, TypeOK, RootFile
    <3> QED  BY <1>23, <2>2, <3>1, <3>2 DEF CreateCert, TypeOK, PcType, Labels, RootFile
  <2> QED  BY <2>1, <2>2
<1>24. ASSUME NEW p \in Runs, WriteCert(p) PROVE TypeOK'
  <2>1. PcType'
    BY <1>24, GotoType DEF WriteCert, PcType, Labels, Steps, RootgenSteps,
       ProvisionSteps, CertgenSteps, EvictSteps
  <2>2. cameraCert' \in [Cameras -> RootFile]
    BY <1>24, BoundsAssumption DEF WriteCert, TypeOK, RootFile, Written, Runs
  <2> QED  BY <1>24, <2>1, <2>2 DEF WriteCert, TypeOK, PcType, Labels, RootFile
<1>25. ASSUME NEW p \in Runs, WriteTemp(p) PROVE TypeOK'
  <2>1. PcType'
    BY <1>25, GotoType DEF WriteTemp, PcType, Labels, Steps, RootgenSteps,
       ProvisionSteps, CertgenSteps, EvictSteps
  <2>2. temps' \subseteq Runs /\ manifest' \subseteq Runs
    BY <1>25 DEF WriteTemp, TypeOK, WhileWriting
  <2> QED  BY <1>25, <2>1, <2>2 DEF WriteTemp, TypeOK, PcType, Labels
<1>26. ASSUME NEW p \in Runs, Rename(p) PROVE TypeOK'
  <2>1. PcType'
    BY <1>26, GotoType DEF Rename, PcType, Labels, Steps, RootgenSteps,
       ProvisionSteps, CertgenSteps, EvictSteps
  <2>2. temps' \subseteq Runs /\ manifest' \subseteq Runs
    BY <1>26 DEF Rename, TypeOK, Merged
  <2> QED  BY <1>26, <2>1, <2>2 DEF Rename, TypeOK, PcType, Labels
<1>27. ASSUME NEW p \in Runs, RemoveOld(p) PROVE TypeOK'
  <2>1. PcType'
    BY <1>27, GotoType DEF RemoveOld, PcType, Labels, Steps, RootgenSteps,
       ProvisionSteps, CertgenSteps, EvictSteps
  <2>2. manifest' \subseteq Runs
    BY <1>27 DEF RemoveOld, TypeOK, NoManifest
  <2> QED  BY <1>27, <2>1, <2>2 DEF RemoveOld, TypeOK, PcType, Labels
<1>28. ASSUME NEW p \in Runs, CallFails(p) PROVE TypeOK'
  <2>1. faults' \in 0..MaxFaults
    BY <1>28, BoundsAssumption DEF CallFails, Fault, TypeOK
  <2> QED  BY <1>28, <2>1, FailsType DEF CallFails
<1>29. ASSUME NEW p \in Runs, Killed(p) PROVE TypeOK'
  <2>1. PcType'
    BY <1>29, GotoType DEF Killed, Labels, Steps, RootgenSteps, ProvisionSteps,
       CertgenSteps, EvictSteps
  <2>2. faults' \in 0..MaxFaults
    BY <1>29, BoundsAssumption DEF Killed, Fault, TypeOK
  <2> QED  BY <1>29, <2>1, <2>2 DEF Killed, TypeOK, PcType, Labels
<1>30. ASSUME NEW p \in Runs, CloseFails(p) PROVE TypeOK'
  <2>1. PcType'
    BY <1>30, GotoType DEF CloseFails, AfterFailure, PcType, Labels, Steps, RootgenSteps,
       ProvisionSteps, CertgenSteps, EvictSteps
  <2>2. faults' \in 0..MaxFaults
    BY <1>30, BoundsAssumption DEF CloseFails, Fault, TypeOK
  <2>3. rootCert' \in RootFile /\ rootKey' \in RootFile
    BY <1>30, BoundsAssumption DEF CloseFails, TypeOK, RootFile, Written, Runs
  <2> QED  BY <1>30, <2>1, <2>2, <2>3 DEF CloseFails, TypeOK, PcType, Labels, RootFile
<1>31. CASE OperatorDeletes
  <2>1. rootCert' \in RootFile /\ rootKey' \in RootFile
    BY <1>31, AbsentType DEF OperatorDeletes, TypeOK, RootFile
  <2>4. cameraPublic' \in [Cameras -> PublicFile]
    BY <1>31, AbsentType DEF OperatorDeletes, TypeOK, PublicFile
  <2>5. cameraCert' \in [Cameras -> RootFile]
    BY <1>31, AbsentType DEF OperatorDeletes, TypeOK, RootFile
  <2>2. manifest' \subseteq Runs /\ withdrawn' \subseteq Runs
    <3>1. \A c \in Cameras : cameraCert[c].data \in 0..MaxRuns
      BY DEF TypeOK
    <3>2. manifest' \subseteq Runs
      BY <1>31 DEF OperatorDeletes, TypeOK, NoManifest
    <3>3. \A d \in 0..MaxRuns : {d} \ {0} \subseteq Runs
      BY BoundsAssumption DEF Runs
    <3>4. withdrawn \subseteq Runs
      BY DEF TypeOK
    <3> HIDE DEF Runs
    <3>5. CASE UNCHANGED withdrawn
      BY <3>2, <3>4, <3>5
    <3>6. CASE \E c \in Cameras : withdrawn' = withdrawn \cup ({cameraCert[c].data} \
       {0})
      BY <3>1, <3>2, <3>3, <3>4, <3>6
    <3> QED  BY <1>31, <3>5, <3>6 DEF OperatorDeletes
  <2>3. removals' \in 0..MaxRemovals
    BY <1>31, BoundsAssumption DEF OperatorDeletes, TypeOK
  <2> QED
    BY <1>31, <2>1, <2>2, <2>3, <2>4, <2>5 DEF OperatorDeletes, TypeOK, RootFile,
       PublicFile
<1>32. ASSUME NEW c \in Cameras, ClearTPM(c) PROVE TypeOK'
  <2>1. tpmKey' \in [Cameras -> 0..MaxSeeds]
    BY <1>32, BoundsAssumption DEF ClearTPM, TypeOK
  <2>2. seed' \in [Cameras -> Seeds]
    BY <1>32, BoundsAssumption DEF ClearTPM, TypeOK, Seeds
  <2> QED  BY <1>32, <2>1, <2>2 DEF ClearTPM, TypeOK
<1>33. CASE UNCHANGED vars
  BY <1>33 DEF vars, TypeOK
<1> QED
  BY <1>1, <1>2, <1>3, <1>4, <1>5, <1>6, <1>7, <1>8, <1>9, <1>10, <1>11, <1>12, <1>13,
     <1>14, <1>15, <1>16, <1>17, <1>18, <1>19, <1>20, <1>21, <1>22, <1>23, <1>24, <1>25,
     <1>26, <1>27, <1>28, <1>29, <1>30, <1>31, <1>32, <1>33
     DEF Next, Run, Rootgen, Provision, Evict, Certgen

-----------------------------------------------------------------------------
(* One step of one run.                                                     *)

(* A step of run p: it goes on from a label of a tool, and nothing another  *)
(* run holds changes, nor its own camera once it has started.              *)
Moves(p) ==
    /\ pc[p] \in Steps \cup {"idle"}
    /\ \E l \in Labels : Goto(p, l)
    /\ \A q \in Runs : q # p \/ pc[p] \notin {"idle", "load_root"} => ca'[q] = ca[q]
    /\ \A q \in Runs : q # p \/ pc[p] # "idle" => camera'[q] = camera[q]
    /\ \A q \in Runs : q # p \/ pc[p] # "merge" => seen'[q] = seen[q]
    /\ \A q \in Runs : q # p => key'[q] = key[q]
    /\ UNCHANGED operator

(* A failed call is such a step.                                            *)
LEMMA FailsMoves ==
    ASSUME TypeOK, NEW p \in Runs, Running(p), Fails(p)
    PROVE  Moves(p)
BY DEF TypeOK, Fails, Running, Moves, AfterFailure, Labels, Steps, RootgenSteps,
       ProvisionSteps, CertgenSteps, EvictSteps, locals

(* So is every step of every tool.                                          *)
LEMMA RunMoves ==
    ASSUME TypeOK, NEW p \in Runs, Run(p)
    PROVE  Moves(p)
<1> USE DEF TypeOK, Moves, Labels, Steps, RootgenSteps,
       ProvisionSteps, CertgenSteps, EvictSteps, locals
<1>1. CASE Rootgen(p)
  BY <1>1, FailsMoves DEF Rootgen, StartRootgen, Starts, CreateRootCert, CreateRootKey,
     WriteRootCert, WriteRootKey, CloseFails, AfterFailure, UndoRootCert, UndoRootKey,
     Running
<1>2. CASE Provision(p)
  BY <1>2, FailsMoves DEF Provision, StartProvision, Starts, OpenSigner, CreatePrimary,
     Persist, ReadBack, ReadPublic, CreatePublic, WritePublic, Running
<1>3. CASE Evict(p)
  BY <1>3, FailsMoves DEF Evict, StartEvict, Starts, FindKey, EvictKey, Running
<1>4. CASE Certgen(p)
  BY <1>4, FailsMoves DEF Certgen, StartCertgen, Starts, LoadRootCert, LoadKeys,
     ReadManifest, CreateCert, WriteCert, WriteTemp, Rename, RemoveOld, Running
<1>5. CASE CallFails(p)
  BY <1>5, FailsMoves DEF CallFails
<1>6. CASE Killed(p)
  BY <1>6 DEF Killed, Running
<1> QED  BY <1>1, <1>2, <1>3, <1>4, <1>5, <1>6 DEF Run
-----------------------------------------------------------------------------
(* The CA's files.                                                          *)

(* What rootgen relies on from step to step: which of its files are its own *)
(* while it is at a step, and conversely at which steps the owner of a file *)
(* can be.                                                                 *)
RootFilesOwned ==
    /\ rootCert.data \in {0, rootCert.by}
    /\ rootKey.data \in {0, rootKey.by}
    /\ Whole(rootCert) => rootKey.by \in {0, rootCert.by}
    /\ Whole(rootKey) => pc[rootKey.by] \in {"ok", "undo_both", "undo_key", "killed"}
    /\ \A p \in Runs :
         /\ pc[p] \in RootgenSteps => ca[p] = p
         /\ pc[p] \in {"create_root_key", "write_root_cert"} => rootCert = Created(p)
         /\ pc[p] = "write_root_key" => Whole(rootCert)
         /\ pc[p] \in {"write_root_key", "undo_both", "undo_cert"} => rootCert.by = p
         /\ pc[p] \in {"write_root_cert", "write_root_key"} => rootKey = Created(p)
         /\ pc[p] \in {"undo_both", "undo_key"} => rootKey.by = p
         /\ pc[p] = "undo_cert" => rootCert = Created(p)
         /\ rootCert.by = p => pc[p] \in {"create_root_key", "write_root_cert",
                  "write_root_key", "undo_both", "undo_cert", "ok", "killed"}
         /\ rootKey.by = p => pc[p] \in {"write_root_cert", "write_root_key",
                  "undo_both", "undo_key", "ok", "killed"}


(* Only rootgen touches the CA's files, and only another tool's steps lead  *)
(* to labels of another tool.                                              *)
LEMMA NotRootgen ==
    ASSUME TypeOK, NEW p \in Runs, Run(p), ~Rootgen(p), pc[p] \notin RootgenSteps
    PROVE  UNCHANGED rootFiles /\ pc'[p] \notin RootgenSteps
<1> USE DEF TypeOK, Goto, Labels, Steps, RootgenSteps, ProvisionSteps, CertgenSteps,
            EvictSteps, Fails, AfterFailure, rootFiles
<1>1. CASE Provision(p)
  BY <1>1 DEF Provision, StartProvision, Starts, OpenSigner, CreatePrimary,
     Persist, ReadBack, ReadPublic, CreatePublic, WritePublic
<1>2. CASE Evict(p)
  BY <1>2 DEF Evict, StartEvict, Starts, FindKey, EvictKey
<1>3. CASE Certgen(p)
  BY <1>3 DEF Certgen, StartCertgen, Starts, LoadRootCert, LoadKeys,
     ReadManifest, CreateCert, WriteCert, WriteTemp, Rename, RemoveOld
<1>4. CASE CallFails(p) \/ Killed(p)
  BY <1>4 DEF CallFails, Killed
<1> QED  BY <1>1, <1>2, <1>3, <1>4 DEF Run

(* A step that is not of rootgen leaves its files owned as they are.        *)
LEMMA RootOwnedElse ==
    ASSUME TypeOK, RootFilesOwned, NEW p \in Runs, Moves(p), UNCHANGED rootFiles,
           pc[p] \notin RootgenSteps, pc'[p] \notin RootgenSteps
    PROVE  RootFilesOwned'
BY DEF TypeOK, RootFilesOwned, Moves, Goto, Steps, RootgenSteps, ProvisionSteps,
       CertgenSteps, EvictSteps, rootFiles, Whole, Created

(* Every step keeps the files of rootgen owned.                             *)
LEMMA RootOwnedNext == TypeOK /\ RootFilesOwned /\ [Next]_vars => RootFilesOwned'
<1> SUFFICES ASSUME TypeOK, RootFilesOwned, [Next]_vars PROVE RootFilesOwned'
  OBVIOUS
<1>1. ASSUME NEW p \in Runs, Run(p) PROVE RootFilesOwned'
  <2> USE DEF RootFilesOwned, TypeOK, Goto, RootgenSteps, rootFiles, locals,
     Created, Whole, Absent, Runs
  <2>1. CASE pc[p] \notin RootgenSteps /\ ~Rootgen(p)
    BY <1>1, <2>1, RunMoves, NotRootgen, RootOwnedElse
  <2>2. CASE StartRootgen(p)
    BY <2>2 DEF StartRootgen, Starts
  <2>3. CASE CreateRootCert(p)
    <3>1. CASE Fails(p)
      BY <2>3, <3>1 DEF CreateRootCert, Fails, AfterFailure
    <3>2. CASE ~Fails(p)
      <4>1. rootCert = Absent /\ rootCert' = Created(p) /\ UNCHANGED <<rootKey, ca>>
        BY <2>3, <3>2 DEF CreateRootCert, CanCreate
      <4>2. pc' = [pc EXCEPT ![p] = "create_root_key"] /\ pc[p] = "create_root_cert"
        BY <2>3, <3>2 DEF CreateRootCert
      <4> QED  BY <4>1, <4>2, BoundsAssumption
    <3> QED  BY <3>1, <3>2
  <2>4. CASE CreateRootKey(p)
    BY <2>4, BoundsAssumption DEF CreateRootKey, Fails, AfterFailure, CanCreate
  <2>5. CASE WriteRootCert(p)
    BY <2>5, BoundsAssumption DEF WriteRootCert, Written
  <2>6. CASE WriteRootKey(p)
    BY <2>6, BoundsAssumption DEF WriteRootKey, Written
  <2>7. CASE CloseFails(p)
    BY <2>7, BoundsAssumption DEF CloseFails, Written, AfterFailure
  <2>8. CASE UndoRootCert(p)
    BY <2>8, BoundsAssumption DEF UndoRootCert
  <2>9. CASE UndoRootKey(p)
    BY <2>9, BoundsAssumption DEF UndoRootKey
  <2>10. CASE CallFails(p) /\ pc[p] \in RootgenSteps
    BY <2>10, BoundsAssumption DEF CallFails, Fails, AfterFailure, Undoing
  <2>11. CASE Killed(p) /\ pc[p] \in RootgenSteps
    BY <2>11, BoundsAssumption DEF Killed
  <2>12. CASE pc[p] \in RootgenSteps /\ (Provision(p) \/ Evict(p) \/ Certgen(p))
    BY <2>12 DEF Provision, StartProvision, Starts, OpenSigner, CreatePrimary,
     Persist, ReadBack, ReadPublic, CreatePublic, WritePublic, Evict, StartEvict,
        FindKey, EvictKey,
     Certgen, StartCertgen, LoadRootCert, LoadKeys,
     ReadManifest, CreateCert, WriteCert, WriteTemp, Rename, RemoveOld
  <2> QED BY <1>1, <2>1, <2>2, <2>3, <2>4, <2>5, <2>6, <2>7, <2>8, <2>9, <2>10,
     <2>11, <2>12 DEF Run, Rootgen
<1>2. CASE OperatorDeletes
  <2>1. \A p \in Runs : pc[p] \notin RootgenSteps
    BY <1>2 DEF OperatorDeletes, Quiet, Running, Steps
  <2>2. /\ rootCert' \in {rootCert, Absent} /\ rootKey' \in {rootKey, Absent}
        /\ UNCHANGED <<pc, ca>>
    BY <1>2 DEF OperatorDeletes, rootFiles, locals
  <2> QED  BY <2>1, <2>2 DEF RootFilesOwned, RootgenSteps, Absent, Created, Whole, Runs
<1>3. ASSUME NEW c \in Cameras, ClearTPM(c) PROVE RootFilesOwned'
  BY <1>3 DEF ClearTPM, RootFilesOwned, rootFiles, locals, Whole, Created
<1>4. CASE UNCHANGED vars
  BY <1>4 DEF vars, RootFilesOwned, rootFiles, locals, Whole, Created
<1> QED  BY <1>1, <1>2, <1>3, <1>4 DEF Next
-----------------------------------------------------------------------------
(* The cameras' files and the manifest.                                     *)

Saved(n) == n \in withdrawn \/ (camera[n] \in Cameras /\ cameraCert[camera[n]].data = n)
HasCert == {"write_temp", "rename", "remove_old", "rename_again"}
HasManifest == {"create_cert", "write_cert"} \cup HasCert
HasTemp == {"rename", "remove_old", "rename_again", "killed"}

CameraFilesOwned ==
    /\ \A c \in Cameras : cameraCert[c].data \in {0, cameraCert[c].by}
    /\ \A p \in Runs :
         /\ pc[p] = "write_public" => cameraPublic[camera[p]] = Created(p)
         /\ pc[p] = "write_cert" => cameraCert[camera[p]] = Created(p)
         /\ pc[p] \in HasCert => cameraCert[camera[p]] = [by |-> p, data |-> p]
         /\ p \in temps => pc[p] \in HasTemp

(* A run whose certificate is in the manifest, or in what some certgen has  *)
(* read of it, has ended well and its certificate was saved.               *)
Registered(n) == pc[n] = "ok" /\ Saved(n)
ManifestEntries ==
    /\ \A n \in manifest : Registered(n)
    /\ \A p \in Runs : pc[p] \in HasManifest => \A n \in seen[p] : Registered(n)


(* A run that is about to write a camera's files is about a camera.         *)
LEMMA WritersCamera ==
    ASSUME TypeOK, NEW p \in Runs,
           pc[p] \in HasCert \cup
               {"create_public", "write_public", "create_cert", "write_cert"}
    PROVE  camera[p] \in Cameras
BY DEF TypeOK, HasCert, Steps, RootgenSteps, ProvisionSteps, CertgenSteps

(* The steps that create or write a file of a camera.                       *)
CreatesAFile(p) ==
    \/ (CreatePublic(p) \/ CreateCert(p)) /\ ~Fails(p)
    \/ WritePublic(p) \/ WriteCert(p)

(* Every other step leaves these files alone, and leads to a label at which *)
(* a run owns one only from another such label.                            *)
LEMMA NotCreating ==
    ASSUME TypeOK, NEW p \in Runs, Run(p), ~CreatesAFile(p)
    PROVE  /\ UNCHANGED cameraFiles
           /\ pc'[p] \notin {"write_public", "write_cert"}
           /\ pc'[p] \in HasCert => pc[p] \in HasCert
           /\ temps' \ {p} = temps \ {p}
           /\ p \in temps' => pc'[p] \in HasTemp \/ (p \in temps /\ pc[p] \notin HasTemp)
<1> USE DEF TypeOK, Goto, HasCert, HasTemp, cameraFiles, registry, CreatesAFile
<1>1. CASE Rootgen(p)
  BY <1>1 DEF Rootgen, StartRootgen, Starts, CreateRootCert, CreateRootKey,
     WriteRootCert, WriteRootKey, CloseFails, UndoRootCert, UndoRootKey, Fails,
     AfterFailure
<1>2. CASE Provision(p)
  BY <1>2 DEF Provision, StartProvision, Starts, OpenSigner, CreatePrimary,
     Persist, ReadBack, ReadPublic, CreatePublic, Fails, AfterFailure
<1>3. CASE Evict(p)
  BY <1>3 DEF Evict, StartEvict, Starts, FindKey, EvictKey, Fails, AfterFailure
<1>4. CASE Certgen(p)
  BY <1>4 DEF Certgen, StartCertgen, Starts, LoadRootCert, LoadKeys,
     ReadManifest, CreateCert, WriteTemp, Rename, RemoveOld, Fails, AfterFailure
<1>5. CASE CallFails(p)
  BY <1>5 DEF CallFails, Fails, AfterFailure
<1>6. CASE Killed(p)
  BY <1>6 DEF Killed
<1> QED  BY <1>1, <1>2, <1>3, <1>4, <1>5, <1>6 DEF Run

(* Every step keeps the cameras' files owned.                               *)
LEMMA CameraOwnedNext ==
    TypeOK /\ CameraFilesOwned /\ [Next]_vars => CameraFilesOwned'
<1> SUFFICES ASSUME TypeOK, CameraFilesOwned, [Next]_vars PROVE CameraFilesOwned'
  OBVIOUS
<1> USE DEF HasCert, HasTemp
<1>1. ASSUME NEW p \in Runs, Run(p) PROVE CameraFilesOwned'
  <2>1. Moves(p)
    BY <1>1, RunMoves
  <2>2. CASE ~CreatesAFile(p)
    BY <1>1, <2>1, <2>2, NotCreating DEF Moves, Goto, TypeOK, CameraFilesOwned,
       cameraFiles, Created
  <2>3. CASE CreatePublic(p) /\ ~Fails(p)
    <3>1. cameraPublic[camera[p]] = Absent /\ camera[p] \in Cameras
      BY <2>3, WritersCamera DEF CreatePublic, CanCreate, CameraFilesOwned
    <3>2. cameraPublic' = [cameraPublic EXCEPT ![camera[p]] = Created(p)]
      BY <2>3, <3>1 DEF CreatePublic, Written, Created
    <3>3. pc' = [pc EXCEPT ![p] = "write_public"] /\ UNCHANGED <<cameraCert, camera, temps>>
      BY <2>3 DEF CreatePublic, Goto, registry, locals
    <3>4. pc[p] = "create_public"
      BY <2>3 DEF CreatePublic
    <3> QED
      BY <3>1, <3>2, <3>3, <3>4, WritersCamera DEF CameraFilesOwned, TypeOK,
         Created, Absent, Written, Runs
  <2>4. CASE WritePublic(p)
    <3>1. cameraPublic[camera[p]] = Created(p) /\ camera[p] \in Cameras
      BY <2>4, WritersCamera DEF WritePublic, CanCreate, CameraFilesOwned
    <3>2. cameraPublic' = [cameraPublic EXCEPT ![camera[p]] = Written(Created(p), p, key[p])]
      BY <2>4, <3>1 DEF WritePublic, Written, Created
    <3>3. pc' = [pc EXCEPT ![p] = "ok"] /\ UNCHANGED <<cameraCert, camera, temps>>
      BY <2>4 DEF WritePublic, Goto, registry, locals
    <3>4. pc[p] = "write_public"
      BY <2>4 DEF WritePublic
    <3>5. \A c \in Cameras : cameraCert'[c].data \in {0, cameraCert'[c].by}
      BY <3>1, <3>2, <3>3 DEF CameraFilesOwned, TypeOK, Created
    <3>6. ASSUME NEW q \in Runs, q # p
          PROVE  /\ pc'[q] = pc[q] /\ camera'[q] = camera[q]
                 /\ pc[q] \in {"write_public", "write_cert"} \cup HasCert
                        => camera[q] \in Cameras
      BY <3>3, <3>6, WritersCamera DEF TypeOK
    <3>7. ASSUME NEW q \in Runs, q # p
          PROVE  /\ pc'[q] = "write_public" => cameraPublic'[camera'[q]] = Created(q)
                 /\ pc'[q] = "write_cert" => cameraCert'[camera'[q]] = Created(q)
                 /\ pc'[q] \in HasCert => cameraCert'[camera'[q]] = [by |-> q, data |-> q]
                 /\ q \in temps' => pc'[q] \in HasTemp
      BY <3>1, <3>2, <3>3, <3>6, <3>7 DEF CameraFilesOwned, TypeOK, Created, Absent,
         Runs
    <3>8. /\ pc'[p] = "write_public" => cameraPublic'[camera'[p]] = Created(p)
          /\ pc'[p] = "write_cert" => cameraCert'[camera'[p]] = Created(p)
          /\ pc'[p] \in HasCert => cameraCert'[camera'[p]] = [by |-> p, data |-> p]
          /\ p \in temps' => pc'[p] \in HasTemp
      BY <3>1, <3>2, <3>3, <3>4 DEF CameraFilesOwned, TypeOK
    <3> QED  BY <3>5, <3>7, <3>8 DEF CameraFilesOwned, Created
  <2>5. CASE CreateCert(p) /\ ~Fails(p)
    <3>1. cameraCert[camera[p]] = Absent /\ camera[p] \in Cameras
      BY <2>5, WritersCamera DEF CreateCert, CanCreate, CameraFilesOwned
    <3>2. cameraCert' = [cameraCert EXCEPT ![camera[p]] = Created(p)]
      BY <2>5, <3>1 DEF CreateCert, Written, Created
    <3>3. pc' = [pc EXCEPT ![p] = "write_cert"] /\ UNCHANGED <<cameraPublic, camera, temps>>
      BY <2>5 DEF CreateCert, Goto, registry, locals
    <3>4. pc[p] = "create_cert"
      BY <2>5 DEF CreateCert
    <3>5. \A c \in Cameras : cameraCert'[c].data \in {0, cameraCert'[c].by}
      BY <3>1, <3>2, <3>3 DEF CameraFilesOwned, TypeOK, Created
    <3>6. ASSUME NEW q \in Runs, q # p
          PROVE  /\ pc'[q] = pc[q] /\ camera'[q] = camera[q]
                 /\ pc[q] \in {"write_public", "write_cert"} \cup HasCert
                        => camera[q] \in Cameras
      BY <3>3, <3>6, WritersCamera DEF TypeOK
    <3>7. ASSUME NEW q \in Runs, q # p
          PROVE  /\ pc'[q] = "write_public" => cameraPublic'[camera'[q]] = Created(q)
                 /\ pc'[q] = "write_cert" => cameraCert'[camera'[q]] = Created(q)
                 /\ pc'[q] \in HasCert => cameraCert'[camera'[q]] = [by |-> q, data |-> q]
                 /\ q \in temps' => pc'[q] \in HasTemp
      BY <3>1, <3>2, <3>3, <3>6, <3>7 DEF CameraFilesOwned, TypeOK, Created, Absent,
         Runs
    <3>8. /\ pc'[p] = "write_public" => cameraPublic'[camera'[p]] = Created(p)
          /\ pc'[p] = "write_cert" => cameraCert'[camera'[p]] = Created(p)
          /\ pc'[p] \in HasCert => cameraCert'[camera'[p]] = [by |-> p, data |-> p]
          /\ p \in temps' => pc'[p] \in HasTemp
      BY <3>1, <3>2, <3>3, <3>4 DEF CameraFilesOwned, TypeOK
    <3> QED  BY <3>5, <3>7, <3>8 DEF CameraFilesOwned, Created
  <2>6. CASE WriteCert(p)
    <3>1. cameraCert[camera[p]] = Created(p) /\ camera[p] \in Cameras
      BY <2>6, WritersCamera DEF WriteCert, CanCreate, CameraFilesOwned
    <3>2. cameraCert' = [cameraCert EXCEPT ![camera[p]] = [by |-> p, data |-> p]]
      BY <2>6, <3>1 DEF WriteCert, Written, Created
    <3>3. pc' = [pc EXCEPT ![p] = "write_temp"] /\ UNCHANGED <<cameraPublic, camera, temps>>
      BY <2>6 DEF WriteCert, Goto, registry, locals
    <3>4. pc[p] = "write_cert"
      BY <2>6 DEF WriteCert
    <3>5. \A c \in Cameras : cameraCert'[c].data \in {0, cameraCert'[c].by}
      BY <3>1, <3>2, <3>3 DEF CameraFilesOwned, TypeOK, Created
    <3>6. ASSUME NEW q \in Runs, q # p
          PROVE  /\ pc'[q] = pc[q] /\ camera'[q] = camera[q]
                 /\ pc[q] \in {"write_public", "write_cert"} \cup HasCert
                        => camera[q] \in Cameras
      BY <3>3, <3>6, WritersCamera DEF TypeOK
    <3>7. ASSUME NEW q \in Runs, q # p
          PROVE  /\ pc'[q] = "write_public" => cameraPublic'[camera'[q]] = Created(q)
                 /\ pc'[q] = "write_cert" => cameraCert'[camera'[q]] = Created(q)
                 /\ pc'[q] \in HasCert => cameraCert'[camera'[q]] = [by |-> q, data |-> q]
                 /\ q \in temps' => pc'[q] \in HasTemp
      BY <3>1, <3>2, <3>3, <3>6, <3>7 DEF CameraFilesOwned, TypeOK, Created, Absent,
         Runs
    <3>8. /\ pc'[p] = "write_public" => cameraPublic'[camera'[p]] = Created(p)
          /\ pc'[p] = "write_cert" => cameraCert'[camera'[p]] = Created(p)
          /\ pc'[p] \in HasCert => cameraCert'[camera'[p]] = [by |-> p, data |-> p]
          /\ p \in temps' => pc'[p] \in HasTemp
      BY <3>1, <3>2, <3>3, <3>4 DEF CameraFilesOwned, TypeOK
    <3> QED  BY <3>5, <3>7, <3>8 DEF CameraFilesOwned, Created
  <2> QED  BY <2>2, <2>3, <2>4, <2>5, <2>6 DEF CreatesAFile
<1>2. CASE OperatorDeletes
  <2>1. \A p \in Runs : pc[p] \notin {"write_public", "write_cert"} \cup HasCert
    BY <1>2 DEF OperatorDeletes, Quiet, Running, Steps, ProvisionSteps, CertgenSteps
  <2>2. /\ UNCHANGED <<pc, temps>>
        /\ \A c \in Cameras : cameraCert'[c] \in {cameraCert[c], Absent}
    BY <1>2 DEF OperatorDeletes, cameraFiles, TypeOK
  <2> QED  BY <2>1, <2>2 DEF CameraFilesOwned, Absent
<1>3. ASSUME NEW c \in Cameras, ClearTPM(c) PROVE CameraFilesOwned'
  BY <1>3 DEF ClearTPM, CameraFilesOwned, cameraFiles, locals, registry, Created
<1>4. CASE UNCHANGED vars
  BY <1>4 DEF vars, CameraFilesOwned, cameraFiles, locals, registry, Created
<1> QED  BY <1>1, <1>2, <1>3, <1>4 DEF Next

(* A certificate that is saved stays so, or is withdrawn.                   *)
LEMMA SavedStays ==
    ASSUME TypeOK, CameraFilesOwned, [Next]_vars, NEW n \in Runs, Registered(n)
    PROVE  Registered(n)' /\ ca'[n] = ca[n] /\ camera'[n] = camera[n] /\ key'[n] = key[n]
<1>1. ASSUME NEW p \in Runs, Run(p)
      PROVE  Registered(n)' /\ ca'[n] = ca[n] /\ camera'[n] = camera[n] /\ key'[n] = key[n]
  <2>1. Moves(p)
    BY <1>1, RunMoves
  <2>2. /\ p # n /\ pc'[n] = "ok" /\ withdrawn' = withdrawn
        /\ ca'[n] = ca[n] /\ camera'[n] = camera[n] /\ key'[n] = key[n]
    BY <2>1 DEF Registered, Moves, Goto, Steps, RootgenSteps, ProvisionSteps,
       CertgenSteps, EvictSteps, TypeOK, operator
  <2>3. CASE CreateCert(p) /\ ~Fails(p)
    <3>1. cameraCert[camera[p]] = Absent /\ camera[p] \in Cameras
      BY <2>3, WritersCamera DEF CreateCert, CanCreate
    <3>2. cameraCert' = [cameraCert EXCEPT ![camera[p]] = Created(p)]
      BY <2>3 DEF CreateCert
    <3> QED  BY <2>2, <3>1, <3>2 DEF Absent, Registered, Saved, TypeOK, Runs
  <2>4. CASE WriteCert(p)
    BY <2>2, <2>4 DEF WriteCert, Written, Registered, Saved, TypeOK,
       CameraFilesOwned, Created, Runs
  <2>5. CASE (CreatePublic(p) /\ ~Fails(p)) \/ WritePublic(p)
    BY <2>2, <2>5 DEF CreatePublic, WritePublic, Registered, Saved
  <2>6. CASE ~CreatesAFile(p)
    BY <1>1, <2>2, <2>6, NotCreating DEF Registered, Saved, cameraFiles
  <2> QED  BY <2>3, <2>4, <2>5, <2>6 DEF CreatesAFile
<1>2. CASE OperatorDeletes
  BY <1>2 DEF OperatorDeletes, Registered, Saved, TypeOK, cameraFiles, locals, Runs
<1>3. ASSUME NEW c \in Cameras, ClearTPM(c)
      PROVE  Registered(n)' /\ ca'[n] = ca[n] /\ camera'[n] = camera[n] /\ key'[n] = key[n]
  BY <1>3 DEF ClearTPM, Registered, Saved, cameraFiles, locals, operator
<1>4. CASE UNCHANGED vars
  BY <1>4 DEF vars, Registered, Saved, cameraFiles, locals, operator
<1> QED  BY <1>1, <1>2, <1>3, <1>4 DEF Next

(* A run changes the manifest only by reading it into its own merge, by     *)
(* renaming its merge over it, or by deleting it.                          *)
LEMMA ManifestSteps ==
    ASSUME TypeOK, NEW p \in Runs, Run(p)
    PROVE  /\ \/ UNCHANGED manifest
              \/ Rename(p)
              \/ RemoveOld(p)
           /\ pc'[p] \in HasManifest => \/ pc[p] \in HasManifest /\ UNCHANGED seen
                                        \/ pc[p] = "merge" /\ seen' = [seen EXCEPT ![p] = manifest]
<1> USE DEF TypeOK, Goto, HasCert, HasManifest, registry, locals
<1>1. CASE Rootgen(p)
  BY <1>1 DEF Rootgen, StartRootgen, Starts, CreateRootCert, CreateRootKey,
     WriteRootCert, WriteRootKey, CloseFails, UndoRootCert, UndoRootKey, Fails,
     AfterFailure
<1>2. CASE Provision(p)
  BY <1>2 DEF Provision, StartProvision, Starts, OpenSigner, CreatePrimary,
     Persist, ReadBack, ReadPublic, CreatePublic, WritePublic, Fails, AfterFailure
<1>3. CASE Evict(p)
  BY <1>3 DEF Evict, StartEvict, Starts, FindKey, EvictKey, Fails, AfterFailure
<1>4. CASE Certgen(p)
  BY <1>4 DEF Certgen, StartCertgen, Starts, LoadRootCert, LoadKeys, ReadManifest,
     CreateCert, WriteCert, WriteTemp, WhileWriting, RemoveOld, Fails, AfterFailure,
        Rename
<1>5. CASE CallFails(p)
  BY <1>5 DEF CallFails, Fails, AfterFailure
<1>6. CASE Killed(p)
  BY <1>6 DEF Killed
<1> QED  BY <1>1, <1>2, <1>3, <1>4, <1>5, <1>6 DEF Run

(* Every step keeps the entries of the manifest saved.                      *)
LEMMA EntriesNext ==
    TypeOK /\ CameraFilesOwned /\ ManifestEntries /\ [Next]_vars => ManifestEntries'
<1> SUFFICES ASSUME TypeOK, CameraFilesOwned, ManifestEntries, [Next]_vars
             PROVE  ManifestEntries'
  OBVIOUS
<1>0. \A n \in Runs : Registered(n) => Registered(n)'
  BY SavedStays
<1>1. ASSUME NEW p \in Runs, Run(p) PROVE ManifestEntries'
  <2>1. Moves(p)
    BY <1>1, RunMoves
  <2>2. \A q \in Runs : q # p => pc'[q] = pc[q] /\ seen'[q] = seen[q]
    BY <2>1 DEF Moves, Goto, TypeOK
  <2>3. \A q \in Runs : pc'[q] \in HasManifest => \A n \in seen'[q] : Registered(n)'
    BY <1>0, <1>1, <2>2, ManifestSteps DEF ManifestEntries, TypeOK
  <2>4. CASE Rename(p)
    <3>1. pc'[p] = "ok" /\ Registered(p)'
      <4>0. pc[p] \in HasCert
        BY <2>4 DEF Rename, HasCert
      <4>1. camera[p] \in Cameras
        BY <4>0, WritersCamera
      <4>3. cameraCert[camera[p]] = [by |-> p, data |-> p]
        BY <4>0 DEF CameraFilesOwned, Created
      <4>2. pc'[p] = "ok" /\ UNCHANGED <<camera, cameraCert>>
        BY <2>4 DEF Rename, Goto, TypeOK, cameraFiles, locals
      <4> QED  BY <4>1, <4>2, <4>3 DEF Registered, Saved
    <3>2. \A n \in seen[p] : Registered(n)'
      BY <1>0, <2>4 DEF Rename, ManifestEntries, HasManifest, HasCert, TypeOK
    <3> QED  BY <2>3, <2>4, <3>1, <3>2 DEF Rename, Merged, ManifestEntries
  <2>5. CASE RemoveOld(p)
    BY <2>3, <2>5 DEF RemoveOld, NoManifest, ManifestEntries
  <2>6. CASE UNCHANGED manifest
    BY <1>0, <2>3, <2>6 DEF ManifestEntries, TypeOK
  <2> QED  BY <1>1, <2>4, <2>5, <2>6, ManifestSteps
<1>2. CASE OperatorDeletes
  BY <1>0, <1>2 DEF OperatorDeletes, ManifestEntries, NoManifest, TypeOK, locals
<1>3. ASSUME NEW c \in Cameras, ClearTPM(c) PROVE ManifestEntries'
  BY <1>0, <1>3 DEF ClearTPM, ManifestEntries, locals, registry, TypeOK
<1>4. CASE UNCHANGED vars
  BY <1>0, <1>4 DEF vars, ManifestEntries, locals, registry, TypeOK
<1> QED  BY <1>1, <1>2, <1>3, <1>4 DEF Next

-----------------------------------------------------------------------------
(* The CA a camera is registered with.                                      *)

(* The CA a certgen has loaded with its key is the one at its path, unless   *)
(* the rootgen that made it has failed: it may take a complete CA back.      *)
HasKeys == {"merge"} \cup HasManifest
Failing == Undoing \cup {"failed", "killed"}
InPlaceOf(p) == pc[ca[p]] = "ok" /\ rootCert.data = ca[p]
LoadedCA ==
    \A p \in Runs :
        /\ pc[p] = "load_keys" =>
             ca[p] \in Runs /\ (rootCert.data = ca[p] \/ pc[ca[p]] \in Failing)
        /\ pc[p] \in HasKeys =>
             ca[p] \in Runs /\ (InPlaceOf(p) \/ pc[ca[p]] \in Failing)

(* A run gets to a label behind load_root only by steps of certgen.         *)
LEMMA LoadingSteps ==
    ASSUME TypeOK, NEW p \in Runs, Run(p)
    PROVE  /\ pc'[p] = "load_keys" => /\ Whole(rootCert) /\ ca'[p] = rootCert.data
                                      /\ UNCHANGED rootFiles
           /\ pc'[p] \in HasKeys => /\ ca'[p] = ca[p]
                                    /\ \/ pc[p] \in HasKeys
                                       \/ pc[p] = "load_keys" /\ LoadsKeys(p)
                                    /\ UNCHANGED rootFiles
<1> USE DEF TypeOK, Goto, HasCert, HasManifest, HasKeys, rootFiles, locals
<1>1. CASE Rootgen(p)
  BY <1>1 DEF Rootgen, StartRootgen, Starts, CreateRootCert, CreateRootKey,
     WriteRootCert, WriteRootKey, CloseFails, UndoRootCert, UndoRootKey, Fails,
     AfterFailure
<1>2. CASE Provision(p)
  BY <1>2 DEF Provision, StartProvision, Starts, OpenSigner, CreatePrimary,
     Persist, ReadBack, ReadPublic, CreatePublic, WritePublic, Fails, AfterFailure
<1>3. CASE Evict(p)
  BY <1>3 DEF Evict, StartEvict, Starts, FindKey, EvictKey, Fails, AfterFailure
<1>4. CASE Certgen(p)
  BY <1>4 DEF Certgen, StartCertgen, Starts, LoadRootCert, LoadKeys, ReadManifest,
     CreateCert, WriteCert, WriteTemp, RemoveOld, Fails, AfterFailure, Rename
<1>5. CASE CallFails(p)
  BY <1>5 DEF CallFails, Fails, AfterFailure
<1>6. CASE Killed(p)
  BY <1>6 DEF Killed
<1> QED  BY <1>1, <1>2, <1>3, <1>4, <1>5, <1>6 DEF Run

(* A complete CA certificate goes by its own run's rollback alone.          *)
LEMMA RootCertGone ==
    ASSUME TypeOK, RootFilesOwned, NEW p \in Runs, Run(p), Whole(rootCert),
           rootCert' # rootCert
    PROVE  /\ p = rootCert.data /\ p = rootCert.by
           /\ pc[p] \in {"undo_both", "undo_cert"} /\ rootCert' = Absent
<1>1. CASE pc[p] \notin RootgenSteps /\ ~Rootgen(p)
  BY <1>1, NotRootgen DEF rootFiles
<1>2. CASE pc[p] \in RootgenSteps /\ (CallFails(p) \/ Killed(p))
  BY <1>2 DEF CallFails, Killed, Fails, rootFiles
<1>3. CASE Rootgen(p)
  BY <1>3, BoundsAssumption DEF Rootgen, StartRootgen, Starts, CreateRootCert,
     CreateRootKey, WriteRootCert,
     WriteRootKey, CloseFails, UndoRootCert, UndoRootKey, CanCreate, Fails, rootFiles,
        RootFilesOwned,
     RootgenSteps, Whole, Created, Absent, TypeOK, Runs, Goto, Undoing
<1>4. CASE pc[p] \in RootgenSteps /\ (Provision(p) \/ Evict(p) \/ Certgen(p))
  BY <1>4 DEF Provision, StartProvision, Starts, OpenSigner, CreatePrimary, Persist,
     ReadBack, ReadPublic, CreatePublic, WritePublic, Evict, StartEvict, FindKey,
     EvictKey, Certgen, StartCertgen, LoadRootCert, LoadKeys, ReadManifest,
     CreateCert, WriteCert, WriteTemp, Rename, RemoveOld, RootgenSteps
<1> QED  BY <1>1, <1>2, <1>3, <1>4 DEF Run

(* A rootgen that fails does not end well after all.                        *)
LEMMA FailingStays ==
    ASSUME TypeOK, NEW p \in Runs, Run(p), pc[p] \in Undoing
    PROVE  pc'[p] \in Failing
<1> USE DEF Goto, TypeOK, Undoing, Failing
<1>1. CASE Rootgen(p)
  BY <1>1 DEF Rootgen, StartRootgen, Starts, CreateRootCert, CreateRootKey,
     WriteRootCert, WriteRootKey, CloseFails, UndoRootCert, UndoRootKey
<1>2. CASE CallFails(p) \/ Killed(p)
  BY <1>2 DEF CallFails, Killed
<1>3. CASE Provision(p) \/ Evict(p) \/ Certgen(p)
  BY <1>3 DEF Provision, StartProvision, Starts, OpenSigner, CreatePrimary, Persist,
     ReadBack, ReadPublic, CreatePublic, WritePublic, Evict, StartEvict, FindKey,
     EvictKey, Certgen, StartCertgen, LoadRootCert, LoadKeys, ReadManifest,
     CreateCert, WriteCert, WriteTemp, Rename, RemoveOld
<1> QED  BY <1>1, <1>2, <1>3 DEF Run

(* Every step keeps the loaded CA the one at its path, or its maker failing. *)
LEMMA LoadedNext == TypeOK /\ RootFilesOwned /\ LoadedCA /\ [Next]_vars => LoadedCA'
<1> SUFFICES ASSUME TypeOK, RootFilesOwned, LoadedCA, [Next]_vars
             PROVE  LoadedCA'
  OBVIOUS
<1>1. ASSUME NEW p \in Runs, Run(p) PROVE LoadedCA'
  <2>1. Moves(p)
    BY <1>1, RunMoves
  <2>2. \A q \in Runs : q # p => pc'[q] = pc[q] /\ ca'[q] = ca[q]
    BY <2>1 DEF Moves, Goto, TypeOK
  <2>3. \A q \in Runs : pc[q] = "ok" => pc'[q] = "ok"
    BY <2>1, <2>2 DEF Moves, Steps, RootgenSteps, ProvisionSteps, CertgenSteps,
       EvictSteps
  <2>4. \A q \in Runs : rootCert.data = q =>
            rootCert'.data = q \/ (q = p /\ pc[q] \in Undoing)
    BY <1>1, RootCertGone DEF Whole, Runs, Undoing
  <2>5. \A q \in Runs : pc[q] \in Failing => pc'[q] \in Failing
    BY <1>1, <2>1, <2>2, FailingStays
       DEF Failing, Undoing, Moves, Steps, RootgenSteps, ProvisionSteps, CertgenSteps,
           EvictSteps
  <2>6. \A q \in Runs : rootCert.data = q =>
            rootCert'.data = q \/ pc'[q] \in Failing
    BY <2>4, <2>5 DEF Failing
  <2>7. \A q \in Runs : rootCert.data = q /\ pc[q] = "ok" => rootCert'.data = q
    BY <2>4 DEF Undoing
  <2>8. ASSUME NEW q \in Runs, pc'[q] = "load_keys"
        PROVE  ca'[q] \in Runs /\ (rootCert'.data = ca'[q] \/ pc'[ca'[q]] \in Failing)
    <3>1. CASE q = p
      <4>1. Whole(rootCert) /\ ca'[p] = rootCert.data /\ UNCHANGED rootCert
        BY <1>1, <2>8, <3>1, LoadingSteps DEF rootFiles
      <4>2. rootCert.data \in 0..MaxRuns
        BY DEF TypeOK
      <4> QED  BY <3>1, <4>1, <4>2, BoundsAssumption DEF Whole, Runs
    <3>2. CASE q # p
      BY <2>2, <2>5, <2>6, <2>8, <3>2 DEF LoadedCA
    <3> QED  BY <3>1, <3>2
  <2>9. ASSUME NEW q \in Runs, pc'[q] \in HasKeys
        PROVE  ca'[q] \in Runs /\ (InPlaceOf(q)' \/ pc'[ca'[q]] \in Failing)
    <3>1. ca'[q] = ca[q] /\ ca[q] \in Runs
          /\ (InPlaceOf(q) \/ pc[ca[q]] \in Failing)
      <4>1. CASE q # p
        BY <2>2, <2>9, <4>1 DEF LoadedCA
      <4>2. CASE q = p /\ pc[p] \in HasKeys
        BY <1>1, <2>9, <4>2, LoadingSteps DEF LoadedCA
      <4>3. CASE q = p /\ pc[p] = "load_keys" /\ LoadsKeys(p)
        <5>1. ca[p] \in Runs /\ (rootCert.data = ca[p] \/ pc[ca[p]] \in Failing)
          BY <4>3 DEF LoadedCA
        <5>2. pc[ca[p]] = "ok" \/ pc[ca[p]] \in Failing
          BY <4>3, <5>1 DEF LoadsKeys, RootFilesOwned, Whole, Failing, Undoing
        <5>3. ca'[p] = ca[p]
          BY <1>1, <2>9, <4>3, LoadingSteps
        <5> QED  BY <4>3, <5>1, <5>2, <5>3 DEF InPlaceOf
      <4> QED  BY <1>1, <2>9, <4>1, <4>2, <4>3, LoadingSteps
    <3> QED  BY <2>3, <2>5, <2>7, <3>1 DEF InPlaceOf
  <2> QED  BY <2>8, <2>9 DEF LoadedCA
<1>2. CASE OperatorDeletes
  <2>1. /\ \A p \in Runs : pc[p] \notin HasKeys \cup {"load_keys"}
        /\ UNCHANGED pc
    BY <1>2 DEF OperatorDeletes, Quiet, Running, Steps, CertgenSteps, HasKeys,
       HasManifest, HasCert
  <2> QED  BY <2>1 DEF LoadedCA
<1>3. ASSUME NEW c \in Cameras, ClearTPM(c) PROVE LoadedCA'
  BY <1>3 DEF ClearTPM, LoadedCA, InPlaceOf, rootFiles, locals
<1>4. CASE UNCHANGED vars
  BY <1>4 DEF vars, LoadedCA, InPlaceOf, rootFiles, locals
<1> QED  BY <1>1, <1>2, <1>3, <1>4 DEF Next

-----------------------------------------------------------------------------
(* The keys.                                                                *)

(* What a TPM holds is made from its owner seed, and so is the key that a    *)
(* provision is about to persist or to export.                             *)
HasKey == {"persist", "create_public", "write_public"}
KeysOfSeed ==
    /\ \A c \in Cameras : tpmKey[c] \in {0, seed[c]}
    /\ \A p \in Runs : pc[p] \in HasKey => key[p] = seed[camera[p]]

(* Every step keeps it.                                                     *)
LEMMA KeysNext == TypeOK /\ KeysOfSeed /\ [Next]_vars => KeysOfSeed'
<1> SUFFICES ASSUME TypeOK, KeysOfSeed, [Next]_vars PROVE KeysOfSeed'
  OBVIOUS
<1>1. ASSUME NEW p \in Runs, Run(p) PROVE KeysOfSeed'
  <2>1. Moves(p)
    BY <1>1, RunMoves
  <2>2. \A q \in Runs : q # p => /\ pc'[q] = pc[q] /\ key'[q] = key[q]
                                 /\ pc[q] \in HasKey => camera'[q] = camera[q]
    BY <2>1 DEF Moves, Goto, TypeOK
  <2>3. pc[p] \in ProvisionSteps \cup EvictSteps => camera[p] \in Cameras
    BY DEF TypeOK, Steps, RootgenSteps, ProvisionSteps, EvictSteps
  <2>4. CASE UNCHANGED tpms /\ pc'[p] \notin HasKey
    BY <2>2, <2>4 DEF KeysOfSeed, tpms
  <2>5. CASE CreatePrimary(p)
    BY <2>2, <2>5 DEF CreatePrimary, KeysOfSeed, HasKey, tpms, TypeOK
  <2>6. CASE Persist(p)
    BY <2>2, <2>3, <2>6
       DEF Persist, Fails, AfterFailure, KeyOf, Goto, KeysOfSeed, HasKey, ProvisionSteps,
           tpms, TypeOK
  <2>7. CASE ReadPublic(p)
    BY <2>2, <2>3, <2>7
       DEF ReadPublic, Fails, AfterFailure, KeyOf, Goto, KeysOfSeed, HasKey,
           ProvisionSteps, tpms, TypeOK
  <2>8. CASE CreatePublic(p)
    BY <2>2, <2>8
       DEF CreatePublic, Fails, AfterFailure, Goto, KeysOfSeed, HasKey, locals, tpms,
           TypeOK
  <2>9. CASE EvictKey(p)
    BY <2>2, <2>3, <2>9
       DEF EvictKey, Fails, AfterFailure, KeyOf, Goto, KeysOfSeed, HasKey, EvictSteps,
           tpms, TypeOK
  <2>10. CASE \/ \E c \in Cameras : StartProvision(p, c)
              \/ OpenSigner(p) \/ ReadBack(p) \/ WritePublic(p)
    BY <2>4, <2>10 DEF StartProvision, Starts, OpenSigner, ReadBack, WritePublic, Fails,
       AfterFailure, Goto, HasKey, tpms, TypeOK
  <2>11. CASE Rootgen(p)
    BY <2>4, <2>11 DEF Rootgen, StartRootgen, Starts, CreateRootCert, CreateRootKey,
       WriteRootCert, WriteRootKey, CloseFails, UndoRootCert, UndoRootKey, Fails,
       AfterFailure, Goto, HasKey, TypeOK
  <2>12. CASE Certgen(p)
    BY <2>4, <2>12 DEF Certgen, StartCertgen, Starts, LoadRootCert, LoadKeys,
       ReadManifest, CreateCert, WriteCert, WriteTemp, Rename, RemoveOld, Fails,
       AfterFailure, Goto, HasKey, TypeOK
  <2>13. CASE (\E c \in Cameras : StartEvict(p, c)) \/ FindKey(p)
    BY <2>4, <2>13 DEF StartEvict, Starts, FindKey, Fails, AfterFailure, Goto, HasKey,
       tpms, TypeOK
  <2>14. CASE CallFails(p) \/ Killed(p)
    BY <2>4, <2>14 DEF CallFails, Killed, Fails, AfterFailure, Goto, HasKey, TypeOK
  <2> QED
    BY <1>1, <2>5, <2>6, <2>7, <2>8, <2>9, <2>10, <2>11, <2>12, <2>13, <2>14
       DEF Run, Provision, Evict
<1>2. CASE OperatorDeletes
  BY <1>2 DEF OperatorDeletes, KeysOfSeed, locals, tpms
<1>3. ASSUME NEW c \in Cameras, ClearTPM(c) PROVE KeysOfSeed'
  BY <1>3 DEF ClearTPM, Quiet, Running, Steps, ProvisionSteps, HasKey, KeysOfSeed, TypeOK
<1>4. CASE UNCHANGED vars
  BY <1>4 DEF vars, KeysOfSeed, locals, tpms
<1> QED  BY <1>1, <1>2, <1>3, <1>4 DEF Next

-----------------------------------------------------------------------------
(* The theorems.                                                            *)

Inv ==
    /\ TypeOK /\ RootFilesOwned /\ CameraFilesOwned /\ ManifestEntries
    /\ LoadedCA /\ KeysOfSeed

(* The invariant holds initially.                                           *)
LEMMA InitInv == Init => Inv
<1> SUFFICES ASSUME Init PROVE Inv
  OBVIOUS
<1>1. TypeOK
  BY InitType
<1>2. RootFilesOwned
  BY DEF Init, RootFilesOwned, Absent, Whole, RootgenSteps, Runs
<1>3. CameraFilesOwned
  BY DEF Init, CameraFilesOwned, Absent, HasCert, HasTemp
<1>4. ManifestEntries
  BY DEF Init, ManifestEntries, NoManifest
<1>5. LoadedCA
  BY DEF Init, LoadedCA, HasKeys, HasManifest, HasCert
<1>6. KeysOfSeed
  BY DEF Init, KeysOfSeed, HasKey
<1> QED  BY <1>1, <1>2, <1>3, <1>4, <1>5, <1>6 DEF Inv

(* Every step keeps it.                                                     *)
LEMMA NextInv == Inv /\ [Next]_vars => Inv'
BY NextType, RootOwnedNext, CameraOwnedNext, EntriesNext, LoadedNext, KeysNext DEF Inv

(* It is an invariant.                                                      *)
LEMMA Invariance == Spec => []Inv
BY InitInv, NextInv, PTL DEF Spec

(* The types, and with them that no reader ever finds a torn manifest       *)
(* (writeFileReplace, trust_store.go:369-406).                             *)
THEOREM WellTyped == Spec => []TypeOK
BY Invariance, PTL DEF Inv

(* A complete CA certificate and a complete CA key belong together          *)
(* (writeFilesOnce, pki.go:584).                                           *)
THEOREM RootFilesAlwaysMatch == Spec => []RootFilesMatch
<1>1. Inv => RootFilesMatch
  BY DEF Inv, TypeOK, RootFilesOwned, RootFilesMatch, Whole
<1> QED  BY <1>1, Invariance, PTL

(* Every certificate the manifest names was saved first                     *)
(* (SaveCameraCertificateBundle, trust_store.go:102-108).                  *)
THEOREM CertificateBeforeEntry == Spec => []RegisteredCertificateSaved
<1>1. Inv => RegisteredCertificateSaved
  BY DEF Inv, ManifestEntries, Registered, Saved, RegisteredCertificateSaved
<1> QED  BY <1>1, Invariance, PTL

(* No run takes a complete file of the CA, but for its own rollback.        *)
LEMMA RootFilesKept ==
    ASSUME Inv, NEW p \in Runs, Run(p)
    PROVE  Kept(rootCert, rootCert') /\ Kept(rootKey, rootKey')
<1>1. Kept(rootCert, rootCert')
  BY RootCertGone DEF Inv, Kept, Undoing
<1>2. ASSUME Whole(rootKey) PROVE rootKey' = rootKey \/ pc[rootKey.by] \in Undoing
  <2>1. CASE pc[p] \notin RootgenSteps /\ ~Rootgen(p)
    BY <2>1, NotRootgen DEF rootFiles, Inv
  <2>2. CASE CallFails(p) \/ Killed(p)
    BY <2>2 DEF CallFails, Killed, Fails, rootFiles
  <2>3. CASE Rootgen(p)
    BY <1>2, <2>3 DEF Inv, Rootgen, StartRootgen, Starts, CreateRootCert, CreateRootKey,
       WriteRootCert, WriteRootKey, CloseFails, UndoRootCert, UndoRootKey, CanCreate,
       Fails, rootFiles, RootFilesOwned, RootgenSteps, Whole, Created, Absent, Undoing
  <2>4. CASE pc[p] \in RootgenSteps /\ (Provision(p) \/ Evict(p) \/ Certgen(p))
    BY <2>4 DEF Provision, StartProvision, Starts, OpenSigner, CreatePrimary, Persist,
       ReadBack, ReadPublic, CreatePublic, WritePublic, Evict, StartEvict, FindKey,
       EvictKey, Certgen, StartCertgen, LoadRootCert, LoadKeys, ReadManifest,
       CreateCert, WriteCert, WriteTemp, Rename, RemoveOld, RootgenSteps
  <2> QED  BY <2>1, <2>2, <2>3, <2>4, <1>2 DEF Run
<1> QED  BY <1>1, <1>2 DEF Kept

(* No run takes a complete file of a camera.                                *)
LEMMA CameraFilesKept ==
    ASSUME Inv, NEW p \in Runs, Run(p), NEW c \in Cameras
    PROVE  Kept(cameraPublic[c], cameraPublic'[c]) /\ Kept(cameraCert[c], cameraCert'[c])
<1>1. CASE ~CreatesAFile(p)
  BY <1>1, NotCreating DEF Inv, Kept, cameraFiles
<1>2. CASE CreatePublic(p) /\ ~Fails(p)
  BY <1>2 DEF Inv, TypeOK, CreatePublic, CanCreate, Kept, Whole, Absent
<1>3. CASE WritePublic(p)
  <2>1. ~Whole(cameraPublic[camera[p]])
    <3>1. cameraPublic[camera[p]] = Created(p)
      BY <1>3 DEF Inv, WritePublic, CameraFilesOwned
    <3> QED  BY <3>1 DEF Whole, Created
  <2>2. cameraCert' = cameraCert /\ (c # camera[p] => cameraPublic'[c] = cameraPublic[c])
    BY <1>3 DEF Inv, TypeOK, WritePublic
  <2> QED  BY <2>1, <2>2 DEF Kept
<1>4. CASE CreateCert(p) /\ ~Fails(p)
  BY <1>4 DEF Inv, TypeOK, CreateCert, CanCreate, Kept, Whole, Absent
<1>5. CASE WriteCert(p)
  <2>1. ~Whole(cameraCert[camera[p]])
    <3>1. cameraCert[camera[p]] = Created(p)
      BY <1>5 DEF Inv, WriteCert, CameraFilesOwned
    <3> QED  BY <3>1 DEF Whole, Created
  <2>2. cameraPublic' = cameraPublic /\ (c # camera[p] => cameraCert'[c] = cameraCert[c])
    BY <1>5 DEF Inv, TypeOK, WriteCert
  <2> QED  BY <2>1, <2>2 DEF Kept
<1> QED  BY <1>1, <1>2, <1>3, <1>4, <1>5 DEF CreatesAFile

(* No tool changes or deletes a complete file of another run.               *)
THEOREM NeverOverwritten == Spec => NothingOverwritten
<1> DEFINE Keeps == /\ Kept(rootCert, rootCert') /\ Kept(rootKey, rootKey')
                    /\ \A c \in Cameras : /\ Kept(cameraPublic[c], cameraPublic'[c])
                                          /\ Kept(cameraCert[c], cameraCert'[c])
<1>1. ASSUME Inv, [Next]_vars PROVE [removals' = removals => Keeps]_vars
  <2>1. ASSUME NEW p \in Runs, Run(p) PROVE Keeps
    BY <1>1, <2>1, RootFilesKept, CameraFilesKept
  <2>2. CASE OperatorDeletes
    BY <1>1, <2>2 DEF OperatorDeletes, Inv, TypeOK
  <2>3. ASSUME NEW c \in Cameras, ClearTPM(c) PROVE Keeps
    BY <2>3 DEF ClearTPM, Kept, rootFiles, cameraFiles
  <2> QED  BY <1>1, <2>1, <2>2, <2>3 DEF Next
<1> QED  BY <1>1, Invariance, PTL DEF Spec, NothingOverwritten

(* The last step of each tool.                                              *)
LEMMA EndsWell ==
    ASSUME TypeOK, NEW p \in Runs, Run(p), pc'[p] = "ok"
    PROVE  WriteRootKey(p) \/ WritePublic(p) \/ (EvictKey(p) /\ ~Fails(p)) \/ Rename(p)
<1> USE DEF TypeOK, Goto
<1>1. CASE Rootgen(p)
  BY <1>1 DEF Rootgen, StartRootgen, Starts, CreateRootCert, CreateRootKey,
     WriteRootCert, CloseFails, UndoRootCert, UndoRootKey, Fails, AfterFailure
<1>2. CASE Provision(p)
  BY <1>2 DEF Provision, StartProvision, Starts, OpenSigner, CreatePrimary,
     Persist, ReadBack, ReadPublic, CreatePublic, Fails, AfterFailure
<1>3. CASE Evict(p)
  BY <1>3 DEF Evict, StartEvict, Starts, FindKey, EvictKey, Fails, AfterFailure
<1>4. CASE Certgen(p)
  BY <1>4 DEF Certgen, StartCertgen, Starts, LoadRootCert, LoadKeys, ReadManifest,
     CreateCert, WriteCert, WriteTemp, RemoveOld, Fails, AfterFailure
<1>5. CASE CallFails(p) \/ Killed(p)
  BY <1>5 DEF CallFails, Killed, Fails, AfterFailure
<1> QED  BY <1>1, <1>2, <1>3, <1>4, <1>5 DEF Run

(* Then its files are there.                                                *)
LEMMA DeliversWhenOk ==
    ASSUME Inv, NEW p \in Runs, Run(p), pc'[p] = "ok"
    PROVE  Delivered(p)
<1> USE DEF Inv, Delivered, RootgenSteps, ProvisionSteps, CertgenSteps
<1>1. CASE WriteRootKey(p)
  BY <1>1 DEF WriteRootKey, Written, RootFilesOwned, Created, Whole
<1>2. CASE WritePublic(p)
  <2>1. camera[p] \in Cameras
    BY <1>2, WritersCamera DEF WritePublic
  <2>2. cameraPublic[camera[p]] = Created(p)
    BY <1>2 DEF WritePublic, CameraFilesOwned
  <2>3. cameraPublic'[camera[p]].data = key[p]
    BY <1>2, <2>1, <2>2 DEF WritePublic, Written, Created, TypeOK
  <2>4. tpmKey'[camera[p]] \in {0, key[p]}
    BY <1>2, <2>1 DEF WritePublic, KeysOfSeed, HasKey, tpms
  <2> QED  BY <1>2, <2>3, <2>4 DEF WritePublic
<1>3. CASE EvictKey(p) /\ ~Fails(p)
  <2>1. camera[p] \in Cameras
    BY <1>3 DEF EvictKey, TypeOK, Steps, EvictSteps
  <2> QED  BY <1>3, <2>1 DEF EvictKey, TypeOK
<1>4. CASE Rename(p)
  <2>1. camera[p] \in Cameras /\ pc[p] \in HasCert
    BY <1>4, WritersCamera DEF Rename, HasCert
  <2>2. cameraCert[camera[p]] = [by |-> p, data |-> p]
    BY <2>1 DEF CameraFilesOwned, Created
  <2>3. cameraCert'[camera[p]].data = p /\ p \in manifest'
    BY <1>4, <2>2 DEF Rename, Merged, cameraFiles
  <2> QED  BY <1>4, <2>3 DEF Rename
<1> QED  BY <1>1, <1>2, <1>3, <1>4, EndsWell

(* A tool that reports success has delivered all its files, one that        *)
(* reports an error has left none behind.                                  *)
THEOREM OutcomeAlwaysTrue == Spec => OutcomeTrue
<1> DEFINE Told == \A p \in Runs : Running(p) =>
                     /\ pc'[p] = "ok" => Delivered(p)
                     /\ pc'[p] = "failed" => CleanedUp(p)
<1>1. ASSUME Inv, Inv', [Next]_vars PROVE [Told]_vars
  <2>1. ASSUME NEW p \in Runs, pc'[p] = "failed" PROVE CleanedUp(p)
    BY <1>1, <2>1 DEF Inv, CleanedUp, RootFilesOwned, CameraFilesOwned, HasTemp,
       ManifestEntries, Registered
  <2>2. ASSUME NEW p \in Runs, Running(p), pc'[p] = "ok", pc' # pc PROVE Delivered(p)
    <3>1. ASSUME NEW q \in Runs, Run(q) PROVE Delivered(p)
      <4>1. q = p
        BY <1>1, <2>2, <3>1, RunMoves DEF Inv, TypeOK, Moves, Goto, Running, Steps,
           RootgenSteps, ProvisionSteps, CertgenSteps, EvictSteps
      <4> QED  BY <1>1, <2>2, <3>1, <4>1, DeliversWhenOk
    <3>2. CASE OperatorDeletes \/ \E c \in Cameras : ClearTPM(c)
      BY <2>2, <3>2 DEF OperatorDeletes, ClearTPM
    <3> QED  BY <1>1, <2>2, <3>1, <3>2 DEF Next, vars
  <2>3. ASSUME NEW p \in Runs, Running(p), pc' = pc PROVE pc'[p] # "ok"
    BY <2>3 DEF Running, Steps, RootgenSteps, ProvisionSteps, CertgenSteps, EvictSteps
  <2> QED  BY <2>1, <2>2, <2>3
<1>2. Spec => [][Told]_vars
  BY <1>1, Invariance, PTL DEF Spec
<1> QED  BY <1>2 DEF OutcomeTrue

(* Apart from the exceptions named, no step of a tool takes a camera out of  *)
(* the trust store.                                                        *)
LEMMA RunKeepsAccepted ==
    ASSUME Inv, Inv', [Next]_vars, NEW p \in Runs, Run(p), TrustStoreLoads,
           ~Raced, ~Fallback, ~TakenBack, ~Orphaned
    PROVE  AcceptedUIDs \subseteq AcceptedUIDs'
<1>1. /\ Whole(rootCert) /\ manifest # {} /\ manifest \subseteq Runs
      /\ \A n \in manifest : ca[n] = rootCert.data /\ Registered(n)
  BY DEF Inv, TrustStoreLoads, NoManifest, ManifestEntries, TypeOK
<1>2. UNCHANGED rootCert
  <2>1. SUFFICES ASSUME rootCert' # rootCert PROVE FALSE
    OBVIOUS
  <2>2. p = rootCert.data /\ pc[p] \in Undoing /\ rootCert' = Absent
    BY <1>1, <2>1, RootCertGone DEF Inv, Undoing
  <2>3. pc[p] # "undo_cert" /\ pc[p] # "undo_key"
    BY <1>1, <2>1, <2>2, RootCertGone DEF Inv, RootFilesOwned, Whole, Created
  <2> QED  BY <2>2, <2>3 DEF TakenBack, Undoing
<1>3. \A n \in manifest : ca'[n] = ca[n] /\ UID(n)' = UID(n)
  BY <1>1, SavedStays DEF Inv, UID
<1>4. /\ manifest' # {} /\ manifest' \subseteq Runs
      /\ \A n \in manifest' : ca'[n] = rootCert.data
      /\ \A n \in manifest : \E m \in manifest' : UID(m)' = UID(n)
  <2>1. CASE UNCHANGED manifest
    BY <1>1, <1>3, <2>1
  <2>2. CASE Rename(p)
    <3>0. Renames(p)
      BY <2>2 DEF Rename, Renames, Goto, Inv, TypeOK
    <3>1. manifest' = Merged(manifest, p) /\ UNCHANGED <<ca, camera, key>>
      BY <2>2, <3>0 DEF Rename, Raced, locals
    <3>2. ca[p] = rootCert.data
      BY <2>2, <3>0
         DEF Rename, Orphaned, Inv, LoadedCA, InPlaceOf, Failing, Undoing, HasKeys,
             HasManifest, HasCert
    <3> QED  BY <1>1, <3>1, <3>2 DEF Merged, UID
  <2>3. CASE RemoveOld(p)
    BY <2>3 DEF RemoveOld, Fallback
  <2> QED  BY <2>1, <2>2, <2>3, ManifestSteps DEF Inv
<1>5. TrustStoreLoads'
  <2>1. manifest' # {0}
    BY <1>4 DEF Runs
  <2> QED  BY <1>1, <1>2, <1>4, <2>1 DEF TrustStoreLoads, NoManifest, Torn, Whole
<1>6. Accepted = manifest /\ Accepted' = manifest'
  BY <1>1, <1>2, <1>4, <1>5 DEF Accepted, ChainVerifies, TrustStoreLoads, Whole
<1> QED  BY <1>4, <1>6 DEF AcceptedUIDs

(* A camera that is accepted stays accepted.                                *)
THEOREM AcceptedStayAccepted == Spec => RegisteredStayAccepted
<1> DEFINE Stays == \/ AcceptedUIDs \subseteq AcceptedUIDs'
                    \/ Raced \/ Fallback \/ TakenBack \/ Orphaned
<1>1. ASSUME Inv, Inv', [Next]_vars PROVE [removals' = removals => Stays]_vars
  <2>1. CASE ~TrustStoreLoads
    BY <2>1 DEF AcceptedUIDs, Accepted
  <2>2. ASSUME NEW p \in Runs, Run(p), TrustStoreLoads PROVE Stays
    BY <1>1, <2>2, RunKeepsAccepted
  <2>3. CASE OperatorDeletes
    BY <1>1, <2>3 DEF OperatorDeletes, Inv, TypeOK
  <2>4. ASSUME NEW c \in Cameras, ClearTPM(c) PROVE Stays
    BY <2>4 DEF ClearTPM, AcceptedUIDs, Accepted, TrustStoreLoads, ChainVerifies, UID,
       Whole, rootFiles, registry, locals
  <2> QED  BY <1>1, <2>1, <2>2, <2>3, <2>4 DEF Next
<1>2. Spec => [][removals' = removals => Stays]_vars
  BY <1>1, Invariance, PTL DEF Spec
<1> QED  BY <1>2 DEF RegisteredStayAccepted
=============================================================================
