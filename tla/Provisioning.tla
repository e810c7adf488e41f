---------------------------- MODULE Provisioning ----------------------------
(***************************************************************************)
(* The four tools that prepare a deployment, each a short-lived process     *)
(* (cmd/factory/rootgen, cmd/factory/certgen, cmd/producer/provision,       *)
(* cmd/producer/evict), the files they share (internal/crypto/pki.go,       *)
(* trust_store.go) and the cameras' TPMs (internal/tpm).  No tool takes a   *)
(* lock: the only arbiters are O_EXCL, rename and the TPM.  A tool may fail *)
(* at any call, be killed between any two, and run beside another one.      *)
(*                                                                         *)
(* A run is one execution of a tool.  Runs are numbered, and the number     *)
(* names the key material the run makes: run n of rootgen makes CA n, run n *)
(* of certgen issues certificate n (the number stands for its serial and    *)
(* its fingerprint).  A camera's TPM key is named by its owner seed, from   *)
(* which CreatePrimary derives it; <<camera, seed>> stands for the UID, the *)
(* hash of the public key.                                                 *)
(***************************************************************************)
EXTENDS Naturals

CONSTANTS Cameras,       \* the cameras, each with its TPM and file names
          NoCamera,      \* the camera of a run that is about none
          MaxRuns,       \* bound: executions of tools
          MaxFaults,     \* bound: failed system or TPM calls, and kills
          MaxRemovals,   \* bound: files the operator deletes
          MaxSeeds       \* bound: owner seeds of a TPM, one more per clear

ASSUME BoundsAssumption ==
    /\ MaxRuns \in Nat /\ MaxFaults \in Nat
    /\ MaxRemovals \in Nat /\ MaxSeeds \in Nat \ {0}
    /\ NoCamera \notin Cameras

VARIABLES
    rootCert,      \* the file root_ca.crt in the directory of trusted roots
    rootKey,       \* the file root_ca.key
    cameraPublic,  \* each camera's public key file
    cameraCert,    \* each camera's certificate file
    manifest,      \* camera_manifest.json: the certificates its entries name
    temps,         \* the runs whose temporary manifest file exists
    tpmKey,        \* the key at the persistent handle of a TPM, or 0
    seed,          \* the owner seed of a TPM
    pc,            \* where a run is
    camera,        \* the camera a run is about
    ca,            \* the CA of a run: the one it made or loaded
    key,           \* the camera key of a run
    seen,          \* the manifest as a run of certgen read it
    faults,        \* failed calls and kills so far
    removals,      \* files the operator has deleted so far
    withdrawn      \* certificates whose files the operator has deleted

rootFiles == <<rootCert, rootKey>>
cameraFiles == <<cameraPublic, cameraCert>>
registry == <<manifest, temps>>
tpms == <<tpmKey, seed>>
locals == <<camera, ca, key, seen>>
operator == <<removals, withdrawn>>
vars == <<rootFiles, cameraFiles, registry, tpms, pc, locals, faults, operator>>

Runs == 1..MaxRuns
Seeds == 1..MaxSeeds

(* A file at its path: the run that created it and what it holds, 0 as long *)
(* as it is not written to the end (no reader parses it then).             *)
Absent == [by |-> 0, data |-> 0]
Created(p) == [by |-> p, data |-> 0]
Whole(f) == f.data # 0

\* The write goes to the file the run has opened, at this path or no longer.
Written(f, p, d) == IF f.by = p THEN [by |-> p, data |-> d] ELSE f

NoManifest == {}
Torn == {0}       \* a manifest file cut short: json.Unmarshal fails on it

-----------------------------------------------------------------------------
(* The steps of each tool, in order; then how a run may have ended.         *)
RootgenSteps == {"create_root_cert", "create_root_key", "write_root_cert",
                 "write_root_key", "undo_both", "undo_cert", "undo_key"}
ProvisionSteps == {"open", "create_primary", "persist", "read_back",
                   "read_public", "create_public", "write_public"}
CertgenSteps == {"load_root", "load_keys", "merge", "create_cert",
                 "write_cert", "write_temp", "rename", "remove_old",
                 "rename_again"}
EvictSteps == {"find", "evict"}
Steps == RootgenSteps \cup ProvisionSteps \cup CertgenSteps \cup EvictSteps
Undoing == {"undo_both", "undo_cert", "undo_key"}

Running(p) == pc[p] \in Steps
Quiet == \A p \in Runs : ~Running(p)

(* The state is well typed; in particular the manifest at its path is never *)
(* a torn one (writeFileReplace, trust_store.go:369-406).                   *)
TypeOK ==
    /\ rootCert \in [by : 0..MaxRuns, data : 0..MaxRuns]
    /\ rootKey \in [by : 0..MaxRuns, data : 0..MaxRuns]
    /\ cameraPublic \in [Cameras -> [by : 0..MaxRuns, data : 0..MaxSeeds]]
    /\ cameraCert \in [Cameras -> [by : 0..MaxRuns, data : 0..MaxRuns]]
    /\ manifest \subseteq Runs
    /\ temps \subseteq Runs
    /\ tpmKey \in [Cameras -> 0..MaxSeeds]
    /\ seed \in [Cameras -> Seeds]
    /\ pc \in [Runs -> Steps \cup {"idle", "ok", "failed", "killed"}]
    /\ camera \in [Runs -> Cameras \cup {NoCamera}]
    /\ ca \in [Runs -> 0..MaxRuns]
    /\ key \in [Runs -> 0..MaxSeeds]
    /\ seen \in [Runs -> SUBSET Runs]
    /\ faults \in 0..MaxFaults
    /\ removals \in 0..MaxRemovals
    /\ withdrawn \subseteq Runs
    /\ \A p \in Runs : pc[p] \in Steps \ RootgenSteps => camera[p] \in Cameras

Init ==
    /\ rootCert = Absent /\ rootKey = Absent
    /\ cameraPublic = [c \in Cameras |-> Absent]
    /\ cameraCert = [c \in Cameras |-> Absent]
    /\ manifest = NoManifest
    /\ temps = {}
    /\ tpmKey = [c \in Cameras |-> 0]
    /\ seed = [c \in Cameras |-> 1]
    /\ pc = [p \in Runs |-> "idle"]
    /\ camera = [p \in Runs |-> NoCamera]
    /\ ca = [p \in Runs |-> 0]
    /\ key = [p \in Runs |-> 0]
    /\ seen = [p \in Runs |-> {}]
    /\ faults = 0 /\ removals = 0 /\ withdrawn = {}

-----------------------------------------------------------------------------
(* What a run does when a call of its step fails.  writeFilesOnce deletes   *)
(* the paths it has created, writeFileReplace tries to delete the old       *)
(* manifest, everything else only returns the error.                       *)

\* createdPaths recorded before OpenFile has succeeded: breaks
\* NothingOverwritten.
RecordedEarly(l) ==
    CASE l = "create_root_cert" -> "undo_cert"
      [] l \in {"create_root_key", "write_root_cert", "write_root_key"} -> "undo_both"
      [] l = "rename" -> "remove_old"
      [] OTHER -> "failed"

\* Without the deferred os.Remove: breaks OutcomeTrue.
NothingUndone(l) == IF l = "rename" THEN "remove_old" ELSE "failed"

\* The error of the certificate's write ignored: breaks
\* RegisteredCertificateSaved.
CertWriteIgnored(l) ==
    CASE l = "create_root_key" -> "undo_cert"
      [] l \in {"write_root_cert", "write_root_key"} -> "undo_both"
      [] l = "write_cert" -> "write_temp"
      [] l = "rename" -> "remove_old"
      [] OTHER -> "failed"

AfterFailure(l) ==
    CASE l = "create_root_key" -> "undo_cert"
      [] l \in {"write_root_cert", "write_root_key"} -> "undo_both"
      [] l = "rename" -> "remove_old"
      [] OTHER -> "failed"

Goto(p, l) == pc' = [pc EXCEPT ![p] = l]

Fault == faults < MaxFaults /\ faults' = faults + 1

\* The deferred os.Remove of the temporary file comes with every return.
Fails(p) ==
    /\ Goto(p, AfterFailure(pc[p]))
    /\ temps' = IF AfterFailure(pc[p]) = "failed" THEN temps \ {p} ELSE temps
    /\ UNCHANGED <<rootFiles, cameraFiles, manifest, tpms, locals, operator>>

\* A file system or TPM call fails.
CallFails(p) == Running(p) /\ pc[p] \notin Undoing /\ Fault /\ Fails(p)

\* The tool is killed, or the machine goes down, before its next call.
Killed(p) ==
    /\ Running(p)
    /\ Fault
    /\ Goto(p, "killed")
    /\ UNCHANGED <<rootFiles, cameraFiles, registry, tpms, locals, operator>>

-----------------------------------------------------------------------------
\* Runs are started in the order of their numbers.
Starts(p, l, c) ==
    /\ pc[p] = "idle"
    /\ \A q \in Runs : q < p => pc[q] # "idle"
    /\ Goto(p, l)
    /\ camera' = [camera EXCEPT ![p] = c]
    /\ UNCHANGED <<rootFiles, cameraFiles, registry, tpms, key, seen, faults,
                   operator>>

(* cmd/factory/rootgen: GenerateRootCA, then SaveRootCA creates both files  *)
(* before it writes the first.                                             *)
StartRootgen(p) ==
    /\ Starts(p, "create_root_cert", NoCamera)
    /\ ca' = [ca EXCEPT ![p] = p]

\* os.Create in place of O_CREATE|O_EXCL: breaks RootFilesMatch.
Truncates(f) == TRUE
CanCreate(f) == f = Absent

CreateRootCert(p) ==
    /\ pc[p] = "create_root_cert"
    /\ UNCHANGED faults
    /\ \/ /\ CanCreate(rootCert)
          /\ rootCert' = Created(p)
          /\ Goto(p, "create_root_key")
          /\ UNCHANGED <<rootKey, cameraFiles, registry, tpms, locals, operator>>
       \/ ~CanCreate(rootCert) /\ Fails(p)

CreateRootKey(p) ==
    /\ pc[p] = "create_root_key"
    /\ UNCHANGED faults
    /\ \/ /\ CanCreate(rootKey)
          /\ rootKey' = Created(p)
          /\ Goto(p, "write_root_cert")
          /\ UNCHANGED <<rootCert, cameraFiles, registry, tpms, locals, operator>>
       \/ ~CanCreate(rootKey) /\ Fails(p)

WriteRootCert(p) ==
    /\ pc[p] = "write_root_cert"
    /\ rootCert' = Written(rootCert, p, ca[p])
    /\ Goto(p, "write_root_key")
    /\ UNCHANGED <<rootKey, cameraFiles, registry, tpms, locals, faults, operator>>

WriteRootKey(p) ==
    /\ pc[p] = "write_root_key"
    /\ rootKey' = Written(rootKey, p, ca[p])
    /\ Goto(p, "ok")
    /\ UNCHANGED <<rootCert, cameraFiles, registry, tpms, locals, faults, operator>>

\* Write has succeeded and Close fails: the file is complete until the rollback.
CloseFails(p) ==
    /\ pc[p] \in {"write_root_cert", "write_root_key"}
    /\ Fault
    /\ IF pc[p] = "write_root_cert"
       THEN rootCert' = Written(rootCert, p, ca[p]) /\ UNCHANGED rootKey
       ELSE rootKey' = Written(rootKey, p, ca[p]) /\ UNCHANGED rootCert
    /\ Goto(p, AfterFailure(pc[p]))
    /\ UNCHANGED <<cameraFiles, registry, tpms, locals, operator>>

\* os.Remove by path, whoever's file is there by now; its error is ignored.
UndoRootCert(p) ==
    /\ pc[p] \in {"undo_both", "undo_cert"}
    /\ rootCert' = Absent
    /\ Goto(p, IF pc[p] = "undo_both" THEN "undo_key" ELSE "failed")
    /\ UNCHANGED <<rootKey, cameraFiles, registry, tpms, locals, faults, operator>>

UndoRootKey(p) ==
    /\ pc[p] = "undo_key"
    /\ rootKey' = Absent
    /\ Goto(p, "failed")
    /\ UNCHANGED <<rootCert, cameraFiles, registry, tpms, locals, faults, operator>>

Rootgen(p) ==
    \/ StartRootgen(p) \/ CreateRootCert(p) \/ CreateRootKey(p)
    \/ WriteRootCert(p) \/ WriteRootKey(p) \/ CloseFails(p)
    \/ UndoRootCert(p) \/ UndoRootKey(p)

-----------------------------------------------------------------------------
(* cmd/producer/provision: opens the key at the handle, or makes one and    *)
(* persists it there; then exports its public half.                        *)
StartProvision(p, c) == Starts(p, "open", c) /\ UNCHANGED ca

KeyOf(p) == tpmKey[camera[p]]

\* IsPersistentHandleNotFound tells a missing key from any other failure.
OpenSigner(p) ==
    /\ pc[p] = "open"
    /\ Goto(p, IF KeyOf(p) = 0 THEN "create_primary" ELSE "read_public")
    /\ UNCHANGED <<rootFiles, cameraFiles, registry, tpms, locals, faults, operator>>

\* A primary key is a function of the owner seed and the template.
CreatePrimary(p) ==
    /\ pc[p] = "create_primary"
    /\ key' = [key EXCEPT ![p] = seed[camera[p]]]
    /\ Goto(p, "persist")
    /\ UNCHANGED <<rootFiles, cameraFiles, registry, tpms, camera, ca, seen,
                   faults, operator>>

\* EvictControl refuses a handle that is taken.
Persist(p) ==
    /\ pc[p] = "persist"
    /\ UNCHANGED faults
    /\ \/ /\ KeyOf(p) = 0
          /\ tpmKey' = [tpmKey EXCEPT ![camera[p]] = key[p]]
          /\ Goto(p, "read_back")
          /\ UNCHANGED <<rootFiles, cameraFiles, registry, seed, locals, operator>>
       \/ KeyOf(p) # 0 /\ Fails(p)

\* FlushContext of the transient key, and the read of the persistent one.
ReadBack(p) ==
    /\ pc[p] = "read_back"
    /\ UNCHANGED faults
    /\ \/ /\ KeyOf(p) # 0
          /\ Goto(p, "read_public")
          /\ UNCHANGED <<rootFiles, cameraFiles, registry, tpms, locals, operator>>
       \/ KeyOf(p) = 0 /\ Fails(p)

ReadPublic(p) ==
    /\ pc[p] = "read_public"
    /\ UNCHANGED faults
    /\ \/ /\ KeyOf(p) # 0
          /\ key' = [key EXCEPT ![p] = KeyOf(p)]
          /\ Goto(p, "create_public")
          /\ UNCHANGED <<rootFiles, cameraFiles, registry, tpms, camera, ca, seen,
                         operator>>
       \/ KeyOf(p) = 0 /\ Fails(p)

CreatePublic(p) ==
    /\ pc[p] = "create_public"
    /\ UNCHANGED faults
    /\ \/ /\ CanCreate(cameraPublic[camera[p]])
          /\ cameraPublic' = [cameraPublic EXCEPT ![camera[p]] = Created(p)]
          /\ Goto(p, "write_public")
          /\ UNCHANGED <<rootFiles, cameraCert, registry, tpms, locals, operator>>
       \/ ~CanCreate(cameraPublic[camera[p]]) /\ Fails(p)

WritePublic(p) ==
    /\ pc[p] = "write_public"
    /\ cameraPublic' = [cameraPublic EXCEPT ![camera[p]] = Written(@, p, key[p])]
    /\ Goto(p, "ok")
    /\ UNCHANGED <<rootFiles, cameraCert, registry, tpms, locals, faults, operator>>

Provision(p) ==
    \/ \E c \in Cameras : StartProvision(p, c)
    \/ OpenSigner(p) \/ CreatePrimary(p) \/ Persist(p) \/ ReadBack(p)
    \/ ReadPublic(p) \/ CreatePublic(p) \/ WritePublic(p)

(* cmd/producer/evict: the key goes, every file stays.                      *)
StartEvict(p, c) == Starts(p, "find", c) /\ UNCHANGED ca

FindKey(p) ==
    /\ pc[p] = "find"
    /\ UNCHANGED faults
    /\ \/ /\ KeyOf(p) # 0
          /\ Goto(p, "evict")
          /\ UNCHANGED <<rootFiles, cameraFiles, registry, tpms, locals, operator>>
       \/ KeyOf(p) = 0 /\ Fails(p)

EvictKey(p) ==
    /\ pc[p] = "evict"
    /\ UNCHANGED faults
    /\ \/ /\ KeyOf(p) # 0
          /\ tpmKey' = [tpmKey EXCEPT ![camera[p]] = 0]
          /\ Goto(p, "ok")
          /\ UNCHANGED <<rootFiles, cameraFiles, registry, seed, locals, operator>>
       \/ KeyOf(p) = 0 /\ Fails(p)

Evict(p) ==
    (\E c \in Cameras : StartEvict(p, c)) \/ FindKey(p) \/ EvictKey(p)

-----------------------------------------------------------------------------
(* cmd/factory/certgen: loads the CA and the camera's public key, issues a  *)
(* certificate, merges its entry with the manifest, saves the certificate   *)
(* and then the manifest.                                                  *)
StartCertgen(p, c) == Starts(p, "load_root", c) /\ UNCHANGED ca

LoadRootCert(p) ==
    /\ pc[p] = "load_root"
    /\ UNCHANGED faults
    /\ \/ /\ Whole(rootCert)
          /\ ca' = [ca EXCEPT ![p] = rootCert.data]
          /\ Goto(p, "load_keys")
          /\ UNCHANGED <<rootFiles, cameraFiles, registry, tpms, camera, key, seen,
                         operator>>
       \/ ~Whole(rootCert) /\ Fails(p)

\* validateRootCAKeyPair: the private key must be the certificate's.
LoadsKeys(p) ==
    Whole(rootKey) /\ rootKey.data = ca[p] /\ Whole(cameraPublic[camera[p]])

LoadKeys(p) ==
    /\ pc[p] = "load_keys"
    /\ UNCHANGED faults
    /\ \/ /\ LoadsKeys(p)
          /\ key' = [key EXCEPT ![p] = cameraPublic[camera[p]].data]
          /\ Goto(p, "merge")
          /\ UNCHANGED <<rootFiles, cameraFiles, registry, tpms, camera, ca, seen,
                         operator>>
       \/ ~LoadsKeys(p) /\ Fails(p)

\* LoadCameraManifest; a manifest that is not there counts as an empty one.
ReadManifest(p) ==
    /\ pc[p] = "merge"
    /\ UNCHANGED faults
    /\ \/ /\ manifest # Torn
          /\ seen' = [seen EXCEPT ![p] = manifest]
          /\ Goto(p, "create_cert")
          /\ UNCHANGED <<rootFiles, cameraFiles, registry, tpms, camera, ca, key,
                         operator>>
       \/ manifest = Torn /\ Fails(p)

CreateCert(p) ==
    /\ pc[p] = "create_cert"
    /\ UNCHANGED faults
    /\ \/ /\ CanCreate(cameraCert[camera[p]])
          /\ cameraCert' = [cameraCert EXCEPT ![camera[p]] = Created(p)]
          /\ Goto(p, "write_cert")
          /\ UNCHANGED <<rootFiles, cameraPublic, registry, tpms, locals, operator>>
       \/ ~CanCreate(cameraCert[camera[p]]) /\ Fails(p)

WriteCert(p) ==
    /\ pc[p] = "write_cert"
    /\ cameraCert' = [cameraCert EXCEPT ![camera[p]] = Written(@, p, p)]
    /\ Goto(p, "write_temp")
    /\ UNCHANGED <<rootFiles, cameraPublic, registry, tpms, locals, faults, operator>>

\* os.WriteFile on the manifest itself: breaks TypeOK.
InPlace(m) == Torn
\* The new manifest is written beside the old one.
WhileWriting(m) == m

WriteTemp(p) ==
    /\ pc[p] = "write_temp"
    /\ temps' = temps \cup {p}
    /\ manifest' = WhileWriting(manifest)
    /\ Goto(p, "rename")
    /\ UNCHANGED <<rootFiles, cameraFiles, tpms, locals, faults, operator>>

UID(n) == <<camera[n], key[n]>>

\* The existing entries left out: breaks RegisteredStayAccepted.
OnlyNew(old, p) == {p}
\* mergeCameraManifestFile: the new entry takes the place of one of its UID.
Merged(old, p) == {n \in old : UID(n) # UID(p)} \cup {p}

\* The rename, or the second one after the old manifest has been deleted.
Rename(p) ==
    /\ pc[p] \in {"rename", "rename_again"}
    /\ manifest' = Merged(seen[p], p)
    /\ temps' = temps \ {p}
    /\ Goto(p, "ok")
    /\ UNCHANGED <<rootFiles, cameraFiles, tpms, locals, faults, operator>>

RemoveOld(p) ==
    /\ pc[p] = "remove_old"
    /\ manifest' = NoManifest
    /\ Goto(p, "rename_again")
    /\ UNCHANGED <<rootFiles, cameraFiles, temps, tpms, locals, faults, operator>>

Certgen(p) ==
    \/ \E c \in Cameras : StartCertgen(p, c)
    \/ LoadRootCert(p) \/ LoadKeys(p) \/ ReadManifest(p) \/ CreateCert(p)
    \/ WriteCert(p) \/ WriteTemp(p) \/ Rename(p) \/ RemoveOld(p)

-----------------------------------------------------------------------------
(* The operator, between runs: deletes a file to let a tool create it anew, *)
(* or clears a TPM, which ends its keys and changes its owner seed.         *)
OperatorDeletes ==
    /\ Quiet
    /\ removals < MaxRemovals
    /\ removals' = removals + 1
    /\ UNCHANGED <<temps, tpms, pc, locals, faults>>
    /\ \/ /\ rootCert # Absent /\ rootCert' = Absent
          /\ UNCHANGED <<rootKey, cameraFiles, manifest, withdrawn>>
       \/ /\ rootKey # Absent /\ rootKey' = Absent
          /\ UNCHANGED <<rootCert, cameraFiles, manifest, withdrawn>>
       \/ \E c \in Cameras :
            /\ cameraPublic[c] # Absent
            /\ cameraPublic' = [cameraPublic EXCEPT ![c] = Absent]
            /\ UNCHANGED <<rootFiles, cameraCert, manifest, withdrawn>>
       \/ \E c \in Cameras :
            /\ cameraCert[c] # Absent
            /\ cameraCert' = [cameraCert EXCEPT ![c] = Absent]
            /\ withdrawn' = withdrawn \cup ({cameraCert[c].data} \ {0})
            /\ UNCHANGED <<rootFiles, cameraPublic, manifest>>
       \/ /\ manifest # NoManifest /\ manifest' = NoManifest
          /\ UNCHANGED <<rootFiles, cameraFiles, withdrawn>>

ClearTPM(c) ==
    /\ Quiet
    /\ seed[c] < MaxSeeds
    /\ seed' = [seed EXCEPT ![c] = @ + 1]
    /\ tpmKey' = [tpmKey EXCEPT ![c] = 0]
    /\ UNCHANGED <<rootFiles, cameraFiles, registry, pc, locals, faults, operator>>

Run(p) ==
    Rootgen(p) \/ Provision(p) \/ Evict(p) \/ Certgen(p) \/ CallFails(p) \/ Killed(p)

Next ==
    \/ \E p \in Runs : Run(p)
    \/ OperatorDeletes
    \/ \E c \in Cameras : ClearTPM(c)

Spec == Init /\ [][Next]_vars

-----------------------------------------------------------------------------
(* What server and consumer make of the files when they start.              *)

\* LoadTrustStore: the roots directory, the manifest, and every entry's root.
TrustStoreLoads ==
    /\ Whole(rootCert)
    /\ manifest \notin {NoManifest, Torn}
    /\ \A n \in manifest : ca[n] = rootCert.data

\* VerifyCameraCertificate: the chain; IssueCameraCertificate has put the UID
\* of the certificate's own key into it.
ChainVerifies(n) == Whole(rootCert) /\ ca[n] = rootCert.data

\* TrustStore.VerifyCameraCertificate: the certificates a store accepts.
Accepted == IF TrustStoreLoads THEN {n \in manifest : ChainVerifies(n)} ELSE {}
AcceptedUIDs == {UID(n) : n \in Accepted}

(* Whatever runs of rootgen interleave, fail or are killed, and whatever    *)
(* files the operator deletes between runs, a CA certificate and a CA key   *)
(* that are both complete belong together (writeFilesOnce, pki.go:584).     *)
RootFilesMatch ==
    Whole(rootCert) /\ Whole(rootKey) => rootCert.data = rootKey.data

(* The manifest never names a certificate that was not saved first          *)
(* (SaveCameraCertificateBundle, trust_store.go:102-108): a kill in between *)
(* leaves a certificate without an entry, never an entry without one.       *)
RegisteredCertificateSaved ==
    \A n \in manifest :
        n \in withdrawn \/ (camera[n] \in Cameras /\ cameraCert[camera[n]].data = n)

\* A complete file stays as it is, unless its own run is still to roll it back.
Kept(f, g) == Whole(f) => g = f \/ pc[f.by] \in Undoing

(* No tool changes or deletes a complete key or certificate file of another *)
(* run, on its error paths either (README.md:162).                         *)
NothingOverwritten ==
    [][removals' = removals =>
        /\ Kept(rootCert, rootCert') /\ Kept(rootKey, rootKey')
        /\ \A c \in Cameras : /\ Kept(cameraPublic[c], cameraPublic'[c])
                              /\ Kept(cameraCert[c], cameraCert'[c])]_vars

(* The public key that is exported is that of the key in the TPM, unless an  *)
(* evict beside it has deleted that.                                       *)
Delivered(p) ==
    CASE pc[p] \in RootgenSteps -> rootCert'.data = p /\ rootKey'.data = p
      [] pc[p] \in ProvisionSteps -> /\ cameraPublic'[camera[p]].data = key[p]
                                     /\ tpmKey'[camera[p]] \in {0, key[p]}
      [] pc[p] \in CertgenSteps -> /\ cameraCert'[camera[p]].data = p
                                   /\ p \in manifest'
      [] OTHER -> tpmKey'[camera[p]] = 0

CleanedUp(p) ==
    /\ p \notin temps' /\ p \notin manifest'
    /\ rootCert'.by # p /\ rootKey'.by # p

(* A tool that reports success has delivered all its files, whatever ran    *)
(* beside it; one that reports an error has left no CA file, no temporary   *)
(* file and no entry behind.                                               *)
OutcomeTrue ==
    [][\A p \in Runs : Running(p) =>
        /\ pc'[p] = "ok" => Delivered(p)
        /\ pc'[p] = "failed" => CleanedUp(p)]_vars

Renames(p) == pc[p] \in {"rename", "rename_again"} /\ pc'[p] = "ok"

(* The exceptions of RegisteredStayAccepted, each a step of the code's own:  *)
(* a certgen renames over a manifest it has not read, for another one ran    *)
(* beside it; the fallback deletes the old manifest (trust_store.go:397); a  *)
(* rootgen whose Close fails takes back a CA that is complete                *)
(* (pki.go:619-621), and a certgen that has loaded it goes on to register.   *)
Raced == \E p \in Runs : Renames(p) /\ seen[p] # manifest
Fallback == \E p \in Runs : pc[p] = "remove_old" /\ manifest' = NoManifest
TakenBack == \E p \in Runs : pc[p] = "undo_both" /\ rootCert.data = p /\ rootCert' = Absent
Orphaned ==
    \E p \in Runs : Renames(p) /\ ca[p] # rootCert.data /\ pc[ca[p]] # "ok"

(* A camera a freshly started server or consumer would accept stays         *)
(* accepted: no step of a tool, those that fail included, makes the trust    *)
(* store unloadable or drops a camera from it, but for the exceptions above. *)
(* It is a promise about the trust store only: evict leaves it as it is      *)
(* (OldCertificateEnds).                                                   *)
RegisteredStayAccepted ==
    [][removals' = removals =>
        \/ AcceptedUIDs \subseteq AcceptedUIDs'
        \/ Raced \/ Fallback \/ TakenBack \/ Orphaned]_vars

(* What README.md:216 says of evict, and its own log of the certificate      *)
(* (cmd/producer/evict/main.go:23): a key that provision makes, which it does *)
(* only with none at the handle, is not one that a certificate fits that the *)
(* trust store accepts.  The code does not see to it: evict leaves manifest   *)
(* and certificate, and CreatePrimary derives the key it had derived before. *)
OldCertificateEnds ==
    [][\A p \in Runs : pc[p] = "persist" /\ pc'[p] = "read_back" =>
            <<camera[p], key[p]>> \notin AcceptedUIDs]_vars
=============================================================================
