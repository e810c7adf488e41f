--------------------------- MODULE MCProvisioning ---------------------------
(* A new factory; one whose cameras have their keys, but that has no CA; and *)
(* one in service: the CA made, both cameras' keys exported, the first       *)
(* camera registered.  All are states Provisioning reaches without a fault.  *)
(* Four runs led to the last; in the others those not needed were attempts   *)
(* to evict a key that is not there, so that the same number of runs is left *)
(* to each.                                                                *)
EXTENDS Provisioning

CONSTANTS First, Second

Earlier == 1..4

By(p, d) == [by |-> p, data |-> d]

NewFactory ==
    /\ rootCert = Absent /\ rootKey = Absent
    /\ cameraPublic = [c \in Cameras |-> Absent]
    /\ cameraCert = [c \in Cameras |-> Absent]
    /\ manifest = NoManifest
    /\ tpmKey = [c \in Cameras |-> 0]
    /\ pc = [p \in Runs |-> IF p \in Earlier THEN "failed" ELSE "idle"]
    /\ camera = [p \in Runs |-> IF p \in Earlier THEN First ELSE NoCamera]
    /\ ca = [p \in Runs |-> 0]
    /\ key = [p \in Runs |-> 0]

\* provision of either camera.
KeysExported ==
    /\ rootCert = Absent /\ rootKey = Absent
    /\ cameraPublic = [c \in Cameras |-> By(IF c = First THEN 3 ELSE 4, 1)]
    /\ cameraCert = [c \in Cameras |-> Absent]
    /\ manifest = NoManifest
    /\ tpmKey = [c \in Cameras |-> 1]
    /\ pc = [p \in Runs |-> CASE p \in {1, 2} -> "failed"
                              [] p \in {3, 4} -> "ok"
                              [] OTHER -> "idle"]
    /\ camera = [p \in Runs |-> CASE p \in 1..3 -> First
                                  [] p = 4 -> Second
                                  [] OTHER -> NoCamera]
    /\ ca = [p \in Runs |-> 0]
    /\ key = [p \in Runs |-> IF p \in {3, 4} THEN 1 ELSE 0]

\* rootgen, provision of either camera, certgen for the first.
InService ==
    /\ rootCert = By(1, 1) /\ rootKey = By(1, 1)
    /\ cameraPublic = [c \in Cameras |-> By(IF c = First THEN 2 ELSE 3, 1)]
    /\ cameraCert = [c \in Cameras |-> IF c = First THEN By(4, 4) ELSE Absent]
    /\ manifest = {4}
    /\ tpmKey = [c \in Cameras |-> 1]
    /\ pc = [p \in Runs |-> IF p \in Earlier THEN "ok" ELSE "idle"]
    /\ camera = [p \in Runs |-> CASE p \in {2, 4} -> First
                                  [] p = 3 -> Second
                                  [] OTHER -> NoCamera]
    /\ ca = [p \in Runs |-> IF p \in {1, 4} THEN 1 ELSE 0]
    /\ key = [p \in Runs |-> IF p \in {2, 3, 4} THEN 1 ELSE 0]

MCInit ==
    /\ NewFactory \/ KeysExported \/ InService
    /\ temps = {}
    /\ seed = [c \in Cameras |-> 1]
    /\ seen = [p \in Runs |-> {}]
    /\ faults = 0 /\ removals = 0 /\ withdrawn = {}

MCSpec == MCInit /\ [][Next]_vars
=============================================================================
