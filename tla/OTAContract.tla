---------------------------- MODULE OTAContract ----------------------------
(***************************************************************************)
(* What libraries/OTA promises an application, without packages, chunks or *)
(* flash: a session is opened, and either ends or is certified; only a     *)
(* certified image can be activated, once; only an activated image, or one *)
(* whose activation was attempted, can be installed at the next power-up.  *)
(***************************************************************************)
CONSTANTS Digests, NoDigest

VARIABLES phase, certified, attempted, running

contractVars == <<phase, certified, attempted, running>>

Phases == {"IDLE", "RECEIVING", "VERIFYING", "READY", "ACTIVATING", "ACTIVATED",
           "FAILED", "CANCELLED"}

ContractInit ==
    /\ phase = "IDLE"
    /\ certified = NoDigest
    /\ attempted = {}
    /\ running = NoDigest

\* A session starts unless one is being received, verified or activated.
Open ==
    /\ phase \in {"IDLE", "READY", "ACTIVATED", "FAILED", "CANCELLED"}
    /\ phase' = "RECEIVING"
    /\ certified' = NoDigest
    /\ UNCHANGED <<attempted, running>>

Verify ==
    /\ phase = "RECEIVING"
    /\ phase' = "VERIFYING"
    /\ UNCHANGED <<certified, attempted, running>>

\* Only verification leads to Ready.
Certify ==
    /\ phase = "VERIFYING"
    /\ phase' = "READY"
    /\ certified' \in Digests
    /\ UNCHANGED <<attempted, running>>

\* A session that fails or is cancelled loses its certificate for good.
Drop ==
    /\ phase \in {"RECEIVING", "VERIFYING", "READY", "ACTIVATING"}
    /\ phase' \in IF phase = "ACTIVATING" THEN {"FAILED"} ELSE {"FAILED", "CANCELLED"}
    /\ certified' = NoDigest
    /\ UNCHANGED <<attempted, running>>

\* Activation consumes the certificate.
Attempt ==
    /\ phase = "READY"
    /\ phase' = "ACTIVATING"
    /\ attempted' = attempted \cup {certified}
    /\ certified' = NoDigest
    /\ UNCHANGED running

Commit ==
    /\ phase = "ACTIVATING"
    /\ phase' = "ACTIVATED"
    /\ UNCHANGED <<certified, attempted, running>>

\* Power-up: the old image, or one whose activation was attempted.
PowerUp ==
    /\ phase' = "IDLE"
    /\ certified' = NoDigest
    /\ running' \in {running} \cup attempted
    /\ UNCHANGED attempted

ContractNext == Open \/ Verify \/ Certify \/ Drop \/ Attempt \/ Commit \/ PowerUp

ContractSpec == ContractInit /\ [][ContractNext]_contractVars
=============================================================================
