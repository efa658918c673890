----------------------------- MODULE DPSClient -----------------------------
(***************************************************************************)
(* libraries/AzureIoT/src/DevkitDPSClient.cpp: registering the board with  *)
(* the device provisioning service.                                        *)
(*                                                                         *)
(* The provisioning library, DICE and RIoT are external: a call of theirs  *)
(* succeeds or fails, and the register callback comes in some DoWork.      *)
(* Which hub the service assigns may differ from one registration to the   *)
(* next.                                                                   *)
(***************************************************************************)
EXTENDS Integers, FiniteSets

CONSTANTS
    Hubs,               \* the addresses the service may assign
    MaxStarts           \* bound on the calls of DevkitDPSClientStart

ASSUME DPSAssumption == "NULL" \notin Hubs /\ MaxStarts \in Nat

DPSAuthTypes == {"DPS_AUTH_SYMMETRIC_KEY", "DPS_AUTH_X509_INDIVIDUAL", "DPS_AUTH_X509_GROUP"}

VARIABLES
    g_auth_type, is_iothub_from_dps,
    user_ctx,           \* its iothub_uri and registration_complete
    dps_at,             \* where the call in progress is
    dps_frame,          \* its parameters, its result so far, its handle
    starts,
    assigned,           \* the hub the service assigned last
    answered,           \* what the last call that ended returned, or FALSE
    misused             \* a call without parameters came after a registration

dpsVars == <<g_auth_type, is_iothub_from_dps, user_ctx, dps_at, dps_frame, starts, assigned,
             answered, misused>>

NoContext == [iothub_uri |-> "NULL", registration_complete |-> 0]

DPSInit ==
    /\ g_auth_type = "DPS_AUTH_X509_INDIVIDUAL"
    /\ is_iothub_from_dps = FALSE /\ user_ctx = NoContext
    /\ dps_at = "idle"
    /\ dps_frame = [given |-> TRUE, uds |-> "NULL", proxy |-> FALSE, result |-> TRUE, handle |-> FALSE]
    /\ starts = 0 /\ assigned = "NULL" /\ answered = FALSE /\ misused = FALSE

Return(result) ==
    /\ answered' = result /\ dps_at' = "idle" /\ UNCHANGED <<g_auth_type, starts>>

DevkitDPSSetAuthType(auth_type) ==
    /\ dps_at = "idle" /\ g_auth_type' = auth_type /\ g_auth_type # auth_type
    /\ UNCHANGED <<is_iothub_from_dps, user_ctx, dps_at, dps_frame, starts, assigned, answered, misused>>

\* A missing parameter makes the result false, and nothing else: the call goes on.
DevkitDPSClientStart(given, udsString, proxy) ==
    /\ dps_at = "idle" /\ starts < MaxStarts
    /\ starts' = starts + 1
    /\ misused' = (misused \/ (~given /\ is_iothub_from_dps))
    /\ IF given /\ is_iothub_from_dps
       THEN answered' = TRUE /\ UNCHANGED <<dps_at, dps_frame>>
       ELSE /\ dps_at' = IF g_auth_type = "DPS_AUTH_X509_INDIVIDUAL" THEN "dice" ELSE "init"
            /\ dps_frame' = [given |-> given, uds |-> udsString, proxy |-> proxy, result |-> given,
                             handle |-> FALSE]
            /\ answered' = FALSE
    /\ UNCHANGED <<g_auth_type, is_iothub_from_dps, user_ctx, assigned>>

\* The secret string stored in the settings, which may hold a NUL, or NULL.
readUDSString == {"NULL", "wrong length", "right length"}

\* It is converted if it has the length asked for, which NULL, read as a string,
\* is taken not to have.
getUDSBytesFromString(udsString) == udsString = "right length"

\* DiceInit, then DiceCore and RiotStart, each of which may fail.
DiceInit ==
    /\ dps_at = "dice"
    /\ \/ \E udsString \in IF dps_frame.uds = "NULL" THEN readUDSString ELSE {dps_frame.uds} :
            /\ getUDSBytesFromString(udsString)
            /\ dps_at' = "init" /\ UNCHANGED <<g_auth_type, starts, answered>>
       \/ Return(FALSE)
    /\ UNCHANGED <<is_iothub_from_dps, user_ctx, dps_frame, assigned, misused>>

\* platform_init and prov_dev_security_init, and the key of DPS_AUTH_SYMMETRIC_KEY;
\* then the context is cleared.
PlatformInit ==
    /\ dps_at = "init"
    /\ \/ Return(FALSE) /\ UNCHANGED user_ctx
       \/ dps_at' = "create" /\ user_ctx' = NoContext /\ UNCHANGED <<g_auth_type, starts, answered>>
    /\ UNCHANGED <<is_iothub_from_dps, dps_frame, assigned, misused>>

\* Prov_Device_LL_Create refuses NULL, and may fail.
Create ==
    /\ dps_at = "create"
    /\ \/ dps_frame.given /\ dps_at' = "options" /\ dps_frame' = [dps_frame EXCEPT !.handle = TRUE]
       \/ dps_at' = "finish" /\ dps_frame' = [dps_frame EXCEPT !.result = FALSE]
    /\ UNCHANGED <<g_auth_type, is_iothub_from_dps, user_ctx, starts, assigned, answered, misused>>

\* The proxy, the certificates and Prov_Device_LL_Register_Device.  A proxy that
\* was not set makes the result false, and the registration goes on.
Options ==
    /\ dps_at = "options"
    /\ \E proxySet \in {TRUE, ~dps_frame.proxy}, registered \in BOOLEAN :
         /\ dps_frame' = [dps_frame EXCEPT !.result = @ /\ proxySet /\ registered]
         /\ dps_at' = IF registered THEN "wait" ELSE "destroy"
    /\ UNCHANGED <<g_auth_type, is_iothub_from_dps, user_ctx, starts, assigned, answered, misused>>

\* register_device_callback, with a hub or a failure.
RegisterCallback ==
    \/ \E hub \in Hubs :
          /\ user_ctx' = [iothub_uri |-> hub, registration_complete |-> 1]
          /\ assigned' = hub
    \/ user_ctx' = [user_ctx EXCEPT !.registration_complete = 2] /\ UNCHANGED assigned

\* The turn of the wait whose Prov_Device_LL_DoWork makes the callback; the others
\* change nothing.
DoWork ==
    /\ dps_at = "wait" /\ dps_at' = "destroy" /\ RegisterCallback
    /\ UNCHANGED <<g_auth_type, is_iothub_from_dps, dps_frame, starts, answered, misused>>

Destroy ==
    /\ dps_at = "destroy" /\ dps_at' = "finish"
    /\ dps_frame' = [dps_frame EXCEPT !.handle = FALSE]
    /\ UNCHANGED <<g_auth_type, is_iothub_from_dps, user_ctx, starts, assigned, answered, misused>>

RegisterDone ==
    /\ dps_at = "finish"
    /\ is_iothub_from_dps' = (is_iothub_from_dps \/ user_ctx.registration_complete = 1)
    /\ Return(dps_frame.result /\ user_ctx.registration_complete = 1)
    /\ UNCHANGED <<user_ctx, dps_frame, assigned, misused>>

DPSNext ==
    \/ \E t \in DPSAuthTypes : DevkitDPSSetAuthType(t)
    \/ \E given, proxy \in BOOLEAN, udsString \in readUDSString :
          DevkitDPSClientStart(given, udsString, proxy)
    \/ DiceInit \/ PlatformInit \/ Create \/ Options \/ DoWork \/ Destroy \/ RegisterDone

DPSSpec == DPSInit /\ [][DPSNext]_dpsVars

DevkitDPSGetIoTHubURI == IF is_iothub_from_dps THEN user_ctx.iothub_uri ELSE "NULL"

-----------------------------------------------------------------------------
(* Types.                                                                  *)
DPSTypeOK ==
    /\ g_auth_type \in DPSAuthTypes /\ is_iothub_from_dps \in BOOLEAN
    /\ user_ctx \in [iothub_uri : Hubs \union {"NULL"}, registration_complete : 0 .. 2]

(* After a start that returned true the getter gives the hub the service   *)
(* assigned last, whichever calls came in between, those that failed half  *)
(* way included; only a call without its parameters, which clears the      *)
(* context and keeps the flag, takes it away.  A registration whose result *)
(* is not given out is known to the getter all the same.  Between calls    *)
(* there is no handle left of the library.                                 *)
AssignmentKept ==
    dps_at = "idle" =>
        /\ ~dps_frame.handle
        /\ ~misused => DevkitDPSGetIoTHubURI = assigned
        /\ (answered /\ ~misused) => assigned # "NULL"

-----------------------------------------------------------------------------
(* The inductive invariant: what is known of the hub at every point of a   *)
(* call.                                                                   *)
DPSPoints == {"idle", "dice", "init", "create", "options", "wait", "destroy", "finish"}
FrameTyped ==
    dps_frame \in [given : BOOLEAN, uds : readUDSString, proxy : BOOLEAN, result : BOOLEAN,
                   handle : BOOLEAN]
HandleKnown == dps_frame.handle => dps_at \in {"options", "wait", "destroy"}
ContextCleared == dps_at \in {"create", "options", "wait"} => user_ctx = NoContext
HubKnown ==
    ~misused =>
        /\ is_iothub_from_dps =>
              dps_at = "idle" /\ user_ctx.iothub_uri = assigned /\ assigned # "NULL"
        /\ ~is_iothub_from_dps =>
              IF dps_at \in {"destroy", "finish"} /\ user_ctx.registration_complete = 1
                THEN user_ctx.iothub_uri = assigned /\ assigned # "NULL"
                ELSE assigned = "NULL"
        /\ answered => is_iothub_from_dps

DPSInv ==
    /\ DPSTypeOK /\ dps_at \in DPSPoints /\ misused \in BOOLEAN /\ answered \in BOOLEAN
    /\ FrameTyped /\ HandleKnown /\ ContextCleared /\ HubKnown

=============================================================================
