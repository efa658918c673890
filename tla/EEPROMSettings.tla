--------------------------- MODULE EEPROMSettings ---------------------------
(***************************************************************************)
(* bsp/az3166/arduino/EEPROMInterface.cpp over the STSAFE chip: settings   *)
(* that span one or several data zones, zones that are stored as a whole   *)
(* or, once the secure channel is enabled, in enveloped blocks of          *)
(* MAX_ENCRYPT_DATA_SIZE bytes.  Power can fail between any two commands   *)
(* of the chip, and any command can fail.                                  *)
(*                                                                         *)
(* A setting's value is written to every block of its zones; a block's     *)
(* bytes are one value.                                                    *)
(***************************************************************************)
EXTENDS Integers, Sequences

CONSTANTS
    Settings,       \* what a save call stores
    Layout,         \* the zones of each setting, in the order they are written
    ZoneOrder,      \* all zones, in the order enableHostSecureChannel converts them
    Blocks,         \* the number of envelope blocks of each zone
    Values

Zones == {ZoneOrder[i] : i \in 1..Len(ZoneOrder)}
Zero == 0           \* what a block holds that was erased or never written
Unknown == -1
MaxBlocks == CHOOSE n \in {Blocks[z] : z \in Zones} : \A z \in Zones : Blocks[z] <= n

NoneTwice(zs) == \A i, j \in 1..Len(zs) : zs[i] = zs[j] => i = j

ASSUME EEPROMAssumption ==
    /\ Values \subseteq Nat \ {Zero}
    /\ ZoneOrder \in Seq(Zones) /\ Len(ZoneOrder) > 0 /\ NoneTwice(ZoneOrder)
    /\ Blocks \in [Zones -> Nat \ {0}] /\ MaxBlocks \in Nat /\ \A z \in Zones : Blocks[z] <= MaxBlocks
    /\ Layout \in [Settings -> Seq(Zones)]
    /\ \A s \in Settings : Len(Layout[s]) > 0 /\ NoneTwice(Layout[s])

VARIABLES
    zones,          \* the chip: each zone's blocks
    secure,         \* isHostSecureChannelEnabled
    eeCall,         \* the call under way
    eeBuf,          \* the buffer enableHostSecureChannel reads each zone into
    kept            \* history: what the last successful save left in a zone

eepromVars == <<zones, secure, eeCall, eeBuf, kept>>

Idle == [op |-> "idle"]
Block(val) == [enveloped |-> secure, val |-> val]

EEPROMInit ==
    /\ zones = [z \in Zones |-> [b \in 1..Blocks[z] |-> [enveloped |-> FALSE, val |-> Zero]]]
    /\ secure = FALSE
    /\ eeCall = Idle
    /\ eeBuf = [b \in 1..MaxBlocks |-> Zero]
    /\ kept = [z \in Zones |-> Unknown]

\* Nobody relies any longer on what these zones hold.
Forget(zs) == kept' = [z \in Zones |-> IF z \in zs THEN Unknown ELSE kept[z]]
ToDo(c) == {c.todo[i] : i \in 1..Len(c.todo)}
Zone == Head(eeCall.todo)

-----------------------------------------------------------------------------
(* A read that fails ends the call.  With the secure channel the block     *)
(* that could not be read is overwritten with zeros; that store may fail   *)
(* too.                                                                    *)
ReadFails(z, b) ==
    /\ \/ zones' = IF secure THEN [zones EXCEPT ![z][b] = Block(Zero)] ELSE zones
       \/ UNCHANGED zones
    /\ Forget({z})

\* An enveloped block can be read only when it was stored in one.
Readable(z, b) == zones[z][b].enveloped = secure

\* The chip stores a value, reports a success that left zeros, or refuses.
StoreOutcomes(val) == {val, Zero}

-----------------------------------------------------------------------------
(* saveWiFiSetting, saveDeviceConnectionString, saveX509Cert, and the      *)
(* console's and the web form's single-zone credentials: a writeWithVerify *)
(* per zone.                                                               *)
save(s, val) ==
    /\ eeCall = Idle
    /\ eeCall' = [op |-> "save", todo |-> Layout[s], val |-> val, of |-> s,
                  phase |-> IF secure THEN "load" ELSE "store", blk |-> 1]
    /\ Forget({Layout[s][i] : i \in 1..Len(Layout[s])})
    /\ UNCHANGED <<zones, secure, eeBuf>>

InPhase(op, phase) == eeCall.op = op /\ eeCall.phase = phase
LastBlock == eeCall.blk = Blocks[Zone]
Step(next) ==
    eeCall' = IF LastBlock THEN [eeCall EXCEPT !.phase = next, !.blk = 1]
              ELSE [eeCall EXCEPT !.blk = @ + 1]

\* writeWithEnvelope first reads the blocks it is about to replace.
Load ==
    /\ InPhase("save", "load")
    /\ Readable(Zone, eeCall.blk)
    /\ Step("store")
    /\ UNCHANGED <<zones, secure, eeBuf, kept>>

LoadFails ==
    /\ InPhase("save", "load")
    /\ eeCall' = Idle
    /\ ReadFails(Zone, eeCall.blk)
    /\ UNCHANGED <<secure, eeBuf>>

\* One command per enveloped block; one for the zone without the envelope.
Store ==
    /\ InPhase("save", "store")
    /\ \E val \in StoreOutcomes(eeCall.val) :
         IF secure
           THEN /\ zones' = [zones EXCEPT ![Zone][eeCall.blk] = Block(val)]
                /\ Step("verify")
           ELSE /\ zones' = [zones EXCEPT ![Zone] = [b \in 1..Blocks[Zone] |-> Block(val)]]
                /\ eeCall' = [eeCall EXCEPT !.phase = "verify"]
    /\ UNCHANGED <<secure, eeBuf, kept>>

StoreFails ==
    /\ InPhase("save", "store")
    /\ eeCall' = Idle
    /\ UNCHANGED <<zones, secure, eeBuf, kept>>

\* The zone has been verified: the next one, or success.
NextZone ==
    IF Len(eeCall.todo) > 1
      THEN /\ eeCall' = [eeCall EXCEPT !.todo = Tail(@), !.blk = 1,
                                       !.phase = IF secure THEN "load" ELSE "store"]
           /\ UNCHANGED kept
      ELSE /\ eeCall' = Idle
           /\ kept' = [z \in Zones |->
                 IF \E i \in 1..Len(Layout[eeCall.of]) : Layout[eeCall.of][i] = z
                   THEN eeCall.val ELSE kept[z]]

Verify ==
    /\ InPhase("save", "verify")
    /\ Readable(Zone, eeCall.blk)
    /\ IF zones[Zone][eeCall.blk].val # eeCall.val
         THEN eeCall' = Idle /\ UNCHANGED kept
         ELSE IF LastBlock THEN NextZone ELSE Step("verify") /\ UNCHANGED kept
    /\ UNCHANGED <<zones, secure, eeBuf>>

VerifyFails ==
    /\ InPhase("save", "verify")
    /\ eeCall' = Idle
    /\ ReadFails(Zone, eeCall.blk)
    /\ UNCHANGED <<secure, eeBuf>>

-----------------------------------------------------------------------------
\* read (readWiFiSetting and the others): a success changes nothing.
read(z, b) ==
    /\ eeCall = Idle
    /\ ReadFails(z, b)
    /\ UNCHANGED <<secure, eeCall, eeBuf>>

-----------------------------------------------------------------------------
(* enableHostSecureChannel: Init_Perso switches the chip and the host over, *)
(* then every zone is read as it was and stored in envelopes.  On a device *)
(* that has it already nothing happens.                                    *)
enableHostSecureChannel ==
    /\ eeCall = Idle /\ ~secure
    /\ secure' = TRUE
    /\ eeCall' = [op |-> "enable", todo |-> ZoneOrder, phase |-> "get", blk |-> 1]
    /\ UNCHANGED <<zones, eeBuf, kept>>

\* A failed readWithoutEnvelope is not noticed: the buffer keeps the zone before.
EnableGet ==
    /\ InPhase("enable", "get")
    /\ eeCall' = [eeCall EXCEPT !.phase = "put"]
    /\ \/ /\ eeBuf' = [b \in 1..MaxBlocks |->
                          IF b \in 1..Blocks[Zone] THEN zones[Zone][b].val ELSE eeBuf[b]]
          /\ UNCHANGED kept
       \/ UNCHANGED eeBuf /\ Forget({Zone})
    /\ UNCHANGED <<zones, secure>>

\* Mutation: the last, shorter block of a zone is not converted.
EnablePut_OneShort ==
    /\ InPhase("enable", "put")
    /\ zones' = IF LastBlock /\ Blocks[Zone] > 1 THEN zones
                ELSE [zones EXCEPT ![Zone][eeCall.blk] = Block(eeBuf[eeCall.blk])]
    /\ eeCall' = IF ~LastBlock THEN [eeCall EXCEPT !.blk = @ + 1]
                 ELSE IF Len(eeCall.todo) = 1 THEN Idle
                 ELSE [eeCall EXCEPT !.todo = Tail(@), !.phase = "get", !.blk = 1]
    /\ UNCHANGED <<secure, eeBuf, kept>>

EnablePut ==
    /\ InPhase("enable", "put")
    /\ zones' = [zones EXCEPT ![Zone][eeCall.blk] = Block(eeBuf[eeCall.blk])]
    /\ eeCall' = IF ~LastBlock THEN [eeCall EXCEPT !.blk = @ + 1]
                 ELSE IF Len(eeCall.todo) = 1 THEN Idle
                 ELSE [eeCall EXCEPT !.todo = Tail(@), !.phase = "get", !.blk = 1]
    /\ UNCHANGED <<secure, eeBuf, kept>>

\* The zones not yet converted stay as they are; no later call converts them.
EnablePutFails ==
    /\ InPhase("enable", "put")
    /\ eeCall' = Idle
    /\ Forget(ToDo(eeCall))
    /\ UNCHANGED <<zones, secure, eeBuf>>

\* Power fails, or the device is reset, between two commands.
PowerLoss ==
    /\ eeCall # Idle
    /\ eeCall' = Idle
    /\ eeBuf' = [b \in 1..MaxBlocks |-> Zero]
    /\ Forget(ToDo(eeCall))
    /\ UNCHANGED <<zones, secure>>

-----------------------------------------------------------------------------
EEPROMNext ==
    \/ \E s \in Settings, val \in Values : save(s, val)
    \/ Load \/ LoadFails \/ Store \/ StoreFails \/ Verify \/ VerifyFails
    \/ \E z \in Zones : \E b \in 1..Blocks[z] : read(z, b)
    \/ enableHostSecureChannel \/ EnableGet \/ EnablePut \/ EnablePutFails
    \/ PowerLoss

EEPROMSpec == EEPROMInit /\ [][EEPROMNext]_eepromVars

-----------------------------------------------------------------------------
(* Types.                                                                  *)
EEPROMTypeOK ==
    /\ \A z \in Zones : zones[z] \in [1..Blocks[z] ->
                           [enveloped : BOOLEAN, val : Values \cup {Zero}]]
    /\ secure \in BOOLEAN
    /\ eeCall.op \in {"idle", "save", "enable"}
    /\ eeCall # Idle => Len(eeCall.todo) > 0 /\ eeCall.blk \in 1..Blocks[Zone]
    /\ eeBuf \in [1..MaxBlocks -> Values \cup {Zero}]
    /\ kept \in [Zones -> Values \cup {Unknown}]

(* A setting whose save reported success stays readable, through later     *)
(* calls, interrupted saves of other settings and the conversion to        *)
(* envelopes, until it is saved again, one of its own reads fails, or the  *)
(* conversion was interrupted before its zone or could not read it.        *)
KeptIsReadable ==
    eeCall = Idle =>
        \A z \in Zones : kept[z] # Unknown =>
            \A b \in 1..Blocks[z] : zones[z][b] = Block(kept[z])

(* An interrupted save leaves a prefix of its zones new: no zone receives  *)
(* a value before the zones in front of it have been verified with theirs, *)
(* so the password on the chip is never newer than the network name.       *)
WrittenInOrder ==
    [][\A s \in Settings : \A i \in 2..Len(Layout[s]) : \A val \in Values :
         LET z == Layout[s][i]
             before == Layout[s][i - 1]
             Holds(chip, zone) == \A b \in 1..Blocks[zone] : chip[zone][b].val = val
         IN  eeCall.op = "save" /\ eeCall.of = s /\ ~Holds(zones, z) /\ Holds(zones', z)
               => Holds(zones, before)]_eepromVars

-----------------------------------------------------------------------------
(* The inductive invariant: how far the call under way has come, what the  *)
(* zones behind it hold, and that nobody relies on the ones it may have    *)
(* disturbed.                                                              *)
HoldsAll(z, val) == \A b \in 1..Blocks[z] : zones[z][b] = Block(val)
KeptHolds(zs) == \A z \in zs : kept[z] # Unknown => HoldsAll(z, kept[z])

SaveCalls ==
    [op : {"save"}, todo : Seq(Zones), val : Values, of : Settings,
     phase : {"load", "store", "verify"}, blk : Nat]
EnableCalls == [op : {"enable"}, todo : Seq(Zones), phase : {"get", "put"}, blk : Nat]
CallTyped ==
    \/ eeCall = Idle
    \/ /\ eeCall \in SaveCalls \cup EnableCalls
       /\ Len(eeCall.todo) > 0 /\ eeCall.blk \in 1..Blocks[Zone]

\* The zones in front of the call's have been verified, and so has the part of its
\* zone in front of its block.
SaveKnown ==
    eeCall \in SaveCalls =>
        LET zs == Layout[eeCall.of]
            done == Len(zs) - Len(eeCall.todo)
        IN  /\ done >= 0 /\ \A j \in 1..Len(eeCall.todo) : eeCall.todo[j] = zs[done + j]
            /\ \A i \in 1..done : HoldsAll(zs[i], eeCall.val)
            /\ \A i \in 1..Len(zs) : kept[zs[i]] = Unknown
            /\ eeCall.phase = "verify" =>
                  \A b \in 1..(eeCall.blk - 1) : zones[Zone][b] = Block(eeCall.val)
            /\ ~secure /\ eeCall.phase # "verify" => eeCall.phase = "store" /\ eeCall.blk = 1
            /\ KeptHolds(Zones)

\* The zones still to be converted hold what they held, and the buffer holds what
\* the zone being converted held.
EnableKnown ==
    eeCall \in EnableCalls =>
        /\ secure
        /\ \A i, j \in 1..Len(eeCall.todo) : eeCall.todo[i] = eeCall.todo[j] => i = j
        /\ KeptHolds(Zones \ ToDo(eeCall))
        /\ \A i \in 1..Len(eeCall.todo) :
              (i > 1 \/ eeCall.phase = "get") /\ kept[eeCall.todo[i]] # Unknown =>
                  \A b \in 1..Blocks[eeCall.todo[i]] :
                      zones[eeCall.todo[i]][b].val = kept[eeCall.todo[i]]
        /\ eeCall.phase = "get" => eeCall.blk = 1
        /\ eeCall.phase = "put" /\ kept[Zone] # Unknown =>
              /\ \A b \in 1..Blocks[Zone] : eeBuf[b] = kept[Zone]
              /\ \A b \in 1..(eeCall.blk - 1) : zones[Zone][b] = Block(kept[Zone])

ChipShaped == zones = [z \in Zones |-> zones[z]]

EEPROMInv == EEPROMTypeOK /\ ChipShaped /\ CallTyped /\ SaveKnown /\ EnableKnown /\ KeptIsReadable

=============================================================================
