-------------------------- MODULE SensorRegisters --------------------------
(***************************************************************************)
(* The register file of a sensor behind an I2C bus that may fail, and the  *)
(* driver functions that change one field at a time.  One field is         *)
(* watched: the value its setter last reported stored must be what its     *)
(* getter reads, whatever the setters of its neighbours have done since.   *)
(***************************************************************************)
EXTENDS RegisterFields

CONSTANTS Registers,    \* names of the registers
          Accessors,    \* the fields with a setter
          PowerOn,      \* contents the registers may have at power on
          NoValue,      \* the watched field has not been set
          NoCall,       \* no setter is running
          MaxSets       \* bound: setter calls in a behaviour

ASSUME PowerOnIsBytes == PowerOn \subseteq [Registers -> SUBSET Bit]

\* Every field lies in registers of the chip, and no member of its type has a
\* bit outside its mask.
ASSUME FieldsFit ==
    \A f \in Accessors :
        /\ f.order \in Seq(Registers) /\ Len(f.order) > 0
        /\ DOMAIN f.mask = { f.order[i] : i \in 1 .. Len(f.order) }
        /\ \A r \in DOMAIN f.mask : f.mask[r] # {} /\ f.mask[r] \subseteq Bit
        /\ \A v \in f.values : v \in [DOMAIN f.mask -> SUBSET Bit]
                               /\ \A r \in DOMAIN f.mask : v[r] \subseteq f.mask[r]

ASSUME MarkersAreNoData ==
    \A f \in Accessors :
        /\ NoValue \notin f.values
        /\ \A v \in f.values, k \in 1 .. Len(f.order) :
              NoCall # [field |-> f, value |-> v, part |-> k]

ASSUME MaxSetsIsNat == MaxSets \in Nat

VARIABLES regs,         \* the chip's registers, each a byte
          watched,      \* the field this behaviour is about
          stored,       \* what its setter last reported stored
          call,         \* the setter running: its field, value and next register
          sets          \* setter calls so far

registerVars == <<regs, watched, stored, call, sets>>

RegistersInit ==
    /\ regs \in PowerOn
    /\ watched \in Accessors
    /\ stored = NoValue /\ call = NoCall /\ sets = 0

Overlaps(f, g) ==
    \E r \in (DOMAIN f.mask) \cap (DOMAIN g.mask) : f.mask[r] \cap g.mask[r] # {}

SharesRegister(f, g) == (DOMAIN f.mask) \cap (DOMAIN g.mask) # {}

\* What the R_ function of field f reads.
R(f) == [r \in DOMAIN f.mask |-> Masked(regs[r], f.mask[r])]

\* A setter is called.  Setters of other registers than the watched field's
\* change no byte this behaviour is about, and are left out.
W(f, v) ==
    /\ call = NoCall /\ sets < MaxSets /\ SharesRegister(f, watched)
    /\ call' = [field |-> f, value |-> v, part |-> 1]
    /\ stored' = IF Overlaps(f, watched) THEN NoValue ELSE stored
    /\ sets' = sets + 1
    /\ UNCHANGED <<regs, watched>>

\* The register the running setter is at, and that register with the field in it.
Target == call.field.order[call.part]
Written ==
    [regs EXCEPT ![Target] = Merge(regs[Target], call.field.mask[Target], call.value[Target])]

\* read_reg or write_reg fails: the setter returns MEMS_ERROR at once.  A byte
\* whose write was reported as failed may have reached the chip.
BusError ==
    /\ call # NoCall
    /\ regs' \in {regs, Written}
    /\ call' = NoCall
    /\ UNCHANGED <<watched, stored, sets>>

\* One register read, merged and written back; after the last one the setter
\* returns MEMS_SUCCESS.
WritePart ==
    /\ call # NoCall
    /\ regs' = Written
    /\ \/ /\ call.part < Len(call.field.order)
          /\ call' = [call EXCEPT !.part = @ + 1]
          /\ UNCHANGED stored
       \/ /\ call.part = Len(call.field.order)
          /\ call' = NoCall
          /\ stored' = IF call.field = watched THEN call.value ELSE stored
    /\ UNCHANGED <<watched, sets>>

RegistersNext ==
    \/ \E f \in Accessors : \E v \in f.values : W(f, v)
    \/ BusError
    \/ WritePart

RegistersSpec == RegistersInit /\ [][RegistersNext]_registerVars

(* Types.                                                                  *)
RegistersTypeOK ==
    /\ regs \in [Registers -> SUBSET Bit]
    /\ watched \in Accessors
    /\ stored \in watched.values \cup {NoValue}
    /\ sets \in 0 .. MaxSets
    /\ \/ call = NoCall
       \/ /\ call.field \in Accessors /\ call.value \in call.field.values
          /\ call.part \in 1 .. Len(call.field.order)

(* What a setter reported stored is what the getter reads, until the field *)
(* or one that overlaps it is set again: setters of neighbouring fields,   *)
(* complete or cut short by the bus, leave its bits alone.                 *)
FieldReadsBack == stored # NoValue => R(watched) = stored

(* Why FieldReadsBack holds, one part for each fact it needs.              *)
\* The running setter is one of the chip's, asked for a value of its type.
SetterKnown ==
    \/ call = NoCall
    \/ \E f \in Accessors : \E v \in f.values, k \in 1 .. Len(f.order) :
          call = [field |-> f, value |-> v, part |-> k]

\* Nothing is claimed of the watched field while a setter of its bits runs.
ClaimSuspended ==
    call # NoCall /\ Overlaps(call.field, watched) => stored = NoValue

\* The registers the watched field's setter has done hold the value's parts.
PartsDone ==
    call # NoCall /\ call.field = watched =>
        \A k \in 1 .. call.part - 1 :
            Masked(regs[watched.order[k]], watched.mask[watched.order[k]])
                = call.value[watched.order[k]]

RegistersInv ==
    RegistersTypeOK /\ SetterKnown /\ ClaimSuspended /\ PartsDone /\ FieldReadsBack

=============================================================================
