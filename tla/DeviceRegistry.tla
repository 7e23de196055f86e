--------------------------- MODULE DeviceRegistry ---------------------------
(***************************************************************************)
(* trust::DeviceRegistry (enterprise_trust.cpp): the devices a control     *)
(* plane knows and the certificate each one holds.  A device is looked up  *)
(* by its id and never leaves the registry, so the vector is a function    *)
(* here.  The attestation of a device that enrols proves the binding and   *)
(* the key it presents; zero values and the TPM flags are left out.        *)
(***************************************************************************)
EXTENDS LeaseClock

CONSTANTS Devices, Serials, Keys, Bindings,
          MaxEpoch     \* bound on the certificates of one device

ASSUME RegistryAssumption == MaxEpoch \in Nat \ {0}

VARIABLE registry

registryVars == <<registry, now>>

Unknown == [status |-> "unknown"]

Windows == {w \in [from : Times, until : Times] : w.from < w.until}

Identities ==
  [status : {"active", "revoked"}, serial : Serials, key : Keys, binding : Bindings,
   validity : Windows, epoch : 1..MaxEpoch]

RegistryTypeOK == registry \in [Devices -> Identities \union {Unknown}]

RegistryInit == registry = [d \in Devices |-> Unknown]

Known(d) == registry[d] # Unknown
Active(d) == Known(d) /\ registry[d].status = "active"

TakenByOther(d, serial, key) ==
  \E o \in Devices \ {d} : Known(o) /\ (registry[o].serial = serial \/ registry[o].key = key)

\* Fault: a revoked device may enrol again
Enroll_Again(d, serial, key, binding, w) ==
  /\ ~Active(d) /\ Within(w, now)
  /\ ~TakenByOther(d, serial, key)
  /\ registry' = [registry EXCEPT ![d] =
       [status |-> "active", serial |-> serial, key |-> key, binding |-> binding,
        validity |-> w, epoch |-> 1]]

\* a device id enrols once, with a certificate that is valid now
Enroll(d, serial, key, binding, w) ==
  /\ ~Known(d) /\ Within(w, now)
  /\ ~TakenByOther(d, serial, key)
  /\ registry' = [registry EXCEPT ![d] =
       [status |-> "active", serial |-> serial, key |-> key, binding |-> binding,
        validity |-> w, epoch |-> 1]]

\* Fault: only the serial is looked for
Rotate_KeyUnchecked(d, serial, key, w) ==
  /\ Active(d) /\ registry[d].epoch < MaxEpoch
  /\ serial # registry[d].serial
  /\ ~\E o \in Devices \ {d} : Known(o) /\ registry[o].serial = serial
  /\ registry' = [registry EXCEPT ![d].serial = serial, ![d].key = key,
                                  ![d].validity = w, ![d].epoch = @ + 1]

(* An active device, named with the serial it holds, gets another serial   *)
(* and a key nobody else holds, valid whenever the caller says: the window *)
(* need not contain the present.                                           *)
Rotate(d, serial, key, w) ==
  /\ Active(d) /\ registry[d].epoch < MaxEpoch
  /\ serial # registry[d].serial
  /\ ~TakenByOther(d, serial, key)
  /\ registry' = [registry EXCEPT ![d].serial = serial, ![d].key = key,
                                  ![d].validity = w, ![d].epoch = @ + 1]

Revoke(d) == Known(d) /\ registry' = [registry EXCEPT ![d].status = "revoked"]

\* authorize, of a caller who presents a certificate and a hardware binding
Authorized(d, serial, binding) ==
  /\ Active(d)
  /\ registry[d].serial = serial /\ registry[d].binding = binding
  /\ Within(registry[d].validity, now)

RegistryNext ==
  \/ Tick /\ UNCHANGED registry
  \/ /\ \E d \in Devices : \/ Revoke(d)
                           \/ \E s \in Serials, k \in Keys, w \in Windows :
                                Rotate(d, s, k, w) \/ \E b \in Bindings : Enroll(d, s, k, b, w)
     /\ UNCHANGED now

-----------------------------------------------------------------------------
(* A certificate serial and a public key belong to one device at a time,   *)
(* through every order of enrolments, rotations and revocations; what a    *)
(* revoked device held stays taken.  Enroll and rotate each look for the   *)
(* pair in the whole registry, at different places and with different      *)
(* exceptions.                                                             *)
CredentialsAreUnique ==
  \A d, o \in Devices :
    Known(d) /\ Known(o) /\ (registry[d].serial = registry[o].serial \/ registry[d].key = registry[o].key)
      => d = o

(* Who is refused stays refused until the device enrols, gets the          *)
(* certificate he presents by a rotation, or the certificate it holds      *)
(* becomes valid by the passing of time.  In particular nothing lets a     *)
(* revoked device in again, and no other hardware gets to use its id.      *)
RefusedStaysRefused ==
  [][\A d \in Devices, s \in Serials, b \in Bindings :
       ~Authorized(d, s, b) /\ Authorized(d, s, b)' /\ Known(d) =>
         /\ Active(d) /\ registry[d].binding = b
         /\ registry[d].serial = s => registry[d].validity.from = now']_registryVars
=============================================================================
