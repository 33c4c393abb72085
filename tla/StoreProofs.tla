---------------------------- MODULE StoreProofs -----------------------------
(***************************************************************************)
(* SerializedStore implements AtomicStore, for any set of calls, any       *)
(* contents and any operations on them.                                    *)
(***************************************************************************)
EXTENDS SerializedStore, TLAPS

\* The abstract step of a rename is the effect of the head on the present
\* content, so what is renamed must be that effect and be on the disk.
Inv ==
    /\ TypeOK
    /\ file \in Content /\ onDisk \subseteq Content
    /\ WritesAreFresh
    /\ step = "rename" => tmp = data
    /\ file \in onDisk

LEMMA InitInv == Init => Inv
  BY StoreConstants DEF Init, Inv, TypeOK, Steps, WritesAreFresh

LEMMA AdvanceInv ==
  ASSUME Inv, Advance
  PROVE  Inv'
PROOF
  <1> USE StoreConstants DEF Inv, TypeOK, Steps, WritesAreFresh, ioVars
  <1>1. CASE Read
    <2>1. Head(queue) \in Call /\ Tail(queue) \in Seq(Call)  BY <1>1 DEF Read
    <2>2. Effect[Head(queue)][file] \in Content \cup {Refused}  BY <2>1
    <2>3. CASE Effect[Head(queue)][file] = Refused
      BY <1>1, <2>1, <2>3 DEF Read, Settle
    <2>4. CASE Effect[Head(queue)][file] # Refused
      BY <1>1, <2>2, <2>4 DEF Read
    <2> QED BY <2>3, <2>4
  <1>2. CASE OpenTmp   BY <1>2 DEF OpenTmp
  <1>3. CASE WriteTmp  BY <1>3 DEF WriteTmp
  <1>4. CASE SyncTmp   BY <1>4 DEF SyncTmp
  <1>5. CASE Rename    BY <1>5 DEF Rename, Settle
  <1>6. CASE IOFails   BY <1>6 DEF IOFails, Settle
  <1> QED BY <1>1, <1>2, <1>3, <1>4, <1>5, <1>6 DEF Advance

LEMMA MutateInv ==
  ASSUME Inv, NEW c \in Call, Mutate(c)
  PROVE  Inv'
PROOF
  <1>1. queue' \in Seq(Call) /\ queue' # <<>>
    BY DEF Inv, TypeOK, Mutate
  <1>2. queue # <<>> => Head(queue') = Head(queue)
    BY DEF Inv, TypeOK, Mutate
  <1> QED
    BY <1>1, <1>2 DEF Inv, TypeOK, Steps, WritesAreFresh, ioVars, Mutate

LEMMA OtherInv ==
  ASSUME Inv, Commit \/ ProcessDies \/ PowerLoss
  PROVE  Inv'
PROOF
  <1> USE DEF Inv, TypeOK, Steps, WritesAreFresh, ioVars
  <1>1. CASE Commit  BY <1>1 DEF Commit
  <1>2. CASE ProcessDies \/ PowerLoss
    <2>1. queue' = <<>> /\ step' = "read" /\ restarts' \in Nat /\ UNCHANGED <<tmp, data>>
      BY <1>2 DEF ProcessDies, PowerLoss, Die
    <2>2. result' \in [Call -> {"uncalled", "pending", "resolved", "rejected", "lost"}]
      BY <1>2 DEF ProcessDies, PowerLoss, Die
    <2>3. file' \in onDisk' /\ onDisk' \subseteq onDisk \cup (IF step = "rename" THEN {tmp} ELSE {})
      BY <1>2 DEF ProcessDies, PowerLoss
    <2> QED BY <2>1, <2>2, <2>3
  <1> QED BY <1>1, <1>2

LEMMA InvHolds == Spec => []Inv
PROOF
  <1>1. Inv /\ [Next]_vars => Inv'
    <2> SUFFICES ASSUME Inv, [Next]_vars PROVE Inv'  OBVIOUS
    <2>1. CASE Next
      BY <2>1, MutateInv, AdvanceInv, OtherInv DEF Next
    <2>2. CASE UNCHANGED vars
      BY <2>2 DEF vars, ioVars, Inv, TypeOK, WritesAreFresh
    <2> QED BY <2>1, <2>2
  <1> QED BY <1>1, InitInv, PTL DEF Spec

\* Every step keeps the variables in their types.
THEOREM StoreTypeCorrect == Spec => []TypeOK
PROOF
  <1>1. Inv => TypeOK
    BY DEF Inv
  <1> QED BY <1>1, InvHolds, PTL

\* With Torn no content, neither a dying process nor a power loss leaves a
\* file that a reader cannot parse.
THEOREM StoreIsNeverTorn == Spec => []NeverTorn
PROOF
  <1>1. Inv => NeverTorn
    BY TornType DEF Inv, TypeOK, NeverTorn
  <1> QED BY <1>1, InvHolds, PTL

\* No operation writes from a content that has changed since it read it.
THEOREM StoreWritesAreFresh == Spec => []WritesAreFresh
PROOF
  <1>1. Inv => WritesAreFresh  BY DEF Inv
  <1> QED BY <1>1, InvHolds, PTL

\* The serializer and the atomic write together are the abstract store:
\* mutations take effect in call order, wholly or not at all.
THEOREM ImplementsAtomicStore == Spec => IsAtomicStore
PROOF
  <1>1. Init => Atomic!Init
    BY DEF Init, Atomic!Init
  <1>2. Inv /\ [Next]_vars => [Atomic!Next]_Atomic!vars
    <2> SUFFICES ASSUME Inv, [Next]_vars PROVE [Atomic!Next]_Atomic!vars  OBVIOUS
    <2> USE DEF Inv, TypeOK, ioVars, Atomic!vars
    <2>1. CASE \E c \in Call : Mutate(c)
      BY <2>1 DEF Mutate, Atomic!Next, Atomic!Mutate
    <2>2. CASE Read
      <3>1. CASE Effect[Head(queue)][file] = Refused
        BY <2>2, <3>1 DEF Read, Settle, Atomic!Next, Atomic!Reject, Atomic!Settle
      <3>2. CASE Effect[Head(queue)][file] # Refused
        BY <2>2, <3>2 DEF Read
      <3> QED BY <3>1, <3>2
    <2>3. CASE OpenTmp \/ WriteTmp \/ SyncTmp
      BY <2>3 DEF OpenTmp, WriteTmp, SyncTmp
    <2>4. CASE Rename
      <3>1. data = Effect[Head(queue)][file] /\ data # Refused /\ tmp = data /\ queue # <<>>
        BY <2>4, StoreConstants DEF Rename, WritesAreFresh
      <3>2. Atomic!TakeEffect
        BY <2>4, <3>1 DEF Rename, Settle, Atomic!TakeEffect, Atomic!Settle
      <3> QED BY <3>2 DEF Atomic!Next
    <2>5. CASE IOFails
      BY <2>5 DEF IOFails, Settle, Atomic!Next, Atomic!Reject, Atomic!Settle
    <2>6. CASE Commit
      BY <2>6 DEF Commit, Atomic!Next, Atomic!Commit
    <2>7. CASE ProcessDies \/ PowerLoss
      <3>1. step = "rename" => tmp = data /\ data \in Atomic!CutOff
        BY StoreConstants DEF WritesAreFresh, Atomic!CutOff
      <3>2. onDisk' \subseteq onDisk \cup Atomic!CutOff /\ file' \in {file} \cup onDisk \cup Atomic!CutOff
        BY <2>7, <3>1 DEF ProcessDies, PowerLoss
      <3>3. file' \in onDisk'
        BY <2>7, <3>1 DEF ProcessDies, PowerLoss
      <3>4. Atomic!Restart
        BY <2>7, <3>2, <3>3 DEF ProcessDies, PowerLoss, Die, Atomic!Restart
      <3> QED BY <3>4 DEF Atomic!Next
    <2>8. CASE UNCHANGED vars
      BY <2>8 DEF vars
    <2> QED
      BY <2>1, <2>2, <2>3, <2>4, <2>5, <2>6, <2>7, <2>8 DEF Next, Advance
  <1> QED BY <1>1, <1>2, InvHolds, PTL DEF Spec, IsAtomicStore, Atomic!Spec
=============================================================================
