------------------------- MODULE AxpRegulatorProofs -------------------------
(***************************************************************************)
(* Proofs about the calls on regulators that share registers, for every     *)
(* table that satisfies InfoAssumption and whether or not transfers fail.    *)
(***************************************************************************)
EXTENDS AxpRegulator, TLAPS

Bytes == SUBSET (0 .. 7)

LEMMA BitsAreBits ==
    ASSUME NEW n, NEW b, NEW k
    PROVE  Bin(n) \in Bytes /\ Shifted(b, k) \in Bytes
  BY DEF Bin, Shifted, Bytes

LEMMA VolBitsAreBits ==
    ASSUME NEW i, NEW mv
    PROVE  VolBits(i, mv) \in Bytes
  BY BitsAreBits DEF VolBits

LEMMA UpdatedIsByte ==
    ASSUME NEW b \in Bytes, NEW val \in Bytes, NEW mask
    PROVE  Updated(b, val, mask) \in Bytes
  BY DEF Updated, Bytes

(* A bit outside what is written and what is masked stays as it is. *)
LEMMA UpdatedElsewhere ==
    ASSUME NEW b, NEW val, NEW mask, NEW other, other \cap (mask \cup val) = {}
    PROVE  Updated(b, val, mask) \cap other = b \cap other
  BY DEF Updated

LEMMA FieldsOf ==
    ASSUME NEW r \in Regulators
    PROVE  Fields(info[r]) /\ Steps(info[r])
  BY InfoAssumption

-----------------------------------------------------------------------------
(* What reaches the PMIC's voltage register in a call on r. *)
VolWritten(r) ==
    \E val \in Writes(r) \cap Bytes :
        reg' = [reg EXCEPT ![info[r].vol_reg] =
                   Ramped(info[r], Updated(reg[info[r].vol_reg], val, Mask(info[r])))]

Asked(r) ==
    IF HasTable(info[r]) THEN 0 .. (Len(info[r].vtable) - 1) ELSE info[r].min .. info[r].max

(* The outcomes of axp_set_voltage and axp_set_voltage_sel. *)
Started(r) ==
    /\ VolWritten(r)
    /\ \E next \in {"idle", "dvm"} :
         /\ info[r].dvm_finish_flag => next = "dvm"
         /\ IF next = "idle" THEN Finish(r, "ok")
            ELSE pc' = [pc EXCEPT ![r] = next] /\ UNCHANGED result

Failed(r) == (UNCHANGED reg \/ VolWritten(r)) /\ Finish(r, "error")

LEMMA CallCases ==
    ASSUME NEW r \in Regulators, SetVoltage(r) \/ SetVoltageSel(r)
    PROVE  /\ pc[r] = "idle" /\ UNCHANGED switched
           /\ Started(r) \/ Failed(r)
           /\ asked' = asked \/ \E a \in Asked(r) \cup {None} : asked' = [asked EXCEPT ![r] = a]
  <1>. Fields(info[r]) /\ Steps(info[r])
    BY FieldsOf
  <1>1. ASSUME SetVoltage(r)
        PROVE  /\ Started(r) \/ Failed(r)
               /\ asked' = asked \/ \E a \in Asked(r) \cup {None} : asked' = [asked EXCEPT ![r] = a]
    <2>1. PICK mv \in Requests[r] :
            IF mv < info[r].min \/ mv > info[r].max
            THEN Finish(r, "error") /\ UNCHANGED <<reg, asked, switched>>
            ELSE \/ WriteVol(r, VolBits(info[r], mv), mv,
                             IF info[r].dvm_reg = "none" THEN "idle" ELSE "dvm")
                 \/ VolFails(r, VolBits(info[r], mv))
      BY <1>1 DEF SetVoltage
    <2>2. CASE mv < info[r].min \/ mv > info[r].max
      BY <2>1, <2>2 DEF Failed
    <2>3. CASE ~(mv < info[r].min \/ mv > info[r].max)
      <3>1. mv \in Asked(r) /\ ~HasTable(info[r])
        BY <1>1, <2>3, InputsAssumption DEF Asked, SetVoltage, Steps
      <3>2. VolBits(info[r], mv) \in Writes(r) \cap Bytes
        BY <3>1, VolBitsAreBits DEF Writes, Asked
      <3>3. CASE WriteVol(r, VolBits(info[r], mv), mv,
                          IF info[r].dvm_reg = "none" THEN "idle" ELSE "dvm")
        <4>1. VolWritten(r)
          BY <3>2, <3>3 DEF WriteVol, VolWritten
        <4>2. Started(r)
          BY <3>3, <4>1 DEF WriteVol, Started, Fields
        <4>. QED  BY <3>1, <3>3, <4>2 DEF WriteVol
      <3>4. CASE VolFails(r, VolBits(info[r], mv))
        BY <3>2, <3>4 DEF VolFails, Failed, VolWritten
      <3>. QED  BY <2>1, <2>3, <3>3, <3>4
    <2>. QED  BY <2>2, <2>3
  <1>2. ASSUME SetVoltageSel(r)
        PROVE  /\ Started(r) \/ Failed(r)
               /\ asked' = asked \/ \E a \in Asked(r) \cup {None} : asked' = [asked EXCEPT ![r] = a]
    <2>1. PICK sel \in Requests[r] :
            \/ WriteVol(r, Shifted(Bin(sel), info[r].shift), sel, "idle")
            \/ VolFails(r, Shifted(Bin(sel), info[r].shift))
      BY <1>2 DEF SetVoltageSel
    <2>2. sel \in Asked(r) /\ HasTable(info[r])
      BY <1>2, InputsAssumption DEF Asked, SetVoltageSel
    <2>3. Shifted(Bin(sel), info[r].shift) \in Writes(r) \cap Bytes
      BY <2>2, BitsAreBits DEF Writes
    <2>4. CASE WriteVol(r, Shifted(Bin(sel), info[r].shift), sel, "idle")
      BY <2>2, <2>3, <2>4 DEF WriteVol, Started, VolWritten, Fields
    <2>5. CASE VolFails(r, Shifted(Bin(sel), info[r].shift))
      BY <2>3, <2>5 DEF VolFails, Failed, VolWritten
    <2>. QED  BY <2>1, <2>4, <2>5
  <1>3. pc[r] = "idle" /\ UNCHANGED switched
    BY DEF SetVoltage, SetVoltageSel, WriteVol, VolFails
  <1>. QED  BY <1>1, <1>2, <1>3

LEMMA NextCases ==
    ASSUME Next
    PROVE  \/ \E r \in Regulators : SetVoltage(r) \/ SetVoltageSel(r)
           \/ \E r \in Regulators, on \in BOOLEAN : Switch(r, on)
           \/ \E r \in Regulators : DvmCheck(r) \/ DvmWait(r) \/ DvmReadFails(r)
           \/ \E a \in Registers : RampEnds(a)
  BY DEF Next, Call, Wait

LEMMA RampedIsByte ==
    ASSUME NEW i, NEW b \in Bytes
    PROVE  Ramped(i, b) \in Bytes
  BY DEF Ramped, Bytes

LEMMA VolWrittenType ==
    ASSUME NEW r \in Regulators, VolWritten(r), reg \in [Registers -> Bytes]
    PROVE  reg' \in [Registers -> Bytes]
  <1>1. info[r].vol_reg \in Registers
    BY FieldsOf DEF Fields
  <1>. QED  BY <1>1, UpdatedIsByte, RampedIsByte DEF VolWritten
-----------------------------------------------------------------------------
(* Typing: registers stay bytes and every request that reaches the PMIC lies   *)
(* in the range of its regulator.                                              *)
LEMMA AskedIsInt ==
    ASSUME NEW r \in Regulators
    PROVE  Asked(r) \subseteq Int
  BY FieldsOf DEF Steps, Asked

LEMMA TypeStep == TypeOK /\ [Next]_vars => TypeOK'
  <1>. SUFFICES ASSUME TypeOK, [Next]_vars PROVE TypeOK'
    OBVIOUS
  <1>. USE DEF TypeOK, Bytes
  <1>1. ASSUME NEW r \in Regulators, SetVoltage(r) \/ SetVoltageSel(r) PROVE TypeOK'
    <2>1. reg' \in [Registers -> Bytes]
      BY <1>1, CallCases, VolWrittenType DEF Started, Failed
    <2>2. pc' \in [Regulators -> {"idle", "dvm", "wait"}] /\ result' \in [Regulators -> {"none", "ok", "error"}]
      <3>1. CASE Started(r)
        BY <3>1 DEF Started, Finish
      <3>2. CASE Failed(r)
        BY <3>2 DEF Failed, Finish
      <3>. QED  BY <1>1, <3>1, <3>2, CallCases
    <2>3. asked' \in [Regulators -> Int]
          /\ \A s \in Regulators : asked'[s] = None \/ asked'[s] \in Asked(s)
      <3>1. \A s \in Regulators : asked[s] = None \/ asked[s] \in Asked(s)
        BY DEF Asked
      <3>2. None \in Int
        BY DEF None
      <3>3. CASE asked' = asked
        BY <3>1, <3>3
      <3>4. ASSUME NEW a \in Asked(r) \cup {None}, asked' = [asked EXCEPT ![r] = a]
            PROVE  asked' \in [Regulators -> Int]
                   /\ \A s \in Regulators : asked'[s] = None \/ asked'[s] \in Asked(s)
        BY <3>1, <3>2, <3>4, AskedIsInt
      <3>. QED  BY <1>1, <3>3, <3>4, CallCases
    <2>4. UNCHANGED switched
      BY <1>1, CallCases
    <2>. QED  BY <2>1, <2>2, <2>3, <2>4 DEF Asked
  <1>2. ASSUME NEW r \in Regulators, NEW on \in BOOLEAN, Switch(r, on) PROVE TypeOK'
    <2>. DEFINE i == info[r]
                val == IF on THEN i.enable_val ELSE i.disable_val
    <2>0. Fields(info[r])
      BY FieldsOf
    <2>1. val \in Bytes /\ i.enable_reg \in Registers
      BY <2>0 DEF Fields
    <2>2. Updated(reg[i.enable_reg], val, i.enable_mask) \in Bytes
      BY <2>1, UpdatedIsByte
    <2>3. reg' = reg \/ reg' = [reg EXCEPT ![i.enable_reg] = Updated(reg[i.enable_reg], val, i.enable_mask)]
      BY <1>2 DEF Switch
    <2>4. reg' \in [Registers -> Bytes]
      BY <2>1, <2>2, <2>3
    <2>. QED  BY <1>2, <2>4 DEF Switch
  <1>3. ASSUME NEW r \in Regulators, DvmCheck(r) \/ DvmWait(r) \/ DvmReadFails(r) PROVE TypeOK'
    BY <1>3 DEF DvmCheck, DvmWait, DvmReadFails, Finish
  <1>4. ASSUME NEW a \in Registers, RampEnds(a) PROVE TypeOK'
    BY <1>4 DEF RampEnds
  <1>5. CASE UNCHANGED vars
    BY <1>5 DEF vars
  <1>. QED  BY <1>1, <1>2, <1>3, <1>4, <1>5, NextCases

(* TypeOK of axp-regulator.c's calls, for all tables and whatever fails.       *)
THEOREM Typing == Spec => []TypeOK
  <1>1. Init => TypeOK
    BY InputsAssumption DEF Init, TypeOK, None
  <1>. QED  BY <1>1, TypeStep, PTL DEF Spec
-----------------------------------------------------------------------------
(* Enable bits.  What changes a register leaves the enable fields in it alone, *)
(* except those of the regulator that is switched.                             *)
EnableField(s) == reg[info[s].enable_reg] \cap info[s].enable_mask

LEMMA VoltageKeepsEnables ==
    ASSUME TypeOK, NEW r \in Regulators, NEW s \in Regulators, VolWritten(r)
    PROVE  EnableField(s)' = EnableField(s)
  <1>. DEFINE i == info[r]
              j == info[s]
  <1>1. PICK val \in Writes(r) \cap Bytes :
          reg' = [reg EXCEPT ![i.vol_reg] = Ramped(i, Updated(reg[i.vol_reg], val, Mask(i)))]
    BY DEF VolWritten
  <1>2. CASE j.enable_reg # i.vol_reg
    <2>1. j.enable_reg \in Registers
      BY FieldsOf DEF Fields
    <2>2. reg'[j.enable_reg] = reg[j.enable_reg]
      BY <1>1, <1>2, <2>1 DEF TypeOK
    <2>. QED  BY <2>2 DEF EnableField
  <1>3. CASE j.enable_reg = i.vol_reg
    <2>1. Apart(s, r) /\ Fields(i)
      BY InfoAssumption, FieldsOf
    <2>2. j.enable_mask \cap (Mask(i) \cup UNION Writes(r)) = {} /\ ~i.dvm_finish_flag
      BY <1>3, <2>1 DEF Apart
    <2>3. Updated(reg[i.vol_reg], val, Mask(i)) \cap j.enable_mask = reg[i.vol_reg] \cap j.enable_mask
      BY <2>2 DEF Updated
    <2>4. Ramped(i, Updated(reg[i.vol_reg], val, Mask(i))) = Updated(reg[i.vol_reg], val, Mask(i))
      BY <2>2 DEF Ramped, HasRamp
    <2>5. i.vol_reg \in Registers
      BY <2>1 DEF Fields
    <2>. QED  BY <1>1, <1>3, <2>3, <2>4, <2>5 DEF EnableField, TypeOK
  <1>. QED  BY <1>2, <1>3

LEMMA RampKeepsEnables ==
    ASSUME TypeOK, NEW a \in Registers, NEW s \in Regulators, RampEnds(a)
    PROVE  EnableField(s)' = EnableField(s)
  <1>1. PICK r \in Regulators : info[r].vol_reg = a /\ HasRamp(info[r])
    BY DEF RampEnds
  <1>2. info[s].enable_reg # a
    <2>1. Apart(s, r)
      BY InfoAssumption
    <2>. QED  BY <1>1, <2>1 DEF Apart, HasRamp
  <1>. QED  BY <1>2 DEF EnableField, RampEnds, TypeOK

LEMMA SwitchKeepsOthers ==
    ASSUME TypeOK, NEW r \in Regulators, NEW s \in Regulators, r # s,
           NEW on \in BOOLEAN, Switch(r, on)
    PROVE  EnableField(s)' = EnableField(s)
  <1>. DEFINE i == info[r]
              j == info[s]
              val == IF on THEN i.enable_val ELSE i.disable_val
  <1>1. Fields(i) /\ Sharing(i, j) /\ j.enable_reg \in Registers
    BY InfoAssumption, FieldsOf DEF Fields
  <1>2. reg' = reg \/ reg' = [reg EXCEPT ![i.enable_reg] = Updated(reg[i.enable_reg], val, i.enable_mask)]
    BY DEF Switch
  <1>3. val \subseteq i.enable_mask /\ i.enable_reg \in Registers
    BY <1>1 DEF Fields
  <1>4. CASE j.enable_reg = i.enable_reg
    <2>1. (i.enable_mask \cup val) \cap j.enable_mask = {}
      BY <1>1, <1>3, <1>4 DEF Sharing
    <2>2. Updated(reg[i.enable_reg], val, i.enable_mask) \cap j.enable_mask = reg[i.enable_reg] \cap j.enable_mask
      BY <2>1 DEF Updated
    <2>. QED  BY <1>2, <1>3, <1>4, <2>2 DEF EnableField, TypeOK
  <1>5. CASE j.enable_reg # i.enable_reg
    <2>1. reg'[j.enable_reg] = reg[j.enable_reg]
      BY <1>1, <1>2, <1>5 DEF TypeOK
    <2>. QED  BY <2>1 DEF EnableField
  <1>. QED  BY <1>4, <1>5

(* The enable fields hold what was asked, the RTC's too: the invariant.       *)
FieldsAsAsked ==
    \A r \in Regulators :
        switched[r] # "none" => (EnableField(r) = info[r].enable_val <=> switched[r] = "on")

LEMMA SwitchedStep == TypeOK /\ FieldsAsAsked /\ [Next]_vars => FieldsAsAsked'
  <1>. SUFFICES ASSUME TypeOK, FieldsAsAsked, [Next]_vars, NEW s \in Regulators, switched'[s] # "none"
                PROVE  EnableField(s)' = info[s].enable_val <=> switched'[s] = "on"
    BY DEF FieldsAsAsked
  <1>1. switched[s] # "none" => (EnableField(s) = info[s].enable_val <=> switched[s] = "on")
    BY DEF FieldsAsAsked
  <1>3. ASSUME EnableField(s)' = EnableField(s), UNCHANGED switched
        PROVE  EnableField(s)' = info[s].enable_val <=> switched'[s] = "on"
    BY <1>1, <1>3
  <1>4. ASSUME UNCHANGED reg PROVE EnableField(s)' = EnableField(s)
    BY <1>4 DEF EnableField
  <1>5. ASSUME NEW r \in Regulators, SetVoltage(r) \/ SetVoltageSel(r)
        PROVE  EnableField(s)' = EnableField(s) /\ UNCHANGED switched
    BY <1>4, <1>5, CallCases, VoltageKeepsEnables DEF Started, Failed
  <1>6. ASSUME NEW r \in Regulators, NEW on \in BOOLEAN, Switch(r, on)
        PROVE  EnableField(s)' = info[s].enable_val <=> switched'[s] = "on"
    <2>1. CASE r # s
      <3>1. switched'[s] = switched[s]
        BY <1>6, <2>1 DEF Switch, TypeOK
      <3>. QED  BY <1>1, <1>6, <2>1, <3>1, SwitchKeepsOthers
    <2>2. CASE UNCHANGED <<reg, switched>>
      BY <1>3, <1>4, <2>2
    <2>3. CASE r = s /\ ~UNCHANGED <<reg, switched>>
      <3>. DEFINE i == info[s]
                  val == IF on THEN i.enable_val ELSE i.disable_val
      <3>1. Fields(i)
        BY FieldsOf
      <3>2. /\ reg' = [reg EXCEPT ![i.enable_reg] = Updated(reg[i.enable_reg], val, i.enable_mask)]
            /\ switched' = [switched EXCEPT ![s] = IF on THEN "on" ELSE "off"]
        BY <1>6, <2>3 DEF Switch
      <3>3. EnableField(s)' = Updated(reg[i.enable_reg], val, i.enable_mask) \cap i.enable_mask
        BY <3>1, <3>2 DEF Fields, EnableField, TypeOK
      <3>4. EnableField(s)' = val
        BY <3>1, <3>3 DEF Fields, Updated
      <3>. QED  BY <3>1, <3>2, <3>4 DEF Fields, TypeOK
    <2>. QED  BY <2>1, <2>2, <2>3
  <1>7. ASSUME NEW r \in Regulators, DvmCheck(r) \/ DvmWait(r) \/ DvmReadFails(r)
        PROVE  UNCHANGED <<reg, switched>>
    BY <1>7 DEF DvmCheck, DvmWait, DvmReadFails
  <1>8. ASSUME NEW a \in Registers, RampEnds(a)
        PROVE  EnableField(s)' = EnableField(s) /\ UNCHANGED switched
    BY <1>8, RampKeepsEnables DEF RampEnds
  <1>9. CASE UNCHANGED vars
    BY <1>3, <1>4, <1>9 DEF vars
  <1>. QED  BY <1>3, <1>4, <1>5, <1>6, <1>7, <1>8, <1>9, NextCases

(* axp_enable and axp_disable do what was asked and no other call undoes it:   *)
(* for all tables whose fields do not overlap, SwitchedAsAsked.                *)
THEOREM Switching == Spec => []SwitchedAsAsked
  <1>1. Init => FieldsAsAsked
    BY DEF Init, FieldsAsAsked
  <1>2. FieldsAsAsked => SwitchedAsAsked
    BY DEF FieldsAsAsked, SwitchedAsAsked, IsEnabled, EnableField
  <1>. QED  BY <1>1, <1>2, SwitchedStep, Typing, PTL DEF Spec
-----------------------------------------------------------------------------
(* Ramps.  The ramp-enable bits never change, and only the call that waits for *)
(* a ramp starts one.                                                          *)
LEMMA RampBitKept ==
    ASSUME TypeOK, [Next]_vars, NEW s \in Regulators
    PROVE  HasRamp(info[s])' <=> HasRamp(info[s])
  <1>. SUFFICES ASSUME info[s].dvm_finish_flag
                PROVE  reg'[info[s].dvm_reg] = reg[info[s].dvm_reg]
    BY DEF HasRamp
  <1>0. /\ info[s].dvm_reg \in Registers
        /\ \A r \in Regulators : info[s].dvm_reg # info[r].vol_reg /\ info[s].dvm_reg # info[r].enable_reg
    BY FieldsOf, InfoAssumption DEF Fields, Apart
  <1>1. ASSUME NEW r \in Regulators, SetVoltage(r) \/ SetVoltageSel(r)
        PROVE  reg'[info[s].dvm_reg] = reg[info[s].dvm_reg]
    <2>1. UNCHANGED reg \/ VolWritten(r)
      BY <1>1, CallCases DEF Started, Failed
    <2>. QED  BY <1>0, <2>1 DEF VolWritten, TypeOK
  <1>2. ASSUME NEW r \in Regulators, NEW on \in BOOLEAN, Switch(r, on)
        PROVE  reg'[info[s].dvm_reg] = reg[info[s].dvm_reg]
    BY <1>0, <1>2 DEF Switch, TypeOK
  <1>3. ASSUME NEW r \in Regulators, DvmCheck(r) \/ DvmWait(r) \/ DvmReadFails(r)
        PROVE  UNCHANGED reg
    BY <1>3 DEF DvmCheck, DvmWait, DvmReadFails
  <1>4. ASSUME NEW a \in Registers, RampEnds(a)
        PROVE  reg'[info[s].dvm_reg] = reg[info[s].dvm_reg]
    <2>1. info[s].dvm_reg # a
      BY <1>0, <1>4 DEF RampEnds
    <2>. QED  BY <1>4, <2>1 DEF RampEnds, TypeOK
  <1>5. CASE UNCHANGED vars
    BY <1>5 DEF vars
  <1>. QED  BY <1>1, <1>2, <1>3, <1>4, <1>5, NextCases

LEMMA RampStep == TypeOK /\ RampOverOnSuccess /\ [Next]_vars => RampOverOnSuccess'
  <1>. SUFFICES ASSUME TypeOK, RampOverOnSuccess, [Next]_vars, NEW s \in Regulators,
                       pc'[s] = "idle", result'[s] = "ok", HasRamp(info[s])'
                PROVE  7 \in reg'[info[s].vol_reg]
    BY DEF RampOverOnSuccess
  <1>. DEFINE over == 7 \in reg[info[s].vol_reg]
  <1>0. HasRamp(info[s]) /\ info[s].dvm_finish_flag
    BY RampBitKept DEF HasRamp
  <1>1. pc[s] = "idle" /\ result[s] = "ok" => over
    BY <1>0 DEF RampOverOnSuccess
  <1>2. ASSUME NEW r \in Regulators, SetVoltage(r) \/ SetVoltageSel(r) PROVE over'
    <2>1. CASE r = s
      <3>1. CASE Started(s)
        <4>1. PICK next \in {"idle", "dvm"} :
                /\ info[s].dvm_finish_flag => next = "dvm"
                /\ IF next = "idle" THEN Finish(s, "ok")
                   ELSE pc' = [pc EXCEPT ![s] = next] /\ UNCHANGED result
          BY <3>1 DEF Started
        <4>2. pc'[s] = "dvm"
          BY <1>0, <4>1 DEF TypeOK
        <4>. QED  BY <4>2
      <3>2. CASE Failed(s)
        <4>1. result'[s] = "error"
          BY <3>2 DEF Failed, Finish, TypeOK
        <4>. QED  BY <4>1
      <3>. QED  BY <1>2, <2>1, <3>1, <3>2, CallCases
    <2>2. CASE r # s
      <3>1. info[s].vol_reg # info[r].vol_reg
        <4>1. Sharing(info[s], info[r])
          BY <2>2, InfoAssumption
        <4>. QED  BY <1>0, <4>1 DEF Sharing
      <3>2. (UNCHANGED reg \/ VolWritten(r)) /\ pc'[s] = pc[s] /\ result'[s] = result[s]
        <4>1. CASE Started(r)
          BY <2>2, <4>1 DEF Started, Finish, TypeOK
        <4>2. CASE Failed(r)
          BY <2>2, <4>2 DEF Failed, Finish, TypeOK
        <4>. QED  BY <1>2, <4>1, <4>2, CallCases
      <3>3. reg'[info[s].vol_reg] = reg[info[s].vol_reg]
        <4>1. info[s].vol_reg \in Registers
          BY FieldsOf DEF Fields
        <4>. QED  BY <3>1, <3>2, <4>1 DEF VolWritten, TypeOK
      <3>. QED  BY <1>1, <3>2, <3>3
    <2>. QED  BY <2>1, <2>2
  <1>3. ASSUME NEW r \in Regulators, NEW on \in BOOLEAN, Switch(r, on) PROVE over'
    <2>1. Apart(s, r)
      BY InfoAssumption
    <2>2. info[s].vol_reg # info[r].enable_reg
      BY <1>0, <2>1 DEF Apart
    <2>3. info[s].vol_reg \in Registers
      BY FieldsOf DEF Fields
    <2>4. reg'[info[s].vol_reg] = reg[info[s].vol_reg] /\ UNCHANGED <<pc, result>>
      BY <1>3, <2>2, <2>3 DEF Switch, TypeOK
    <2>. QED  BY <1>1, <2>4
  <1>4. ASSUME NEW r \in Regulators, DvmCheck(r) \/ DvmWait(r) \/ DvmReadFails(r) PROVE over'
    BY <1>0, <1>1, <1>4 DEF DvmCheck, DvmWait, DvmReadFails, Finish, TypeOK
  <1>5. ASSUME NEW a \in Registers, RampEnds(a) PROVE over'
    BY <1>1, <1>5 DEF RampEnds, TypeOK
  <1>6. CASE UNCHANGED vars
    BY <1>1, <1>6 DEF vars
  <1>. QED  BY <1>2, <1>3, <1>4, <1>5, <1>6, NextCases

(* axp_set_voltage returns 0 only when the ramp it started is over:            *)
(* RampOverOnSuccess, for all tables and whatever fails.                       *)
THEOREM RampsEndFirst == Spec => []RampOverOnSuccess
  <1>1. Init => RampOverOnSuccess
    BY DEF Init, RampOverOnSuccess
  <1>. QED  BY <1>1, RampStep, Typing, PTL DEF Spec
-----------------------------------------------------------------------------
(* Voltages and selectors.  The kernel's DIV_ROUND_UP, here for any step.      *)
LEMMA DivBounds ==
    ASSUME NEW n \in Nat, NEW d \in Nat \ {0}
    PROVE  /\ n \div d \in Nat
           /\ d * (n \div d) <= n
           /\ n < d * (n \div d) + d
  BY Z3

LEMMA RoundedUpBounds ==
    ASSUME NEW n \in Nat, NEW d \in Nat \ {0}
    PROVE  /\ RoundedUp(n, d) \in Nat
           /\ n <= d * RoundedUp(n, d)
           /\ d * RoundedUp(n, d) < n + d
  <1>. DEFINE m == n + d - 1
  <1>1. m \in Nat
    OBVIOUS
  <1>. HIDE DEF m
  <1>2. m \div d \in Nat /\ d * (m \div d) <= m /\ m < d * (m \div d) + d
    BY <1>1, DivBounds
  <1>. QED  BY <1>1, <1>2, Z3 DEF RoundedUp, m

(* A multiple that is less than a step above another is not above it. *)
LEMMA MultiplesOrder ==
    ASSUME NEW k \in Nat, NEW l \in Nat, NEW d \in Nat \ {0}
    PROVE  /\ d * k < d * l + d => k <= l
           /\ k > l => d * k > d * l
           /\ k <= l => d * k <= d * l
  <1>1. CASE k <= l
    BY <1>1, Z3
  <1>2. CASE k >= l + 1
    <2>1. d * k >= d * (l + 1)
      BY <1>2, Z3
    <2>. QED  BY <1>2, <2>1, Z3
  <1>. QED  BY <1>1, <1>2

(* The switch voltage is reached by the last selector of the first step. *)
LEMMA SwitchSelector ==
    ASSUME NEW i, Steps(i), TwoSteps(i)
    PROVE  /\ SwitchSel(i) \in Nat
           /\ i.step1 * SwitchSel(i) = i.switch - i.min
           /\ (i.switch - i.min) \div i.step1 = SwitchSel(i)
  <1>. DEFINE n == i.switch - i.min
              d == i.step1
  <1>1. n \in Nat /\ d \in Nat \ {0} /\ n % d = 0 /\ SwitchSel(i) = RoundedUp(n, d)
    BY DEF Steps, SwitchSel
  <1>. HIDE DEF n, d
  <1>2. d * (n \div d) = n /\ n \div d \in Nat
    BY <1>1, Z3
  <1>3. RoundedUp(n, d) \in Nat /\ n <= d * RoundedUp(n, d) /\ d * RoundedUp(n, d) < n + d
    BY <1>1, RoundedUpBounds
  <1>4. RoundedUp(n, d) = n \div d
    <2>1. RoundedUp(n, d) <= n \div d
      BY <1>1, <1>2, <1>3, MultiplesOrder
    <2>2. n \div d <= RoundedUp(n, d)
      BY <1>1, <1>2, <1>3, MultiplesOrder
    <2>. QED  BY <1>2, <1>3, <2>1, <2>2
  <1>. QED  BY <1>1, <1>2, <1>4 DEF n, d

(* axp_get_voltage gives back what axp_set_voltage was asked for, for every    *)
(* voltage in range and every pair of steps: rounded up to a first step, down  *)
(* to a second one (axp-regulator.c:159-172, 251-270).                         *)
THEOREM Conversions ==
    ASSUME NEW i, Steps(i), i.step1 > 0, i.new_level = 0, NEW mv \in i.min .. i.max
    PROVE  LET v == Voltage(i, Selector(i, mv))
           IN  IF TwoSteps(i) /\ mv > i.switch
               THEN mv - i.step2 < v /\ v <= mv
               ELSE mv <= v /\ v < mv + i.step1
  <1>. DEFINE v == Voltage(i, Selector(i, mv))
              d == i.step1
              e == i.step2
  <1>0. i.min \in Int /\ i.max \in Int /\ i.switch \in Int /\ d \in Nat \ {0} /\ e \in Nat /\ mv \in Int
    BY DEF Steps
  <1>1. CASE TwoSteps(i) /\ mv > i.switch
    <2>. DEFINE n == mv - i.switch
                q == n \div e
    <2>1. e \in Nat \ {0} /\ n \in Nat
      BY <1>0, <1>1 DEF TwoSteps
    <2>2. q \in Nat /\ e * q <= n /\ n < e * q + e
      BY <2>1, DivBounds
    <2>3. SwitchSel(i) \in Nat /\ d * SwitchSel(i) = i.switch - i.min
      BY <1>1, SwitchSelector
    <2>4. Selector(i, mv) = SwitchSel(i) + q
      BY <1>1 DEF Selector
    <2>. HIDE DEF q
    <2>5. CASE q = 0
      <3>1. v = IF i.min + d * SwitchSel(i) > i.max THEN i.max ELSE i.min + d * SwitchSel(i)
        BY <2>3, <2>4, <2>5 DEF Voltage
      <3>. QED  BY <1>0, <1>1, <2>1, <2>2, <2>3, <2>5, <3>1
    <2>6. CASE q > 0
      <3>1. Selector(i, mv) > SwitchSel(i) /\ Selector(i, mv) - SwitchSel(i) = q
        BY <2>2, <2>3, <2>4, <2>6
      <3>2. v = IF i.switch + e * q > i.max THEN i.max ELSE i.switch + e * q
        BY <1>1, <3>1 DEF Voltage
      <3>. QED  BY <1>0, <1>1, <2>1, <2>2, <3>2
    <2>. QED  BY <1>1, <2>2, <2>5, <2>6
  <1>2. CASE ~(TwoSteps(i) /\ mv > i.switch)
    <2>. DEFINE n == mv - i.min
                s == RoundedUp(n, d)
    <2>1. n \in Nat
      BY <1>0
    <2>2. s \in Nat /\ n <= d * s /\ d * s < n + d
      BY <1>0, <2>1, RoundedUpBounds
    <2>3. Selector(i, mv) = s
      BY <1>2 DEF Selector
    <2>. HIDE DEF s
    <2>4. ~(TwoSteps(i) /\ s > SwitchSel(i))
      <3>. SUFFICES ASSUME TwoSteps(i) PROVE s <= SwitchSel(i)
        BY <2>2, SwitchSelector
      <3>1. SwitchSel(i) \in Nat /\ d * SwitchSel(i) = i.switch - i.min
        BY SwitchSelector
      <3>2. d * s < d * SwitchSel(i) + d
        BY <1>0, <1>2, <2>2, <3>1
      <3>. QED  BY <1>0, <2>2, <3>1, <3>2, MultiplesOrder
    <2>5. v = IF i.min + d * s > i.max THEN i.max ELSE i.min + d * s
      BY <2>3, <2>4 DEF Voltage
    <2>. QED  BY <1>0, <1>2, <2>2, <2>5
  <1>. QED  BY <1>1, <1>2

(* axp_list_voltage and axp_get_voltage give a selector the same voltage. *)
LEMMA ListedVoltage ==
    ASSUME NEW i, Steps(i), NEW sel \in Nat
    PROVE  \/ Listed(i, sel) = Voltage(i, sel)
           \/ Listed(i, sel) = EINVAL /\ Voltage(i, sel) = i.max
  <1>1. CASE TwoSteps(i)
    <2>1. /\ SwitchSel(i) \in Nat /\ i.step1 * SwitchSel(i) = i.switch - i.min
          /\ (i.switch - i.min) \div i.step1 = SwitchSel(i)
          /\ i.step1 \in Nat \ {0} /\ i.switch \in Int /\ i.min \in Int
      BY <1>1, SwitchSelector DEF Steps
    <2>2. sel > SwitchSel(i) => i.step1 * sel > i.step1 * SwitchSel(i)
      BY <2>1, MultiplesOrder
    <2>3. sel <= SwitchSel(i) => i.step1 * sel <= i.step1 * SwitchSel(i)
      BY <2>1, MultiplesOrder
    <2>4. sel > SwitchSel(i) <=> i.min + i.step1 * sel > i.switch
      BY <2>1, <2>2, <2>3
    <2>. QED  BY <1>1, <2>1, <2>4 DEF Listed, Voltage
  <1>2. CASE ~TwoSteps(i)
    BY <1>2 DEF Listed, Voltage
  <1>. QED  BY <1>1, <1>2

LEMMA NumIsNat ==
    ASSUME NEW b
    PROVE  Num(b) \in Nat
  BY DEF Num, Weight

(* ListAgrees holds of any contents of the registers, for all tables. *)
THEOREM Listing == Spec => []ListAgrees
  <1>1. ListAgrees
    <2>. SUFFICES ASSUME NEW r \in Regulators
                  PROVE  LET sel == SelOf(info[r], reg[info[r].vol_reg])
                         IN  \/ Listed(info[r], sel) = Voltage(info[r], sel)
                             \/ Listed(info[r], sel) = EINVAL /\ Voltage(info[r], sel) = info[r].max
      BY DEF ListAgrees, VoltageNow
    <2>1. SelOf(info[r], reg[info[r].vol_reg]) \in Nat
      BY NumIsNat DEF SelOf
    <2>. QED  BY <2>1, FieldsOf, ListedVoltage
  <1>. QED  BY <1>1, PTL DEF Spec
-----------------------------------------------------------------------------
(* Reading back.  A byte is what its bits add up to.                           *)
LEMMA Digits ==
    ASSUME NEW n \in 0 .. 255
    PROVE  n = (n % 2) + 2 * ((n \div 2) % 2) + 4 * ((n \div 4) % 2) + 8 * ((n \div 8) % 2)
                 + 16 * ((n \div 16) % 2) + 32 * ((n \div 32) % 2)
                 + 64 * ((n \div 64) % 2) + 128 * ((n \div 128) % 2)
  BY Z3

LEMMA BitsOfNumber ==
    ASSUME NEW n \in 0 .. 255
    PROVE  /\ 0 \in Bin(n) <=> n % 2 = 1
           /\ 1 \in Bin(n) <=> (n \div 2) % 2 = 1
           /\ 2 \in Bin(n) <=> (n \div 4) % 2 = 1
           /\ 3 \in Bin(n) <=> (n \div 8) % 2 = 1
           /\ 4 \in Bin(n) <=> (n \div 16) % 2 = 1
           /\ 5 \in Bin(n) <=> (n \div 32) % 2 = 1
           /\ 6 \in Bin(n) <=> (n \div 64) % 2 = 1
           /\ 7 \in Bin(n) <=> (n \div 128) % 2 = 1
  BY DEF Bin, Weight

LEMMA NumberOfBits ==
    ASSUME NEW n \in 0 .. 255
    PROVE  Num(Bin(n)) = n
  <1>. DEFINE bit(k) == IF k \in Bin(n) THEN Weight[k + 1] ELSE 0
  <1>1. /\ bit(0) = n % 2                /\ bit(1) = 2 * ((n \div 2) % 2)
        /\ bit(2) = 4 * ((n \div 4) % 2)   /\ bit(3) = 8 * ((n \div 8) % 2)
        /\ bit(4) = 16 * ((n \div 16) % 2) /\ bit(5) = 32 * ((n \div 32) % 2)
        /\ bit(6) = 64 * ((n \div 64) % 2) /\ bit(7) = 128 * ((n \div 128) % 2)
    BY BitsOfNumber DEF Weight
  <1>. HIDE DEF bit
  <1>2. Num(Bin(n)) = bit(0) + bit(1) + bit(2) + bit(3) + bit(4) + bit(5) + bit(6) + bit(7)
    BY DEF Num, bit
  <1>. QED  BY <1>1, <1>2, Digits

(* A selector in its place in the register, and the one a request stands for.  *)
InField(i, n) == Shifted(Bin(n), i.shift)
SelFor(i, a) == IF HasTable(i) THEN a ELSE Selector(i, a)

LEMMA FieldInMask ==
    ASSUME NEW i, HoldsRange(i), NEW n, Fits(i, n)
    PROVE  InField(i, n) \subseteq Mask(i)
  <1>1. i.shift \in Nat /\ i.nbits \in Nat
    BY DEF HoldsRange
  <1>2. \A k \in Bin(n) : k \in Nat /\ k <= i.nbits - 1
    BY <1>1 DEF Fits
  <1>. QED  BY <1>1, <1>2 DEF InField, Shifted, Mask

LEMMA FieldReadBack ==
    ASSUME NEW i, HoldsRange(i), NEW n, Fits(i, n), NEW b, b \cap Mask(i) = InField(i, n)
    PROVE  SelOf(i, b) = n
  <1>1. i.shift \in Nat /\ i.nbits \in Nat /\ i.shift + i.nbits <= 8
    BY DEF HoldsRange
  <1>2. \A k \in Bin(n) : k \in Nat /\ k <= i.nbits - 1
    BY <1>1 DEF Fits
  <1>3. \A k \in Bin(n) : k + i.shift \in 0 .. 7 /\ (k + i.shift) - i.shift = k
    BY <1>1, <1>2
  <1>4. {k - i.shift : k \in InField(i, n)} = Bin(n)
    BY <1>3 DEF InField, Shifted
  <1>. QED  BY <1>4, NumberOfBits DEF SelOf, Fits

(* Both ways of axp_set_voltage put the selector into the field.               *)
LEMMA VoltageBits ==
    ASSUME NEW i, HoldsRange(i), ~HasTable(i), NEW mv \in i.min .. i.max
    PROVE  VolBits(i, mv) = InField(i, Selector(i, mv)) /\ Fits(i, Selector(i, mv))
  <1>. DEFINE n == Selector(i, mv)
  <1>1. Fits(i, n)
    BY DEF HoldsRange
  <1>2. n % 256 = n
    <2>1. n \in 0 .. 255
      BY <1>1 DEF Fits
    <2>. HIDE DEF n
    <2>. QED  BY <2>1
  <1>3. TwoSteps(i) => Shifted(Bin(n), i.shift) = Bin(n)
    <2>. SUFFICES ASSUME TwoSteps(i) PROVE Shifted(Bin(n), 0) = Bin(n)
      BY DEF HoldsRange
    <2>1. \A k \in Bin(n) : k \in 0 .. 7 /\ k + 0 = k
      BY DEF Bin
    <2>. HIDE DEF n
    <2>. QED  BY <2>1 DEF Shifted
  <1>. QED  BY <1>1, <1>2, <1>3 DEF VolBits, InField

LEMMA RequestFits ==
    ASSUME NEW r \in Regulators, RangesHeld, NEW a \in Asked(r)
    PROVE  Fits(info[r], SelFor(info[r], a))
  BY DEF RangesHeld, HoldsRange, Asked, SelFor

(* A call that reaches the PMIC writes within the field, and what it notes as   *)
(* asked for is what it wrote.                                                 *)
FieldWritten(r, a, val) ==
    /\ reg' = [reg EXCEPT ![info[r].vol_reg] =
                  Ramped(info[r], Updated(reg[info[r].vol_reg], val, Mask(info[r])))]
    /\ asked' = [asked EXCEPT ![r] = a]
    /\ val \subseteq Mask(info[r])
    /\ a # None => val = InField(info[r], SelFor(info[r], a))

LEMMA VoltageSet ==
    ASSUME RangesHeld, NEW r \in Regulators, SetVoltage(r) \/ SetVoltageSel(r)
    PROVE  UNCHANGED <<reg, asked>> \/ \E a, val : FieldWritten(r, a, val)
  <1>. DEFINE i == info[r]
  <1>0. HoldsRange(i) /\ Steps(i)
    BY FieldsOf DEF RangesHeld
  <1>1. ASSUME NEW a \in Asked(r), NEW val, val = InField(i, SelFor(i, a)),
               NEW next, WriteVol(r, val, a, next) \/ VolFails(r, val)
        PROVE  UNCHANGED <<reg, asked>> \/ \E b, v : FieldWritten(r, b, v)
    <2>1. val \subseteq Mask(i)
      BY <1>0, <1>1, RequestFits, FieldInMask
    <2>2. CASE WriteVol(r, val, a, next)
      BY <1>1, <2>1, <2>2 DEF WriteVol, FieldWritten
    <2>3. CASE VolFails(r, val)
      BY <2>1, <2>3 DEF VolFails, FieldWritten
    <2>. QED  BY <1>1, <2>2, <2>3
  <1>2. CASE SetVoltage(r)
    <2>1. PICK mv \in Requests[r] :
            IF mv < info[r].min \/ mv > info[r].max
            THEN Finish(r, "error") /\ UNCHANGED <<reg, asked, switched>>
            ELSE \/ WriteVol(r, VolBits(info[r], mv), mv,
                             IF info[r].dvm_reg = "none" THEN "idle" ELSE "dvm")
                 \/ VolFails(r, VolBits(info[r], mv))
      BY <1>2 DEF SetVoltage
    <2>2. CASE mv < info[r].min \/ mv > info[r].max
      BY <2>1, <2>2
    <2>3. CASE ~(mv < info[r].min \/ mv > info[r].max)
      <3>1. mv \in Asked(r) /\ ~HasTable(i) /\ mv \in i.min .. i.max
        BY <1>0, <1>2, <2>3, InputsAssumption DEF Asked, SetVoltage, Steps
      <3>2. VolBits(i, mv) = InField(i, SelFor(i, mv))
        BY <1>0, <3>1, VoltageBits DEF SelFor
      <3>. QED  BY <1>1, <2>1, <2>3, <3>1, <3>2
    <2>. QED  BY <2>2, <2>3
  <1>3. CASE SetVoltageSel(r)
    <2>1. PICK sel \in Requests[r] :
            \/ WriteVol(r, Shifted(Bin(sel), info[r].shift), sel, "idle")
            \/ VolFails(r, Shifted(Bin(sel), info[r].shift))
      BY <1>3 DEF SetVoltageSel
    <2>2. sel \in Asked(r) /\ HasTable(i)
      BY <1>3, InputsAssumption DEF Asked, SetVoltageSel
    <2>3. Shifted(Bin(sel), i.shift) = InField(i, SelFor(i, sel))
      BY <2>2 DEF InField, SelFor
    <2>. QED  BY <1>1, <2>1, <2>2, <2>3
  <1>. QED  BY <1>2, <1>3

(* What no other call may change: the field, seen from its regulator.          *)
VoltageField(s) == reg[info[s].vol_reg] \cap Mask(info[s])

FieldsHold ==
    \A s \in Regulators :
        asked[s] # None => VoltageField(s) = InField(info[s], SelFor(info[s], asked[s]))

LEMMA RampOutsideField ==
    ASSUME NEW i, HoldsRange(i), NEW b
    PROVE  Ramped(i, b) \cap Mask(i) = b \cap Mask(i)
  <1>1. i.dvm_finish_flag => 7 \notin Mask(i)
    BY DEF HoldsRange, Mask
  <1>. QED  BY <1>1 DEF Ramped, HasRamp

LEMMA SetKeepsOthers ==
    ASSUME TypeOK, VoltagesApart, NEW r \in Regulators, NEW s \in Regulators, r # s,
           NEW a, NEW val, FieldWritten(r, a, val)
    PROVE  VoltageField(s)' = VoltageField(s) /\ asked'[s] = asked[s]
  <1>. DEFINE i == info[r]
              j == info[s]
  <1>1. i.vol_reg \in Registers /\ j.vol_reg \in Registers
    BY FieldsOf DEF Fields
  <1>2. CASE i.vol_reg # j.vol_reg
    BY <1>1, <1>2 DEF FieldWritten, VoltageField, TypeOK
  <1>3. CASE i.vol_reg = j.vol_reg
    <2>1. ~i.dvm_finish_flag
      <3>1. Sharing(i, j)
        BY InfoAssumption
      <3>. QED  BY <1>3, <3>1 DEF Sharing
    <2>2. Mask(i) \cap Mask(j) = {}
      BY <1>3 DEF VoltagesApart
    <2>3. Ramped(i, Updated(reg[i.vol_reg], val, Mask(i))) = Updated(reg[i.vol_reg], val, Mask(i))
      BY <2>1 DEF Ramped, HasRamp
    <2>4. Updated(reg[i.vol_reg], val, Mask(i)) \cap Mask(j) = reg[i.vol_reg] \cap Mask(j)
      BY <2>2 DEF Updated, FieldWritten
    <2>5. reg'[j.vol_reg] = Updated(reg[i.vol_reg], val, Mask(i))
      BY <1>1, <1>3, <2>3 DEF FieldWritten, TypeOK
    <2>. QED  BY <1>3, <2>4, <2>5 DEF FieldWritten, VoltageField, TypeOK
  <1>. QED  BY <1>2, <1>3

LEMMA SwitchKeepsVoltage ==
    ASSUME TypeOK, NEW r \in Regulators, NEW s \in Regulators, NEW on \in BOOLEAN, Switch(r, on)
    PROVE  VoltageField(s)' = VoltageField(s)
  <1>. DEFINE i == info[r]
              j == info[s]
              val == IF on THEN i.enable_val ELSE i.disable_val
  <1>1. Fields(i) /\ Apart(r, s) /\ j.vol_reg \in Registers
    BY InfoAssumption, FieldsOf DEF Fields
  <1>2. reg' = reg \/ reg' = [reg EXCEPT ![i.enable_reg] = Updated(reg[i.enable_reg], val, i.enable_mask)]
    BY DEF Switch
  <1>3. val \subseteq i.enable_mask /\ i.enable_reg \in Registers
    BY <1>1 DEF Fields
  <1>4. CASE j.vol_reg = i.enable_reg
    <2>1. i.enable_mask \cap Mask(j) = {}
      BY <1>1, <1>4 DEF Apart
    <2>2. Updated(reg[i.enable_reg], val, i.enable_mask) \cap Mask(j) = reg[i.enable_reg] \cap Mask(j)
      BY <1>3, <2>1 DEF Updated
    <2>. QED  BY <1>2, <1>3, <1>4, <2>2 DEF VoltageField, TypeOK
  <1>5. CASE j.vol_reg # i.enable_reg
    <2>1. reg'[j.vol_reg] = reg[j.vol_reg]
      BY <1>1, <1>2, <1>5 DEF TypeOK
    <2>. QED  BY <2>1 DEF VoltageField
  <1>. QED  BY <1>4, <1>5

LEMMA RampKeepsVoltage ==
    ASSUME TypeOK, RangesHeld, NEW a \in Registers, NEW s \in Regulators, RampEnds(a)
    PROVE  VoltageField(s)' = VoltageField(s)
  <1>. DEFINE j == info[s]
  <1>1. PICK r \in Regulators : info[r].vol_reg = a /\ HasRamp(info[r])
    BY DEF RampEnds
  <1>2. j.vol_reg \in Registers
    BY FieldsOf DEF Fields
  <1>3. CASE r # s
    <2>1. Sharing(info[r], j)
      BY <1>3, InfoAssumption
    <2>2. j.vol_reg # a
      BY <1>1, <2>1 DEF Sharing, HasRamp
    <2>. QED  BY <1>2, <2>2 DEF RampEnds, VoltageField, TypeOK
  <1>4. CASE r = s
    <2>1. 7 \notin Mask(j)
      BY <1>1, <1>4 DEF RangesHeld, HoldsRange, HasRamp, Mask
    <2>2. reg'[j.vol_reg] = reg[j.vol_reg] \cup {7}
      BY <1>1, <1>2, <1>4 DEF RampEnds, TypeOK
    <2>. QED  BY <2>1, <2>2 DEF VoltageField
  <1>. QED  BY <1>3, <1>4

LEMMA FieldsStep ==
    ASSUME RangesHeld, VoltagesApart
    PROVE  TypeOK /\ FieldsHold /\ [Next]_vars => FieldsHold'
  <1>. SUFFICES ASSUME TypeOK, FieldsHold, [Next]_vars, NEW s \in Regulators, asked'[s] # None
                PROVE  VoltageField(s)' = InField(info[s], SelFor(info[s], asked'[s]))
    BY DEF FieldsHold
  <1>. DEFINE j == info[s]
  <1>1. ASSUME VoltageField(s)' = VoltageField(s), asked'[s] = asked[s]
        PROVE  VoltageField(s)' = InField(info[s], SelFor(info[s], asked'[s]))
    BY <1>1 DEF FieldsHold
  <1>2. ASSUME NEW r \in Regulators, SetVoltage(r) \/ SetVoltageSel(r)
        PROVE  VoltageField(s)' = InField(info[s], SelFor(info[s], asked'[s]))
    <2>1. CASE UNCHANGED <<reg, asked>>
      BY <1>1, <2>1 DEF VoltageField
    <2>2. ASSUME NEW a, NEW val, FieldWritten(r, a, val)
          PROVE  VoltageField(s)' = InField(info[s], SelFor(info[s], asked'[s]))
      <3>1. CASE r # s
        BY <1>1, <2>2, <3>1, SetKeepsOthers
      <3>2. CASE r = s
        <4>1. j.vol_reg \in Registers /\ HoldsRange(j)
          BY FieldsOf DEF Fields, RangesHeld
        <4>2. asked'[s] = a /\ val = InField(j, SelFor(j, a)) /\ val \subseteq Mask(j)
          BY <2>2, <3>2 DEF FieldWritten, TypeOK
        <4>3. reg'[j.vol_reg] = Ramped(j, Updated(reg[j.vol_reg], val, Mask(j)))
          BY <2>2, <3>2, <4>1 DEF FieldWritten, TypeOK
        <4>4. VoltageField(s)' = Updated(reg[j.vol_reg], val, Mask(j)) \cap Mask(j)
          BY <4>1, <4>3, RampOutsideField DEF VoltageField
        <4>5. VoltageField(s)' = val
          BY <4>2, <4>4 DEF Updated
        <4>. QED  BY <4>2, <4>5
      <3>. QED  BY <3>1, <3>2
    <2>. QED  BY <1>2, <2>1, <2>2, VoltageSet
  <1>3. ASSUME NEW r \in Regulators, NEW on \in BOOLEAN, Switch(r, on)
        PROVE  VoltageField(s)' = InField(info[s], SelFor(info[s], asked'[s]))
    BY <1>1, <1>3, SwitchKeepsVoltage DEF Switch
  <1>4. ASSUME NEW r \in Regulators, DvmCheck(r) \/ DvmWait(r) \/ DvmReadFails(r)
        PROVE  VoltageField(s)' = InField(info[s], SelFor(info[s], asked'[s]))
    BY <1>1, <1>4 DEF DvmCheck, DvmWait, DvmReadFails, VoltageField
  <1>5. ASSUME NEW a \in Registers, RampEnds(a)
        PROVE  VoltageField(s)' = InField(info[s], SelFor(info[s], asked'[s]))
    BY <1>1, <1>5, RampKeepsVoltage DEF RampEnds
  <1>6. CASE UNCHANGED vars
    BY <1>1, <1>6 DEF vars, VoltageField
  <1>. QED  BY <1>2, <1>3, <1>4, <1>5, <1>6, NextCases

(* A field that holds its selector reads back as what was asked for.           *)
LEMMA HeldReadsBack ==
    ASSUME TypeOK, RangesHeld, FieldsHold
    PROVE  ReadsBack
  <1>. SUFFICES ASSUME NEW r \in Regulators, asked[r] # None
                PROVE  IF HasTable(info[r]) THEN SelOf(info[r], reg[info[r].vol_reg]) = asked[r]
                       ELSE IF TwoSteps(info[r]) /\ asked[r] > info[r].switch
                       THEN asked[r] - info[r].step2 < VoltageNow(r) /\ VoltageNow(r) <= asked[r]
                       ELSE asked[r] <= VoltageNow(r) /\ VoltageNow(r) < asked[r] + info[r].step1
    BY DEF ReadsBack
  <1>. DEFINE i == info[r]
  <1>1. HoldsRange(i) /\ Steps(i) /\ asked[r] \in Asked(r)
    BY FieldsOf DEF RangesHeld, TypeOK, Asked
  <1>2. Fits(i, SelFor(i, asked[r]))
    BY <1>1, RequestFits
  <1>3. SelOf(i, reg[i.vol_reg]) = SelFor(i, asked[r])
    BY <1>1, <1>2, FieldReadBack DEF FieldsHold, VoltageField
  <1>4. CASE HasTable(i)
    BY <1>3, <1>4 DEF SelFor
  <1>5. CASE ~HasTable(i)
    <2>1. asked[r] \in i.min .. i.max /\ i.step1 > 0 /\ i.new_level = 0
      BY <1>1, <1>5 DEF Asked, HoldsRange
    <2>2. VoltageNow(r) = Voltage(i, Selector(i, asked[r]))
      BY <1>3, <1>5 DEF VoltageNow, SelFor
    <2>. QED  BY <1>1, <1>5, <2>1, <2>2, Conversions
  <1>. QED  BY <1>4, <1>5

(* What axp_set_voltage was asked for is what axp_get_voltage reads, and       *)
(* likewise selectors, whatever the calls on other regulators, whatever fails: *)
(* ReadsBack, for every table whose fields hold the ranges of their rows and do *)
(* not overlap.                                                               *)
THEOREM ReadingBack ==
    ASSUME RangesHeld, VoltagesApart
    PROVE  Spec => []ReadsBack
  <1>1. Init => FieldsHold
    BY DEF Init, FieldsHold
  <1>2. TypeOK /\ FieldsHold /\ [Next]_vars => FieldsHold'
    BY FieldsStep
  <1>3. TypeOK /\ FieldsHold => ReadsBack
    BY HeldReadsBack
  <1>. QED  BY <1>1, <1>2, <1>3, Typing, PTL DEF Spec
=============================================================================
