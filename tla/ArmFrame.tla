----------------------------- MODULE ArmFrame -----------------------------
(* The blocks of the arm64 kernel, as AmdFrame has those of amd64.          *)
EXTENDS Frame

\* Offset and size of the stack slots; a pair is stored as 16 bytes.
ArmLayout ==
  [STP_0 |-> <<0, 8>>, STP_8 |-> <<8, 8>>, STP_16 |-> <<16, 8>>, STP_24 |-> <<24, 8>>, STP_32 |-> <<32, 8>>,
   STP_40 |-> <<40, 8>>, STP_48 |-> <<48, 8>>, STP_56 |-> <<56, 8>>, MOVD_64 |-> <<64, 8>>, MOVD_72 |-> <<72, 8>>,
   SPILL_LIMIT |-> <<80, 8>>, SPILL_CHECK |-> <<88, 4>>, SPILL_LZMA |-> <<96, 8>>]

ArmSaved ==
  [R19 |-> "callersR19", R20 |-> "callersR20", R21 |-> "callersR21", R22 |-> "callersR22", R23 |-> "callersR23",
   R24 |-> "callersR24", R25 |-> "callersR25", R26 |-> "callersR26", R27 |-> "callersR27", R29 |-> "callersR29"]
ArmSavedSlots ==
  [STP_0 |-> "callersR19", STP_8 |-> "callersR20", STP_16 |-> "callersR21", STP_24 |-> "callersR22",
   STP_32 |-> "callersR23", STP_40 |-> "callersR24", STP_48 |-> "callersR25", STP_56 |-> "callersR26",
   MOVD_64 |-> "callersR27", MOVD_72 |-> "callersR29"]
ArmRegisters ==
  {"R0", "R1", "R2", "R3", "R4", "R5", "R6", "R7", "R8", "R9", "R10", "R11", "R12", "R13", "R14", "R15", "R16", "R17"}

\* The places when the kernel is called.
ArmCalled == Given @@ ArmSaved @@ [p \in ArmRegisters \union DOMAIN ArmLayout |-> Stale]

-----------------------------------------------------------------------------
\* Registers that every decision of the range decoder uses, and its scratch.
ArmCoder == [R0 |-> "range", R5 |-> "code", R15 |-> "buf"]
ArmDecodes(reads, writes, sets, to) ==
  Block(reads @@ ArmCoder, writes @@ ArmCoder @@ [R2 |-> Stale, R7 |-> Stale], sets \union CoderSets, to)
ArmScratch == [R1 |-> Stale, R4 |-> Stale, R6 |-> Stale, R8 |-> Stale, R10 |-> Stale, R11 |-> Stale]

ArmIsMatchRegs == [R6 |-> "stateProbs", R1 |-> "posState"]
ArmPre    == [R27 |-> "processedPos", R29 |-> "pbMask", R13 |-> "state2", R25 |-> "probs_IsMatch"]
ArmLimits == [R15 |-> "buf", R16 |-> "bufLimit", SPILL_LIMIT |-> "limitPtr", R14 |-> "dicPtr"]
ArmReps   == [R20 |-> "rep0", R21 |-> "rep1", R22 |-> "rep2", R23 |-> "rep3"]
ArmNext   == ArmIsMatchRegs @@ [R3 |-> "prevByte", R27 |-> "processedPos", R14 |-> "dicPtr"]
ArmLit    == ArmIsMatchRegs @@ ArmPre @@ ArmLimits @@ [R3 |-> "prevByte", R19 |-> "lc2_lpMask"]

ArmEntryWrites ==
  [SPILL_LZMA |-> "lzma", SPILL_LIMIT |-> "limitPtr", SPILL_CHECK |-> "checkDicSize", R16 |-> "bufLimit",
   R24 |-> "dic", R17 |-> "dicBufSize", R12 |-> "remainLen", R29 |-> "pbMask", R19 |-> "lc2_lpMask",
   R26 |-> "probs", R13 |-> "state2", R25 |-> "probs_IsMatch", R2 |-> "bufLimit", R7 |-> Stale, R8 |-> "checkDicSize"]
  @@ ArmSavedSlots @@ ArmReps @@ ArmCoder @@ ArmNext

ArmLen(state, to) ==
  ArmDecodes([R11 |-> "lenProbs", R1 |-> "posState", R13 |-> state],
             ArmScratch @@ [R12 |-> "len", R3 |-> Stale], {"len"}, {to})
ArmTurned(reads, writes) ==
  ArmDecodes([R6 |-> "stateProbs"] @@ reads, writes @@ [R3 |-> "rep0"], {writes[p] : p \in DOMAIN writes}, {"len_decode_rep"})

\* The stores of fin; dicPos and buf are a pair.
ArmStored ==
  [S_dicPos |-> "dicPos", S_buf |-> "buf", S_rng |-> "range", S_code |-> "code",
   S_processedPos |-> "processedPos", S_rep0 |-> "rep0", S_rep1 |-> "rep1", S_rep2 |-> "rep2",
   S_rep3 |-> "rep3", S_state |-> "state", S_remainLen |-> "remainLen", A_ret |-> "ret"]

ArmBlocks == [
  entry |-> Block(Given @@ ArmSaved, ArmEntryWrites, {"remainLen"}, {"lit_end", "lit_matched_end", "lz_end"}),
  lit_end |-> ArmDecodes(ArmIsMatchRegs, << >>, {}, {"lit_start", "IsMatch_label"}),
  lit_start |-> Block(<< >>, [R13 |-> "state2"], StateSets, {"lit_start_2"}),
  lit_start_2 |-> ArmDecodes(ArmLit, ArmNext @@ ArmScratch, ByteSets, {"lit_end", "fin_OK"}),
  IsMatch_label |-> ArmDecodes(ArmIsMatchRegs, << >>, {}, {"IsRep_label", "new_match"}),
  new_match |->
    Block([R25 |-> "probs_IsMatch", R13 |-> "state2"], [R11 |-> "lenProbs", R13 |-> "matchState"], {},
          {"len_decode_match"}),
  len_decode_match |-> ArmLen("matchState", "decode_distance"),
  len_decode_rep |-> ArmLen("state2", "copy_match"),
  decode_distance |->
    ArmDecodes([R12 |-> "len", R25 |-> "probs_IsMatch"], [R10 |-> "slot", R3 |-> "slotBits"] @@ ArmScratch,
               {"slot", "slotBits"}, {"direct", "short_dist", "slot_is_distance"}),
  direct |->
    ArmDecodes([R10 |-> "slot", R3 |-> "slotBits", R25 |-> "probs_IsMatch"],
               ArmScratch @@ [R3 |-> "distance", R9 |-> Stale], {"distance"}, {"decode_dist_end"}),
  short_dist |->
    ArmDecodes([R10 |-> "slot", R3 |-> "slotBits", R26 |-> "probs"],
               ArmScratch @@ [R3 |-> "distance", R9 |-> Stale], {"distance"}, {"decode_dist_end"}),
  slot_is_distance |->
    Block([R10 |-> "slot", R3 |-> "slotBits"], [R10 |-> Stale, R3 |-> "distance"], {"distance"}, {"decode_dist_end"}),
  decode_dist_end |->
    Block([SPILL_CHECK |-> "checkDicSize", R27 |-> "processedPos", R3 |-> "distance"],
          [R8 |-> "checkDicSize", R7 |-> Stale], {}, {"new_distance", "end_of_payload"}),
  new_distance |->
    Block(ArmReps @@ [R3 |-> "distance", R13 |-> "matchState"], ArmReps @@ [R13 |-> "state2", R7 |-> Stale],
          RepSets \union StateSets, {"copy_match"}),
  copy_match |->
    Block(ArmPre @@ [SPILL_LIMIT |-> "limitPtr", R14 |-> "dicPtr", R12 |-> "len", R24 |-> "dic", R20 |-> "rep0",
                     R17 |-> "dicBufSize"],
          ArmNext @@ [R12 |-> "remainLen", R2 |-> Stale, R4 |-> Stale, R7 |-> Stale, R8 |-> Stale, R9 |-> Stale],
          ByteSets \union {"remainLen"}, {"lz_check_limits"}),
  fin_dicPos_LIMIT |-> Block([R12 |-> "len"], [R12 |-> "remainLen"], {"remainLen"}, {"fin_OK"}),
  lz_check_limits |-> Block(ArmLimits, << >>, {}, {"lz_end", "fin_OK"}),
  lz_end |-> ArmDecodes(ArmIsMatchRegs, << >>, {}, {"IsMatch_label", "lit_matched"}),
  lit_matched |->
    ArmDecodes(ArmLit @@ [R24 |-> "dic", R20 |-> "rep0", R17 |-> "dicBufSize"],
               ArmNext @@ [R13 |-> "state2", R9 |-> Stale] @@ ArmScratch, StateSets \union ByteSets,
               {"lit_matched_end", "fin_OK"}),
  lit_matched_end |-> ArmDecodes(ArmIsMatchRegs, << >>, {}, {"IsMatch_label", "lit_after_matched"}),
  lit_after_matched |-> Block([R13 |-> "state2"], [R13 |-> "state2"], StateSets, {"lit_start_2"}),
  IsRep_label |->
    ArmDecodes([R6 |-> "stateProbs", R13 |-> "state2", R25 |-> "probs_IsMatch"],
               [R13 |-> "state2", R11 |-> "lenProbs"], StateSets, {"IsRepG0_label", "IsRep0Long"}),
  IsRep0Long |->
    ArmDecodes(ArmIsMatchRegs, [R6 |-> "rep0LongProbs"], {"rep0LongProbs"}, {"IsRep0Short_label", "len_decode_rep"}),
  IsRep0Short_label |->
    ArmDecodes(ArmPre @@ [R6 |-> "rep0LongProbs", R1 |-> "posState", R24 |-> "dic", R14 |-> "dicPtr", R20 |-> "rep0",
                          R17 |-> "dicBufSize"],
               ArmNext @@ [R13 |-> "state2"], ByteSets \union StateSets, {"lz_check_limits"}),
  IsRepG0_label |-> ArmDecodes([R6 |-> "stateProbs"], << >>, {}, {"take_rep1", "IsRepG1_label"}),
  IsRepG1_label |-> ArmDecodes([R6 |-> "stateProbs"], << >>, {}, {"take_rep2", "IsRepG2_label"}),
  take_rep1 |-> ArmTurned([R20 |-> "rep0", R21 |-> "rep1"], [R20 |-> "rep0", R21 |-> "rep1"]),
  take_rep2 |->
    ArmTurned([R20 |-> "rep0", R21 |-> "rep1", R22 |-> "rep2"], [R20 |-> "rep0", R21 |-> "rep1", R22 |-> "rep2"]),
  IsRepG2_label |-> ArmTurned(ArmReps, ArmReps),
  end_of_payload |-> Block([R3 |-> "distance"], << >>, {}, {"fin_ERROR", "end_marker"}),
  fin_ERROR |->
    Block(ArmReps @@ [R12 |-> "len", R3 |-> "distance", R13 |-> "matchState"],
          ArmReps @@ [R12 |-> "remainLen", R13 |-> "state2", R3 |-> "ret", R7 |-> Stale],
          RepSets \union StateSets \union {"remainLen", "ret"}, {"fin"}),
  end_marker |-> Block([R13 |-> "matchState"], [R12 |-> "remainLen", R13 |-> "state2"], {"remainLen"}, {"fin_OK"}),
  fin_OK |-> Block(<< >>, [R3 |-> "ret"], {"ret"}, {"fin"}),
  fin |->
    Block(ArmCoder @@ ArmReps @@ ArmSavedSlots
            @@ [R3 |-> "ret", SPILL_LZMA |-> "lzma", R24 |-> "dic", R14 |-> "dicPtr", R13 |-> "state2",
                R27 |-> "processedPos", R12 |-> "remainLen"],
          ArmStored @@ ArmSaved @@ [R7 |-> "lzma", R14 |-> "dicPos"], CoderSets, {"return"})
]
=============================================================================
