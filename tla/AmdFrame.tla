----------------------------- MODULE AmdFrame -----------------------------
(* The blocks of the amd64 kernel: what each takes its registers and stack  *)
(* slots to hold, and what it leaves there.                                  *)
EXTENDS Frame

\* Offset and size of the stack slots.
AmdLayout ==
  [LOC_SAVED_BX |-> <<0, 8>>, LOC_SAVED_BP |-> <<8, 8>>, LOC_SAVED_R12 |-> <<16, 8>>,
   LOC_SAVED_R13 |-> <<24, 8>>, LOC_SAVED_R14 |-> <<32, 8>>, LOC_SAVED_R15 |-> <<40, 8>>,
   LOC_lzmaPtr |-> <<48, 8>>, LOC_dicBufSize |-> <<56, 8>>, LOC_probs_Spec |-> <<64, 8>>,
   LOC_dic_Spec |-> <<72, 8>>, LOC_limit |-> <<80, 8>>, LOC_bufLimit |-> <<88, 8>>, LOC_lc2 |-> <<96, 4>>,
   LOC_lpMask |-> <<100, 4>>, LOC_pbMask |-> <<104, 4>>, LOC_checkDicSize |-> <<108, 4>>,
   LOC_remainLen |-> <<112, 4>>, LOC_dicPos_Spec |-> <<120, 8>>, LOC_rep0 |-> <<128, 4>>,
   LOC_rep1 |-> <<132, 4>>, LOC_rep2 |-> <<136, 4>>, LOC_rep3 |-> <<140, 4>>]

\* The caller's registers, as the comment at the entry lists them.  BX is not
\* here: it holds the lzma argument already when its slot is written.
AmdSaved ==
  [BP |-> "callersBP", R12 |-> "callersR12", R13 |-> "callersR13", R14 |-> "callersR14", R15 |-> "callersR15"]
AmdSavedSlots ==
  [LOC_SAVED_BP |-> "callersBP", LOC_SAVED_R12 |-> "callersR12", LOC_SAVED_R13 |-> "callersR13",
   LOC_SAVED_R14 |-> "callersR14", LOC_SAVED_R15 |-> "callersR15"]
AmdRegisters == {"AX", "BX", "CX", "DX", "SI", "DI", "R8", "R9", "R10", "R11"}

\* The places when the kernel is called.
AmdCalled ==
  Given @@ AmdSaved @@ [p \in AmdRegisters \union DOMAIN AmdLayout |-> Stale]

-----------------------------------------------------------------------------
\* Registers that every decision of the range decoder uses.
AmdCoder == [AX |-> "range", BP |-> "code", R15 |-> "buf"]
AmdDecodes(reads, writes, sets, to) ==
  Block(reads @@ AmdCoder @@ [R10 |-> "kBitModelTotal"],
        writes @@ AmdCoder @@ [DX |-> Stale, DI |-> Stale], sets \union CoderSets, to)

AmdIsMatchRegs == [SI |-> "stateProbs", CX |-> "posState"]
AmdPre    == [LOC_pbMask |-> "pbMask", R13 |-> "processedPos", R8 |-> "state2"]
AmdLimits == [R15 |-> "buf", LOC_bufLimit |-> "bufLimit", R14 |-> "dicPtr", LOC_limit |-> "limitPtr"]
AmdReps   == [LOC_rep0 |-> "rep0", LOC_rep1 |-> "rep1", LOC_rep2 |-> "rep2", LOC_rep3 |-> "rep3"]
AmdNext   == AmdIsMatchRegs @@ [BX |-> "prevByte", R13 |-> "processedPos", R14 |-> "dicPtr", R11 |-> "probs"]
AmdLit    ==
  AmdIsMatchRegs @@ AmdPre @@ [BX |-> "prevByte", R11 |-> "probs", LOC_lc2 |-> "lc2",
                               LOC_probs_Spec |-> "probs"]

AmdEntryReads == Given @@ AmdSaved
AmdEntryWrites ==
  [LOC_SAVED_BX |-> "lzma", LOC_lzmaPtr |-> "lzma", LOC_bufLimit |-> "bufLimit",
   LOC_remainLen |-> "remainLen", LOC_limit |-> "limitPtr", LOC_dicPos_Spec |-> "dicPtr",
   LOC_dic_Spec |-> "dic", LOC_pbMask |-> "pbMask", LOC_lc2 |-> "lc2", LOC_lpMask |-> "lpMask",
   LOC_probs_Spec |-> "probs", LOC_dicBufSize |-> "dicBufSize", LOC_checkDicSize |-> "checkDicSize",
   R8 |-> "state2", R9 |-> "lpMask", R10 |-> "kBitModelTotal", R12 |-> "dic", DX |-> Stale, DI |-> Stale]
  @@ AmdSavedSlots @@ AmdReps @@ AmdCoder @@ AmdNext

\* The decision of length bits: the probabilities come from the block before.
AmdLen(state, to) ==
  AmdDecodes([R11 |-> "lenProbs", CX |-> "posState", R8 |-> state, LOC_probs_Spec |-> "probs"],
             [BX |-> "len", R11 |-> "probs", R12 |-> Stale, SI |-> Stale, CX |-> Stale], {"len"}, {to})
\* A rep takes the length, after the distances were turned.
AmdTurned(reads, writes) ==
  AmdDecodes([SI |-> "stateProbs"] @@ reads, writes, {writes[p] : p \in DOMAIN writes}, {"len_decode_rep"})

AmdReloadNothing == << >>
\* The matched literal used R9, so the plain literal after it loads lpMask again.
AmdReload == [R9 |-> "lpMask"]

\* The stores of fin.
AmdStored ==
  [S_dicPos |-> "dicPos", S_buf |-> "buf", S_rng |-> "range", S_code |-> "code", S_state |-> "state",
   S_processedPos |-> "processedPos", S_remainLen |-> "remainLen", S_rep0 |-> "rep0", S_rep1 |-> "rep1",
   S_rep2 |-> "rep2", S_rep3 |-> "rep3", A_ret |-> "ret"]

AmdBlocks == [
  entry |-> Block(AmdEntryReads, AmdEntryWrites, {"remainLen"}, {"lit_end", "lit_matched_end", "lz_end"}),
  lit_end |-> AmdDecodes(AmdIsMatchRegs, << >>, {}, {"lit_start", "IsMatch_label"}),
  lit_start |-> Block(<< >>, [R8 |-> "state2"], StateSets, {"lit_start_2"}),
  lit_start_2 |->
    AmdDecodes(AmdLit @@ AmdLimits @@ [R9 |-> "lpMask"], AmdNext, ByteSets, {"lit_end", "fin_OK"}),
  IsMatch_label |-> AmdDecodes(AmdIsMatchRegs, << >>, {}, {"IsRep_label", "new_match"}),
  new_match |->
    Block([R11 |-> "probs", R8 |-> "state2"], [R11 |-> "lenProbs", R8 |-> "matchState"], {}, {"len_decode_match"}),
  len_decode_match |-> AmdLen("matchState", "decode_distance"),
  len_decode_rep |-> AmdLen("state2", "copy_match"),
  decode_distance |->
    AmdDecodes([BX |-> "len", R11 |-> "probs", LOC_probs_Spec |-> "probs"],
               [R12 |-> "len", BX |-> "slotBits", CX |-> "slot", SI |-> Stale, R11 |-> "probs"], {"slot", "slotBits"},
               {"direct", "short_dist", "slot_is_distance"}),
  direct |->
    AmdDecodes([CX |-> "slot", BX |-> "slotBits", R11 |-> "probs"],
               [BX |-> "distance", R9 |-> Stale, CX |-> Stale, SI |-> Stale], {"distance"}, {"decode_dist_end"}),
  short_dist |->
    AmdDecodes([CX |-> "slot", BX |-> "slotBits", R11 |-> "probs", LOC_probs_Spec |-> "probs"],
               [BX |-> "distance", R9 |-> Stale, CX |-> Stale, SI |-> Stale, R11 |-> "probs"], {"distance"},
               {"decode_dist_end"}),
  slot_is_distance |->
    Block([CX |-> "slot", BX |-> "slotBits"], [BX |-> "distance", CX |-> Stale], {"distance"}, {"decode_dist_end"}),
  decode_dist_end |->
    Block([LOC_rep0 |-> "rep0", LOC_rep1 |-> "rep1", LOC_rep2 |-> "rep2", LOC_checkDicSize |-> "checkDicSize",
           R13 |-> "processedPos", BX |-> "distance"],
          [SI |-> "rep0", CX |-> "rep1", DX |-> "rep2", DI |-> Stale], {}, {"new_distance", "end_of_payload"}),
  new_distance |->
    Block([BX |-> "distance", R12 |-> "len", SI |-> "rep0", CX |-> "rep1", DX |-> "rep2", R8 |-> "matchState"],
          AmdReps @@ [BX |-> "len", R8 |-> "state2", DI |-> Stale], RepSets \union StateSets, {"copy_match"}),
  copy_match |->
    Block(AmdPre @@ [LOC_limit |-> "limitPtr", R14 |-> "dicPtr", BX |-> "len", LOC_dic_Spec |-> "dic",
                     LOC_rep0 |-> "rep0", LOC_dicBufSize |-> "dicBufSize", R11 |-> "probs"],
          AmdNext @@ [R12 |-> "dic", LOC_remainLen |-> "remainLen", DX |-> Stale, DI |-> Stale],
          ByteSets \union {"remainLen"}, {"lz_check_limits"}),
  fin_dicPos_LIMIT |-> Block([BX |-> "len"], [LOC_remainLen |-> "remainLen"], {"remainLen"}, {"fin_OK"}),
  lz_check_limits |-> Block(AmdLimits, << >>, {}, {"lz_end", "fin_OK"}),
  lz_end |-> AmdDecodes(AmdIsMatchRegs, << >>, {}, {"IsMatch_label", "lit_matched"}),
  lit_matched |->
    AmdDecodes(AmdLit @@ [LOC_lpMask |-> "lpMask", LOC_rep0 |-> "rep0", R14 |-> "dicPtr", R12 |-> "dic",
                          LOC_dicBufSize |-> "dicBufSize"],
               [LOC_dicPos_Spec |-> "dicPtr", R8 |-> "state2", BX |-> "byte", R13 |-> "processedPos",
                R9 |-> Stale, R11 |-> Stale, R12 |-> Stale, R14 |-> Stale, SI |-> Stale, CX |-> Stale],
               StateSets \union {"byte", "processedPos"}, {"lit_matched_store"}),
  lit_matched_store |->
    Block(AmdPre @@ [LOC_dicPos_Spec |-> "dicPtr", BX |-> "byte", LOC_probs_Spec |-> "probs", R15 |-> "buf",
                     LOC_bufLimit |-> "bufLimit", LOC_limit |-> "limitPtr"],
          AmdNext, ByteSets \ {"processedPos"}, {"lit_matched_end", "fin_OK"}),
  lit_matched_end |-> AmdDecodes(AmdIsMatchRegs, << >>, {}, {"IsMatch_label", "lit_after_matched"}),
  lit_after_matched |->
    Block([LOC_lpMask |-> "lpMask", R8 |-> "state2"], AmdReload @@ [R8 |-> "state2"], StateSets, {"lit_start_2"}),
  IsRep_label |->
    AmdDecodes([SI |-> "stateProbs", R8 |-> "state2", R11 |-> "probs"], [R8 |-> "state2", R11 |-> "lenProbs"],
               StateSets, {"IsRepG0_label", "IsRep0Long"}),
  IsRep0Long |-> AmdDecodes(AmdIsMatchRegs, << >>, {}, {"IsRep0Short_label", "len_decode_rep"}),
  IsRep0Short_label |->
    AmdDecodes(AmdIsMatchRegs @@ AmdPre @@ [LOC_dic_Spec |-> "dic", R14 |-> "dicPtr", LOC_rep0 |-> "rep0",
                 R11 |-> "lenProbs", LOC_dicBufSize |-> "dicBufSize"],
               AmdNext @@ [R12 |-> "dic", R8 |-> "state2"], ByteSets \union StateSets, {"lz_check_limits"}),
  IsRepG0_label |->
    AmdDecodes([SI |-> "stateProbs", LOC_rep0 |-> "rep0", LOC_rep1 |-> "rep1"],
               [R9 |-> "rep0", BX |-> "rep1", LOC_rep1 |-> "rep0"], {}, {"take_rep1", "IsRepG1_label"}),
  take_rep1 |->
    AmdTurned([BX |-> "rep1", LOC_rep1 |-> "rep0"], [LOC_rep0 |-> "rep0", LOC_rep1 |-> "rep1"]),
  IsRepG1_label |->
    AmdDecodes([SI |-> "stateProbs", BX |-> "rep1", LOC_rep2 |-> "rep2"],
               [R9 |-> "rep2", LOC_rep2 |-> "rep1"], {}, {"take_rep2", "IsRepG2_label"}),
  take_rep2 |->
    AmdTurned([R9 |-> "rep2", LOC_rep1 |-> "rep0", LOC_rep2 |-> "rep1"],
              [LOC_rep0 |-> "rep0", LOC_rep1 |-> "rep1", LOC_rep2 |-> "rep2"]),
  IsRepG2_label |->
    AmdTurned([R9 |-> "rep2", LOC_rep1 |-> "rep0", LOC_rep2 |-> "rep1", LOC_rep3 |-> "rep3"], AmdReps),
  end_of_payload |-> Block([BX |-> "distance"], << >>, {}, {"fin_ERROR", "end_marker"}),
  fin_ERROR |->
    Block([R12 |-> "len", BX |-> "distance", SI |-> "rep0", CX |-> "rep1", DX |-> "rep2", R8 |-> "matchState"],
          AmdReps @@ [LOC_remainLen |-> "remainLen", R8 |-> "state2", BX |-> "ret", DI |-> Stale],
          RepSets \union StateSets \union {"remainLen", "ret"}, {"fin"}),
  end_marker |->
    Block([R8 |-> "matchState"], [LOC_remainLen |-> "remainLen", R8 |-> "state2"], {"remainLen"}, {"fin_OK"}),
  fin_OK |-> Block(<< >>, [BX |-> "ret"], {"ret"}, {"fin"}),
  fin |->
    Block(AmdCoder @@ AmdReps @@ AmdSavedSlots
            @@ [BX |-> "ret", LOC_lzmaPtr |-> "lzma", LOC_dic_Spec |-> "dic", R14 |-> "dicPtr", R8 |-> "state2",
                R13 |-> "processedPos", LOC_remainLen |-> "remainLen"],
          AmdStored @@ AmdSaved @@ [BX |-> "lzma", CX |-> "lzma", AX |-> "range", DI |-> "ret"], CoderSets, {"return"})
]
=============================================================================
