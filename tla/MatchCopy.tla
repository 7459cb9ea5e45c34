----------------------------- MODULE MatchCopy -----------------------------
(* The copy of a match in the three engines: in the assembly kernels label  *)
(* by label (the wide loop, the byte loops, arm64's words and its fill for   *)
(* distance 1, the source that crosses the end of the dictionary), and by    *)
(* doubling in decodeLoop.  The result is compared with writeRem's, which    *)
(* may complete the same match and copies one byte at a time.                *)
EXTENDS Machine, FiniteSets
CONSTANTS
  Dic,        \* the address of the dictionary
  BufSizes,   \* dicBufSize
  MaxLen,     \* the longest match
  Wide        \* bytes per turn of the wide loop (16)
VARIABLES arch, pc, match, mem, reg, touched
copyVars == <<match, mem, reg, touched>>

ASSUME CopyAssumption ==
  /\ Wide \in Nat \ {0} /\ Full % Wide = 0 /\ Full % 4 = 0
  /\ Dic \in Nat /\ MaxLen \in Nat
  /\ \A b \in BufSizes : b \in Nat \ {0} /\ Dic + b < Full /\ b < Half

WordSize == 4
Wild == -1          \* what lies outside the dictionary
Amd == arch = "amd64"

NoRegs == [t0 |-> 0, cnt |-> 0, dicPos |-> 0, rep0 |-> 0, dst |-> 0, left |-> 0, sym |-> 0]
NoMatch == [dicBufSize |-> 0, start |-> 0, limit |-> 0, rep0 |-> 0, len |-> 0]
NoCopy == match = NoMatch /\ mem = << >> /\ reg = NoRegs /\ touched = {}

-----------------------------------------------------------------------------
\* What a match means (writeRem copies it so): byte after byte, from rep0
\* behind, around the end of the dictionary, its own bytes included.

Room(m) == m.limit - m.start
Count(m) == IF m.len <= Room(m) THEN m.len ELSE Room(m)
Source(m, i) == (m.start + i - m.rep0) % m.dicBufSize

Bytewise(m) ==
  LET byte[i \in 0 .. Count(m) - 1] ==
        LET s == Source(m, i) IN
        IF s >= m.start /\ s < m.start + i THEN byte[s - m.start] ELSE s
  IN byte

\* The dictionary after n bytes of the match; its slots are told apart by
\* their place before.
Copied(m, n) ==
  [a \in Dic .. Dic + m.dicBufSize - 1 |->
     LET i == a - Dic - m.start IN IF i \in 0 .. n - 1 THEN Bytewise(m)[i] ELSE a - Dic]

-----------------------------------------------------------------------------
\* The driver's limit may leave no room at all (lzmadec_amd64.go:79-87 when
\* processedPos = dicSize).
Matches ==
  UNION {[dicBufSize : {b}, start : 0 .. b - 1, limit : 0 .. b, rep0 : 1 .. b, len : 2 .. MaxLen] :
           b \in BufSizes}
LegalMatches == {m \in Matches : m.start <= m.limit}

\* rep0 as the copy has it: amd64 loads 32 bits from the stack; arm64 loads it
\* with MOVW when the kernel is called, and has it zero extended only if a
\* distance was decoded since.
Rep0(m, loaded) == IF ~Amd /\ loaded THEN SignExtended(m.rep0) ELSE Low(m.rep0)

Wrapped(m, rep0) == ~NoBorrow(m.start, rep0)
SourceOffset(m, rep0) ==
  IF Wrapped(m, rep0) THEN Plus(Minus(m.start, rep0), m.dicBufSize) ELSE Minus(m.start, rep0)
Crosses(m, rep0, cnt) ==
  /\ Wrapped(m, rep0)
  /\ IF Amd THEN cnt > Minus(m.dicBufSize, SourceOffset(m, rep0))
            ELSE CarryAbove(cnt, Minus(m.start, rep0))
CanBeWideOverlapping(rep0, cnt) == cnt >= Wide
CanBeWide(rep0, cnt) == rep0 >= cnt /\ cnt >= Wide
CanBeWords(rep0, cnt) == rep0 >= WordSize /\ ~CarryAbove(WordSize, cnt)

Regs(t0, cnt, dicPos, rep0) ==
  [t0 |-> t0, cnt |-> cnt, dicPos |-> dicPos, rep0 |-> rep0, dst |-> 0, left |-> 0, sym |-> 0]

Enter(m, regs, label) ==
  /\ match' = m /\ reg' = regs /\ touched' = {} /\ pc' = label
  /\ mem' = Copied(m, 0)

CopyMatch(m, loaded) ==
  LET rep0 == Rep0(m, loaded)
      cnt  == Count(m)
      off  == SourceOffset(m, rep0)
      r    == Regs(Plus(Dic, off), cnt, Plus(Dic, m.start + cnt), rep0)
  IN \/ Crosses(m, rep0, cnt) /\ Enter(m, [r EXCEPT !.t0 = off, !.cnt = Negated(cnt)], "copy_cross_loop")
     \/ /\ ~Crosses(m, rep0, cnt) /\ CanBeWide(rep0, cnt)
        /\ Enter(m, [r EXCEPT !.dst = Minus(r.dicPos, cnt), !.left = Aligned(cnt, Wide)], "copy_wide_loop")
     \/ ~Crosses(m, rep0, cnt) /\ ~CanBeWide(rep0, cnt) /\ Enter(m, r, "copy_no_wrap_byte")

\* A short rep is a match of one byte, stored by the end of the copy.
CopyShort(m, loaded) ==
  LET rep0 == Rep0(m, loaded)
      r    == Regs(0, 0, Plus(Dic, m.start), rep0)
      a    == Plus(Dic, SourceOffset(m, rep0))
  IN Enter(m, [r EXCEPT !.sym = Load(Copied(m, 0), a, 1, Wild)[1]], "copy_end")

-----------------------------------------------------------------------------
Byte(a) == Load(mem, a, 1, Wild)[1]
ByteAfter(a) == Load(mem', a, 1, Wild)[1]      \* after the store of the same step
Put(a, bytes) ==
  /\ mem' = Store(mem, a, bytes)
  /\ touched' = touched \union {Plus(a, i) : i \in 0 .. Len(bytes) - 1}
NoPut == UNCHANGED <<mem, touched>>
Then(label, regs) == pc' = label /\ reg' = regs /\ UNCHANGED match
At == Plus(reg.dicPos, reg.cnt)      \* where the next byte goes

WideLoop ==
  /\ pc = "copy_wide_loop"
  /\ Put(reg.dst, Load(mem, reg.t0, Wide, Wild))
  /\ LET r == [reg EXCEPT !.t0 = Plus(@, Wide), !.dst = Plus(@, Wide), !.left = @ - Wide] IN
     IF r.left # 0 THEN Then(pc, r)
     ELSE Then(IF r.cnt % Wide = 0 THEN "copy_wide_done" ELSE "copy_wide_tail",
               [r EXCEPT !.left = r.cnt % Wide])

WideTail ==
  /\ pc = "copy_wide_tail"
  /\ Put(reg.dst, <<Byte(reg.t0)>>)
  /\ Then(IF reg.left = 1 THEN "copy_wide_done" ELSE pc,
          [reg EXCEPT !.t0 = Plus(@, 1), !.dst = Plus(@, 1), !.left = @ - 1])

WideDone ==
  /\ pc = "copy_wide_done" /\ NoPut
  /\ Then("copied", [reg EXCEPT !.sym = Byte(Minus(reg.dst, 1)),
                                !.dicPos = IF Amd THEN reg.dst ELSE @])

CrossLoop ==
  /\ pc = "copy_cross_loop"
  /\ LET b == Byte(Plus(Dic, reg.t0))
         r == [reg EXCEPT !.t0 = Plus(@, 1), !.cnt = Plus(@, 1), !.sym = b]
     IN /\ Put(At, <<b>>)
        /\ IF r.t0 # match.dicBufSize THEN Then(pc, r)
           ELSE Then("copy_common", [r EXCEPT !.sym = ByteAfter(Dic), !.t0 = Minus(Dic, r.cnt)])

NoWrapByte ==
  /\ pc = "copy_no_wrap_byte" /\ NoPut
  /\ Then("copy_common",
          [reg EXCEPT !.sym = Byte(reg.t0), !.t0 = Plus(@, reg.cnt), !.cnt = Negated(@)])

Common ==
  /\ pc = "copy_common" /\ NoPut
  /\ LET r == [reg EXCEPT !.dicPos = Minus(@, 1), !.cnt = Plus(@, 1), !.left = WordSize - 1] IN
     Then(IF r.cnt = 0 THEN "copy_end"
          ELSE IF Amd THEN "copy_byte_loop"
          ELSE IF r.rep0 = 1 THEN "copy_match_0"
          ELSE IF CanBeWords(Low(r.rep0), r.cnt) THEN "copy_flush" ELSE "copy_byte_loop", r)

\* The byte loops are a byte ahead: sym holds the one to be stored.
ByteLoop ==
  /\ pc = "copy_byte_loop"
  /\ Put(At, <<reg.sym>>)
  /\ Then(IF Plus(reg.cnt, 1) = 0 THEN "copy_end" ELSE pc,
          [reg EXCEPT !.cnt = Plus(@, 1),
                      !.sym = ByteAfter(Plus(reg.t0, reg.cnt))])

\* The words are not ahead: the byte in sym goes out first.  cnt is below -3,
\* so the branch after it (BEQ copy_end) is never taken.
Flush ==
  /\ pc = "copy_flush"
  /\ Put(At, <<reg.sym>>)
  /\ Then("copy_word_align", [reg EXCEPT !.cnt = Plus(@, 1), !.t0 = Minus(@, 1)])

\* Copies n bytes and goes on until none is left.
CopyAhead(n) ==
  LET r == [reg EXCEPT !.cnt = Plus(@, n)] IN
  /\ Put(At, Load(mem, Plus(reg.t0, reg.cnt), n, Wild))
  /\ IF r.cnt # 0 THEN Then(pc, r)
     ELSE Then("copy_end", [r EXCEPT !.sym = ByteAfter(reg.t0)])

WordAlign ==
  /\ pc = "copy_word_align"
  /\ IF reg.cnt % WordSize = 0 THEN Then("copy_word_loop", reg) /\ NoPut ELSE CopyAhead(1)
WordLoop == pc = "copy_word_loop" /\ CopyAhead(WordSize)

\* Distance 1: three bytes, then words of the same byte over what is left,
\* rounded up into the bytes just stored.
FillFromWide(cnt) == Aligned(cnt, 4 * WordSize)
FillFromHere(cnt) == cnt
FillFrom(cnt) == Aligned(cnt, WordSize)

Fill(n, then) ==
  LET r == [reg EXCEPT !.cnt = Plus(@, n)] IN
  /\ Put(At, [i \in 1 .. n |-> reg.sym])
  /\ IF r.cnt = 0 THEN Then("copy_end", r) ELSE then

Match0 ==
  /\ pc = "copy_match_0"
  /\ Fill(1, IF reg.left > 1 THEN Then(pc, [reg EXCEPT !.cnt = Plus(@, 1), !.left = @ - 1])
             ELSE Then("copy_match_0_small", [reg EXCEPT !.cnt = FillFrom(Plus(@, 1))]))
Match0Small ==
  /\ pc = "copy_match_0_small"
  /\ Fill(WordSize, Then(pc, [reg EXCEPT !.cnt = Plus(@, WordSize)]))

CopyEnd ==
  /\ pc = "copy_end"
  /\ Put(reg.dicPos, <<reg.sym>>)
  /\ Then("copied", [reg EXCEPT !.dicPos = Plus(@, 1)])

\* decodeLoop: rep0 bytes first, then as many again as there are, unless the
\* source or the distance reaches beyond the end of the dictionary.
GoCopy(m) ==
  LET off  == Source(m, 0)
      fits == Count(m) <= m.dicBufSize - off /\ m.rep0 <= m.dicBufSize - off
  IN Enter(m, [Regs(Plus(Dic, off), 0, Dic + m.start, m.rep0) EXCEPT !.left = Count(m)],
           IF fits THEN "go_seed" ELSE "go_byte")

GoBytes(n, from, source) ==
  /\ Put(At, Load(mem, from, n, Wild))
  /\ LET r == [reg EXCEPT !.cnt = @ + n, !.left = @ - n, !.t0 = source] IN
     IF r.left # 0 THEN Then(IF pc = "go_byte" THEN pc ELSE "go_double", r)
     ELSE Then("copied", [r EXCEPT !.dicPos = @ + r.cnt])

AtMost(n) == IF n <= reg.left THEN n ELSE reg.left
GoSeed   == pc = "go_seed" /\ GoBytes(AtMost(reg.rep0), reg.t0, reg.t0)
GoDouble == pc = "go_double" /\ GoBytes(AtMost(reg.cnt), reg.dicPos, reg.t0)
GoByte   ==
  /\ pc = "go_byte"
  /\ GoBytes(1, reg.t0, IF reg.t0 + 1 = Dic + match.dicBufSize THEN Dic ELSE reg.t0 + 1)

CopyStep ==
  \/ WideLoop \/ WideTail \/ WideDone \/ CrossLoop \/ NoWrapByte \/ Common \/ ByteLoop
  \/ Flush \/ WordAlign \/ WordLoop \/ Match0 \/ Match0Small \/ CopyEnd
  \/ GoSeed \/ GoDouble \/ GoByte
Copying ==
  pc \in {"copy_wide_loop", "copy_wide_tail", "copy_wide_done", "copy_cross_loop", "copy_no_wrap_byte",
          "copy_common", "copy_byte_loop", "copy_flush", "copy_word_align", "copy_word_loop",
          "copy_match_0", "copy_match_0_small", "copy_end", "go_seed", "go_double", "go_byte"}
=============================================================================
