-------------------------------- MODULE Reloc --------------------------------
(* What the loader may have made of an instruction word of the image, and what *)
(* the guard accepts for it (wupatch_reloc.cpp).                               *)
(*                                                                             *)
(* A word is its primary opcode, an immediate half and the rest of its fields.  *)
(* Addresses are numbers, and only their two halves are ever looked at, so that  *)
(* arithmetic modulo 2^32 needs no more than the two % 2^16 here.               *)
EXTENDS Integers

Half == 65536

High(x) == (x \div Half) % Half
Low(x)  == x % Half

\* A word is a record with an opcode and an immediate, whatever else it has.
IsWord(word) == /\ word = [field \in DOMAIN word |-> word[field]]
                /\ {"op", "imm"} \subseteq DOMAIN word

LowFields == {14, 24} \cup 32..55   \* addi, ori, the D-form loads and stores

\* RelocateLowHalf: the low half of the delta, added into the field.
RelocateLowHalf(word, dataDelta) ==
  IF word.op \in LowFields THEN [word EXCEPT !.imm = Low(@ + Low(dataDelta))] ELSE word

\* Mutant: no carry out of the low half is allowed for.
MatchesHighExactly(found, word, dataDelta) ==
  /\ word.op = 15
  /\ found = [word EXCEPT !.imm = Low(@ + High(dataDelta))]

\* MatchesHighHalf: the carry into a lis is decided in another instruction.
MatchesHighHalf(found, word, dataDelta) ==
  /\ word.op = 15
  /\ \E carry \in 0..1 : found = [word EXCEPT !.imm = Low(@ + High(dataDelta) + carry)]

MatchesNative(found, expected, dataDelta) ==
  \/ found = expected
  \/ /\ dataDelta # 0
     /\ \/ found = RelocateLowHalf(expected, dataDelta)
        \/ MatchesHighHalf(found, expected, dataDelta)

-----------------------------------------------------------------------------
(* External: the linker and the loader.  A word that names an address of .data  *)
(* holds one half of it: the low one, the high one, or the high one adjusted     *)
(* for a signed low half.  An absolute word holds what it always held.           *)

Halves == {"low", "high", "adjusted", "none"}

HalfOf(half, address) ==
  CASE half = "low"      -> Low(address)
    [] half = "high"     -> High(address)
    [] half = "adjusted" -> High(address + 32768)

\* The halves a word with this opcode can hold.
MayHold(op) == {"none"} \cup (IF op \in LowFields THEN {"low"} ELSE {})
                        \cup (IF op = 15 THEN {"high", "adjusted"} ELSE {})

\* The word as linked against `address', of which it holds `half'.
LinkedAs(word, half, address) ==
  IF half = "none" THEN word ELSE [word EXCEPT !.imm = HalfOf(half, address)]
=============================================================================
