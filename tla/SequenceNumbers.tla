-------------------------- MODULE SequenceNumbers ---------------------------
(***************************************************************************)
(* The 32-bit sequence numbers of State, Hello and transport messages and  *)
(* the wrapping comparison that tells a newer one from an older one        *)
(* (compare_sequence, src/src/impl/message.hpp:105-112).                   *)
(***************************************************************************)
EXTENDS Integers

CONSTANT SeqMod     \* the numbers of a uint32_t, 2^32 in the program

(* Small enough for a model checker, large enough for a next number to be  *)
(* newer than the one before.                                              *)
ASSUME SeqModAssumption == SeqMod \in Nat /\ SeqMod >= 6

Sequence == 0 .. SeqMod - 1

(* s1 - s2 and s + 1 on a uint32_t.                                        *)
Sub(s1, s2) == IF s1 >= s2 THEN s1 - s2 ELSE s1 - s2 + SeqMod
IncUnbounded(s) == s + 1

Inc(s) == IF s = SeqMod - 1 THEN 0 ELSE s + 1

(* std::numeric_limits<uint32_t>::max() / 2                                *)
HalfRange == (SeqMod - 1) \div 2

compare_sequence(s1, s2) ==
    IF s1 = s2 THEN 0 ELSE IF Sub(s1, s2) < HalfRange THEN 1 ELSE -1

=============================================================================
