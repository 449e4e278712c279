--------------------------- MODULE StringTheorems ---------------------------
(***************************************************************************)
(* Facts about prefixes and strings that the proofs about posix.cpp and    *)
(* syscall_windows.cpp share.                                              *)
(***************************************************************************)
EXTENDS Strings, TLAPS, WellFoundedInduction

(* A prefix of a prefix is a prefix. *)
LEMMA PrefixOfPrefix ==
    ASSUME NEW s \in Seq(Int), NEW k \in 0 .. Len(s), NEW n \in 0 .. k
    PROVE  /\ Len(SubSeq(s, 1, k)) = k
           /\ SubSeq(SubSeq(s, 1, k), 1, n) = SubSeq(s, 1, n)
           /\ SubSeq(s, 1, n) \in Seq(Int)
OBVIOUS

(* Among the indices of NULs there is a least one, so that str_length of a  *)
(* string is defined, and an index into its buffer.                         *)
LEMMA StrLengthInBuffer ==
    ASSUME NEW s \in Seq(Int), HasNUL(s)
    PROVE  str_length(s) \in 0 .. Len(s) /\ Len(s) \in Nat
<1> DEFINE T == {n \in 0 .. Len(s) - 1 : s[n + 1] = NUL}
           R == {ss \in Nat \X Nat : ss[1] < ss[2]}
<1>1. Len(s) \in Nat
  OBVIOUS
<1>2. T # {}
  <2>1. PICK i \in 1 .. Len(s) : s[i] = NUL
    BY DEF HasNUL
  <2>2. i - 1 \in 0 .. Len(s) - 1 /\ (i - 1) + 1 = i
    BY <1>1, <2>1
  <2> QED BY <2>1, <2>2
<1>3. T \subseteq Nat
  BY <1>1
<1>4. IsWellFoundedOn(R, Nat)
  BY NatLessThanWellFounded DEF OpToRel
<1>5. PICK n \in T : \A m \in T : <<m, n>> \notin R
  <2> HIDE DEF T, R
  <2> QED BY <1>2, <1>3, <1>4, WFMin
<1>6. \A i \in 1 .. n : s[i] # NUL
  <2> SUFFICES ASSUME NEW i \in 1 .. n, s[i] = NUL PROVE FALSE
    OBVIOUS
  <2>1. n \in 0 .. Len(s) - 1 /\ n \in Nat
    BY <1>1, <1>5
  <2>2. i - 1 \in 0 .. Len(s) - 1 /\ (i - 1) + 1 = i /\ i - 1 < n /\ i - 1 \in Nat
    BY <1>1, <2>1
  <2>3. i - 1 \in T
    BY <2>2
  <2> QED BY <1>5, <2>1, <2>2, <2>3
<1>7. n \in 0 .. Len(s) - 1 /\ s[n + 1] = NUL
  OBVIOUS
<1>8. str_length(s) \in 0 .. Len(s) - 1
  BY <1>6, <1>7 DEF str_length
<1> QED BY <1>1, <1>8
=============================================================================
