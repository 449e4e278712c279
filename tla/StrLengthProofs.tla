--------------------------- MODULE StrLengthProofs ---------------------------
(***************************************************************************)
(* str_length is right for every terminated string, however long.          *)
(***************************************************************************)
EXTENDS StrLength, TLAPS

LEMMA InitInv == Init => Inv
<1> SUFFICES ASSUME Init PROVE Inv
  OBVIOUS
<1>1. \E i \in DOMAIN string : i >= 0 /\ string[i] = NUL
  BY RegionAssumption DEF Init
<1> QED BY <1>1 DEF Init, Inv, TypeOK, ResultIsLength

LEMMA NextInv == Inv /\ [Next]_vars => Inv'
<1> SUFFICES ASSUME Inv, [Next]_vars PROVE Inv'
  OBVIOUS
<1>1. PICK last \in Nat : string \in [0 .. last -> Byte]
  BY RegionAssumption DEF Inv, TypeOK
<1>2. PICK z \in 0 .. last : z >= length /\ string[z] = NUL
  BY <1>1 DEF Inv
<1>3. CASE Test
  <2>1. length \in DOMAIN string
    BY <1>1, <1>2 DEF Inv, TypeOK
  <2> QED BY <1>3, <2>1 DEF Test, Inv, TypeOK, ResultIsLength, IsLength
<1>4. CASE Body
  <2>1. z >= length + 1
    BY <1>2, <1>4 DEF Body, Inv, TypeOK
  <2>2. \A i \in 0 .. length : string[i] # NUL
    BY <1>4 DEF Body, Inv, TypeOK
  <2> QED BY <1>1, <1>2, <1>4, <2>1, <2>2 DEF Body, Inv, TypeOK, ResultIsLength
<1>5. CASE Again
  <2>1. \E i \in DOMAIN string' : i >= 0 /\ string'[i] = NUL
    BY <1>5, RegionAssumption DEF Again
  <2> QED BY <1>5, <2>1 DEF Again, Inv, TypeOK, ResultIsLength
<1>6. CASE UNCHANGED vars
  BY <1>6 DEF vars, Inv, TypeOK, ResultIsLength, IsLength
<1> QED BY <1>3, <1>4, <1>5, <1>6 DEF Next

LEMMA InvHolds == Spec => []Inv
BY InitInv, NextInv, PTL DEF Spec

(* The result of str_length is the index of the first NUL. *)
THEOREM LengthCorrect == Spec => []ResultIsLength
<1>1. Inv => ResultIsLength
  BY DEF Inv
<1> QED BY <1>1, InvHolds, PTL

(* str_length never reads past the terminator. *)
THEOREM NoOverread == Spec => []NeverFaults
<1>1. Inv => NeverFaults
  BY DEF Inv, NeverFaults
<1> QED BY <1>1, InvHolds, PTL

(* The counter stays a natural number and the loop in one of its places.    *)
THEOREM TypeCorrect == Spec => []TypeOK
<1>1. Inv => TypeOK
  BY DEF Inv
<1> QED BY <1>1, InvHolds, PTL
=============================================================================
