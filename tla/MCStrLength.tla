----------------------------- MODULE MCStrLength -----------------------------
(***************************************************************************)
(* Instance of StrLength: every region of at most MaxBytes bytes over two  *)
(* characters and NUL that holds a NUL, at its end or with bytes behind it.*)
(***************************************************************************)
EXTENDS StrLength

MaxBytes == 5

MCByte == {"NUL", "a", "b"}
MCRegion ==
    UNION {{m \in [0 .. last -> MCByte] : \E i \in 0 .. last : m[i] = "NUL"}
             : last \in 0 .. MaxBytes - 1}
=============================================================================
