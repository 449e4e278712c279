------------------------------- MODULE Strings -------------------------------
(***************************************************************************)
(* NUL-terminated strings in byte sequences, as the string functions of    *)
(* posix.cpp and syscall_windows.cpp take them.  str_length is the value   *)
(* that detail.cpp computes; module StrLength models the loop.             *)
(***************************************************************************)
EXTENDS Integers, Sequences

NUL == 0

\* s holds a string: there is a NUL in it.
HasNUL(s) == \E i \in 1 .. Len(s) : s[i] = NUL

\* The bytes before the first NUL.
str_length(s) ==
    CHOOSE n \in 0 .. Len(s) - 1 : s[n + 1] = NUL /\ \A i \in 1 .. n : s[i] # NUL
=============================================================================
