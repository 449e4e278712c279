---------------------------- MODULE MCWindowsSys ----------------------------
(***************************************************************************)
(* WindowsSys with DWORDs of four bits: a console and a pipe, started with *)
(* the standard output on either, missing (NULL) or invalid, and a buffer  *)
(* longer than a DWORD can say.                                            *)
(***************************************************************************)
EXTENDS WindowsSys

MCDword == 16
MCConsole == {3}
MCHandle == {3, 7}
MCStd ==
    {[Input |-> 0, Output |-> out, Error |-> 7] : out \in {3, 7}}
      \union {[Input |-> 3, Output |-> NULL_HANDLE, Error |-> 7],
              [Input |-> 3, Output |-> INVALID_HANDLE_VALUE, Error |-> 3]}

\* A string of one character, or 18 units.
MCBuffer == {[i \in 1 .. MCDword + 2 |-> IF i = 2 THEN NUL ELSE 1]}
\* of sizes and statuses that need more than a DWORD: one whose low bits are
\* all zero, and one whose low bits are another size or status
MCSize == {0, 2, MCDword, MCDword + 1}
MCStatus == {0, -1, MCDword + 1}
MCFileLimit == 2
=============================================================================
