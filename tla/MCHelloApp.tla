----------------------------- MODULE MCHelloApp -----------------------------
(***************************************************************************)
(* The program on every kind of system, with a text of three characters.   *)
(***************************************************************************)
EXTENDS HelloApp

MCMessage == <<72, 105, 10, NUL>>
\* room for the whole text but not for it twice
MCFileLimit == 5

MCModulus == 65536
MCTarget == {"linux32", "linux64", "netbsd", "freebsd", "solaris"}
MCFlagsErrors == {"netbsd", "freebsd", "solaris"}
MCKernelPads == {"netbsd"}
MCErrno == {1, 4, 4095}

\* the standard output on a console, on a pipe, missing and invalid
MCDword == 16
MCHandle == {3, 7}
MCConsole == {3}
MCStd == {[Input |-> 3, Output |-> out, Error |-> 7] : out \in {3, 7, 0, -1}}
=============================================================================
