------------------------------ MODULE MCPosixSys ------------------------------
(***************************************************************************)
(* Instances of PosixSys for TLC, with words of 16 bits.                   *)
(***************************************************************************)
EXTENDS PosixSys

MCModulus == 65536

\* standard output is open, -1 and 2 are not
MCFd == {1}
MCAnyFd == {1, -1}

\* a buffer with a NUL inside, of which only "a" is a string
MCBuffer == {<<97, 0, 98>>}

\* the start of a file and a later page, an offset inside a page, and two
\* negative ones, the least of all among them
MCOffset == {0, 28672, 100, -8192, -32768}

\* the first error number and the largest the window admits
MCErrno == {1, 4095}

\* page zero and the last page of all, next to the error codes
MCPage == {0, 61440}

MCStatus == {0, -1}
MCFileLimit == 2

\* Linux as mmap2 and as mmap
MCLinux == {"linux32", "linux64"}

\* one target for each branch of mmap, and of those whose kernel negates
\* errors and of those whose kernel flags them
MCTarget == MCLinux \union {"netbsd", "freebsd"}

MCSolaris == {"solaris"}

MCKernelPads == {"openbsd", "netbsd", "macos"}

MCFlagsErrors ==
    {"solaris", "freebsd", "dragonfly", "openbsd", "netbsd", "macos",
     "linux_mips64", "linux_ppc64"}
=============================================================================
