----------------------------- MODULE MCPlatform -----------------------------
(***************************************************************************)
(* The configurations of the cheat sheet in xmake.lua, those of the        *)
(* workflow files, and one for every other architecture ib.sys has.        *)
(***************************************************************************)
EXTENDS Platform

On(sys, cpu) == [sys |-> sys, cpu |-> cpu]

Triple(keys, token, m) == [keys |-> keys, token |-> token, machine |-> m]

Native(plat, arch, cxx, linker, m) ==
    [plat |-> plat, arch |-> arch, cross |-> None, cxx |-> cxx, linker |-> linker,
     native |-> m]

\* The host of the cross builds; -a is ignored.
Cross(keys, token, m) ==
    [plat |-> "cross", arch |-> "x86_64", cross |-> Triple(keys, token, m),
     cxx |-> "clang", linker |-> "clangxx", native |-> On("linux", "amd64")]

CheatSheet ==
    {Native("windows", "x64", "cl", "link", On("windows", "amd64")),
     Native("windows", "x64", "clang", "clang", On("windows", "amd64")),
     Native("windows", "x64", "clang", "clangxx", On("windows", "amd64")),
     Native("mingw", "x86_64", "gxx", "gxx", On("mingw", "amd64")),
     Native("linux", "x86_64", "gxx", "gxx", On("linux", "amd64")),
     Cross({"apple", "macos"}, "x86_64", On("macos", "amd64")),
     Cross({"apple", "macos"}, "aarch64", On("macos", "aarch64")),
     Cross({"apple", "ios"}, "arm64", On("ios", "aarch64")),
     Cross({"freebsd"}, "x86_64", On("freebsd", "amd64")),
     Cross({"openbsd"}, "x86_64", On("openbsd", "amd64")),
     Cross({"netbsd"}, "x86_64", On("netbsd", "amd64")),
     Cross({"dragonfly"}, "x86_64", On("dragonfly", "amd64")),
     Cross({"linux", "android"}, "aarch64", On("android", "aarch64")),
     Cross({"linux"}, "aarch64", On("linux", "aarch64")),
     Cross({"wasm", "emscripten"}, "wasm32", On("wasm", "wasm32"))}

\* OpenIndiana's workflow (x86_64-pc-solaris2.11), 32-bit Windows both ways,
\* a vendor of "none" before the system, and the other architectures.
Further ==
    {Native("windows", "x86", "cl", "link", On("windows", "i386")),
     Native("windows", "arm64", "cl", "link", On("windows", "aarch64")),
     Native("mingw", "i686", "gxx", "gxx", On("mingw", "i386")),
     Cross({"mingw"}, "i686", On("mingw", "i386")),
     Native("linux", "x86_64", "clang", "clangxx", On("linux", "amd64")),
     Cross({"solaris"}, "x86_64", On("solaris", "amd64")),
     Cross({"solaris"}, "sparcv9", On("solaris", "sparc64")),
     Cross({"none", "linux"}, "aarch64", On("linux", "aarch64")),
     Cross({"linux", "android"}, "i686", On("android", "i386"))}
    \union
    {Cross({"linux"}, cpu, On("linux", cpu))
        : cpu \in {"i386", "arm", "ppc64", "mips64", "riscv64", "s390x", "loongarch64"}}
    \union
    {Cross({sys}, cpu, On(sys, cpu))
        : sys \in {"freebsd", "netbsd", "openbsd"},
          cpu \in {"i386", "arm", "aarch64", "ppc64", "riscv64"}}

MCConfig == CheatSheet \union Further

\* All but iOS and wasm, and Windows with a linker that has no entry option.
MCWorking ==
    {c \in MCConfig :
        /\ c.cross # None => c.cross.machine.sys \notin {"ios", "wasm"}
        /\ ~ (c.plat = "windows" /\ c.linker = "clangxx")}
SheetWorking == MCWorking \intersect CheatSheet
=============================================================================
