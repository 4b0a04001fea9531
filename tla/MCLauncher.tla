----------------------------- MODULE MCLauncher -----------------------------
(* Launcher.tla for TLC: a DLL of another name, the debugger's DLL written   *)
(* with '\' and with '/'; the first two have short paths.                    *)
EXTENDS Launcher

CONSTANTS other, native, slashed, found

InjectedPaths == {other, native, slashed}
DebugPaths == {native, slashed, found}
SlashedPaths == {slashed}
ShortPaths == {other, native}
=============================================================================
