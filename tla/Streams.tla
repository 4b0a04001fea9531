------------------------------ MODULE Streams ------------------------------
(***************************************************************************)
(* sys.stdout and sys.stderr.  pyInitialize (main.cpp) puts a redirector   *)
(* there, scripts may put something else there, and py_utils::call         *)
(* (python.cpp) puts a StringIO there while the debugger runs an           *)
(* expression or the disassembler.                                         *)
(*                                                                         *)
(* PySys_GetObject gives a borrowed reference, and py_print_wrapper keeps  *)
(* it as _oldIO: what it restores is alive then only if somebody besides   *)
(* sys had a reference to it.                                              *)
(***************************************************************************)
EXTENDS Functions

CONSTANT Names    \* the names captured: {"stdout", "stderr"} in the code

ASSUME NamesAssumption == Names # {} /\ Names \subseteq {"stdout", "stderr"}

VARIABLES
    sys,     \* the object each name of sys refers to
    owned,   \* objects with a reference that is not sys's
    freed,   \* objects that were deallocated
    saved    \* the two _oldIO, << >> when there is no py_print_wrapper

streamVars == <<sys, owned, freed, saved>>

\* file        Python's own, which sys.__stdout__ and __stderr__ refer to
\* redirector  the debugger's
\* script      whatever a script assigned
\* captured    the StringIO of py_print_wrapper
Stream(kind, n) == [kind |-> kind, name |-> n]
Objects == [kind : {"file", "redirector", "script", "captured"}, name : Names]

\* mutant of Kept: pyInitialize drops its reference after PySys_SetObject
Kept_Dropped(installed) == {Stream("file", n) : n \in Names}

\* pyInitialize makes a redirector with a reference that it never gives back
Kept(installed) == {Stream("file", n) : n \in Names}
                      \cup {Stream("redirector", n) : n \in installed}

StreamsInit ==
    /\ sys = [n \in Names |-> Stream("file", n)]
    /\ owned = Kept({})
    /\ freed = {} /\ saved = << >>

\* PyType_Ready, PyObject_NEW or PySys_SetObject may fail
Install ==
    \E installed \in SUBSET Names :
        /\ sys' = [n \in Names |-> Stream(IF n \in installed THEN "redirector" ELSE "file", n)]
        /\ owned' = Kept(installed)
        /\ UNCHANGED <<freed, saved>>

\* A script assigns an object of its own, of which it may keep a reference,
\* what Python started with, or what the other name refers to.
Assign(n, o) ==
    /\ sys' = [sys EXCEPT ![n] = o]
    /\ \/ /\ o = Stream("script", n) /\ o \notin Range(sys) \cup Range(saved)
          /\ owned' \in {owned \ {o}, owned \cup {o}}
          /\ freed' = freed \ {o}
       \/ /\ o = Stream("file", n) \/ o \in Range(sys) \ freed
          /\ UNCHANGED <<owned, freed>>
    /\ UNCHANGED saved

ScriptAssigns == \E n \in Names, o \in Objects : Assign(n, o)

\* objects that nobody but these names of sys refers to
OnlySysOf(names) == {sys[n] : n \in names} \ ({sys[n] : n \in Names \ names} \cup owned)

\* the two py_print_wrappers of py_utils::call
Capture ==
    /\ saved' = sys
    /\ sys' = [n \in Names |-> Stream("captured", n)]
    /\ freed' = freed \cup OnlySysOf(Names)
    /\ UNCHANGED owned

\* StringIO() fails for stdout, or for stderr, and then stdout is restored
CaptureFails ==
    \E captured \in {{}, {"stdout"} \cap Names} :
        /\ freed' = freed \cup OnlySysOf(captured)
        /\ UNCHANGED <<sys, owned, saved>>

\* their destructors, whatever sys refers to by then
Restore ==
    /\ sys' = saved
    /\ saved' = << >>
    /\ UNCHANGED <<owned, freed>>

StreamsTypeOK ==
    /\ sys \in [Names -> Objects]
    /\ owned \subseteq Objects /\ freed \subseteq Objects
    /\ saved \in [Names -> Objects] \cup {<< >>}

\* A capture never frees what Python or the debugger put into sys, although
\* it is restored from a pointer that owns nothing: only an object a script
\* assigned, without keeping a reference, may dangle afterwards.
StreamsSurvive == \A n \in Names : sys[n] \in freed => sys[n].kind = "script"
=============================================================================
