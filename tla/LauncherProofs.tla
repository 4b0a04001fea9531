--------------------------- MODULE LauncherProofs ---------------------------
(***************************************************************************)
(* The launcher's safety, for command lines of any length and any DLLs.    *)
(***************************************************************************)
EXTENDS Launcher, TLAPS

\* What TypeOK needs besides itself: the arguments that are left make room for
\* the DLLs that are still to come.
Typed ==
    /\ TypeOK
    /\ argv \in Seq(Arguments)
    /\ auto \in BOOLEAN
    /\ pc = "args" => Len(dlls) + Len(argv) <= MaxArgs
    /\ pc = "inject" => Len(dlls) <= MaxArgs

LEMMA Sequences ==
    ASSUME NEW S, NEW s \in Seq(S)
    PROVE  /\ \A x \in S : /\ Append(s, x) \in Seq(S) /\ Len(Append(s, x)) = Len(s) + 1
                           /\ ToSet(Append(s, x)) = ToSet(s) \cup {x}
           /\ s # << >> => /\ Tail(s) \in Seq(S) /\ Len(Tail(s)) = Len(s) - 1
                           /\ Head(s) \in S /\ ToSet(s) = {Head(s)} \cup ToSet(Tail(s))
           /\ Len(s) \in Nat
<1>1. ASSUME NEW x \in S
      PROVE  /\ Append(s, x) \in Seq(S) /\ Len(Append(s, x)) = Len(s) + 1
             /\ ToSet(Append(s, x)) = ToSet(s) \cup {x}
  <2>1. /\ Append(s, x) \in Seq(S) /\ Len(Append(s, x)) = Len(s) + 1
        /\ DOMAIN s = 1..Len(s) /\ DOMAIN Append(s, x) = 1..Len(s) + 1
        /\ \A i \in 1..Len(s) : Append(s, x)[i] = s[i]
        /\ Append(s, x)[Len(s) + 1] = x
        /\ Len(s) \in Nat
    OBVIOUS
  <2> QED
    BY <2>1 DEF ToSet
<1>2. ASSUME s # << >>
      PROVE  /\ Tail(s) \in Seq(S) /\ Len(Tail(s)) = Len(s) - 1
             /\ Head(s) \in S /\ ToSet(s) = {Head(s)} \cup ToSet(Tail(s))
  <2>1. /\ Tail(s) \in Seq(S) /\ Len(Tail(s)) = Len(s) - 1 /\ Head(s) \in S
        /\ DOMAIN s = 1..Len(s) /\ DOMAIN Tail(s) = 1..Len(s) - 1
        /\ \A i \in 1..Len(s) - 1 : Tail(s)[i] = s[i + 1]
        /\ Head(s) = s[1] /\ Len(s) \in Nat \ {0}
    BY <1>2
  <2>2. \A i \in 1..Len(s) : i = 1 \/ (i - 1 \in 1..Len(s) - 1 /\ s[i] = Tail(s)[i - 1])
    BY <2>1
  <2>3. \A i \in 1..Len(s) : s[i] \in {Head(s)} \cup ToSet(Tail(s))
    <3>1. \A j \in 1..Len(s) - 1 : Tail(s)[j] \in ToSet(Tail(s))
      BY <2>1 DEF ToSet
    <3> QED
      BY <2>1, <2>2, <3>1
  <2>4. \A i \in 1..Len(s) - 1 : Tail(s)[i] \in ToSet(s)
    BY <2>1 DEF ToSet
  <2>5. Head(s) \in ToSet(s)
    BY <2>1 DEF ToSet
  <2> QED
    BY <2>1, <2>3, <2>4, <2>5 DEF ToSet
<1> QED
  BY <1>1, <1>2

LEMMA GivenSequence == Init => given \in Seq(Arguments) /\ Len(given) <= MaxArgs
<1> SUFFICES ASSUME Init PROVE given \in Seq(Arguments) /\ Len(given) <= MaxArgs
  OBVIOUS
<1>1. PICK m \in 0..MaxArgs : given \in [1..m -> Arguments]
  BY DEF Init, SeqOf
<1>2. m \in Nat /\ m <= MaxArgs
  BY BoundAssumption
<1> QED
  BY <1>1, <1>2

-----------------------------------------------------------------------------
(* Types *)

LEMMA InitTyped == Init => Typed
<1> SUFFICES ASSUME Init PROVE Typed
  OBVIOUS
<1>1. argv \in Seq(Arguments) /\ Len(argv) <= MaxArgs /\ Len(argv) \in Nat
  BY GivenSequence DEF Init
<1>2. dlls = << >> /\ Len(dlls) = 0 /\ dlls \in Seq(Dlls \cup {AutoDll})
  BY DEF Init
<1> QED
  BY <1>1, <1>2, BoundAssumption DEF Init, Typed, TypeOK

LEMMA ArgKept ==
    ASSUME Typed, ParseArg
    PROVE  Typed'
<1>1. /\ argv' = Tail(argv) /\ argv # << >> /\ pc = "args" /\ Head(argv) \in Arguments
      /\ argv' \in Seq(Arguments) /\ Len(argv') = Len(argv) - 1 /\ Len(argv) \in Nat
  BY Sequences DEF ParseArg, Typed
<1>2. /\ dlls' \in Seq(Dlls \cup {AutoDll}) /\ Len(dlls) \in Nat /\ Len(dlls') \in Nat
      /\ Len(dlls') <= Len(dlls) + 1
  <2>1. dlls \in Seq(Dlls \cup {AutoDll}) /\ Head(argv).dll \in Dlls \cup {AutoDll}
    BY <1>1 DEF Typed, TypeOK, Arguments
  <2>2. dlls' = dlls \/ dlls' = Append(dlls, Head(argv).dll)
    BY DEF ParseArg
  <2> QED
    BY <2>1, <2>2, Sequences
<1>3. Len(dlls') + Len(argv') <= MaxArgs
  BY <1>1, <1>2, BoundAssumption DEF Typed
<1>4. Len(dlls') <= MaxArgs + 1
  BY <1>1, <1>2, <1>3, BoundAssumption, Sequences
<1>5. auto' \in BOOLEAN /\ path' \in {"none", "parameter", "current", "server", "client"}
  BY DEF ParseArg, Typed, TypeOK
<1>6. UNCHANGED <<pc, alive>>
  BY DEF ParseArg, loopVars
<1> QED
  BY <1>1, <1>2, <1>3, <1>4, <1>5, <1>6 DEF Typed, TypeOK

LEMMA SearchKept ==
    ASSUME Typed, DetectPath \/ AutoInject \/ Normalize \/ Create
    PROVE  Typed'
<1>1. UNCHANGED <<argv, auto>>
  BY DEF DetectPath, AutoInject, Normalize, Create, argVars, loopVars
<1>2. pc' \in {"inject", "normalize", "waiting", "failed"}
  BY DEF DetectPath, AutoInject, Normalize, Create
<1>3. path' \in {"none", "parameter", "current", "server", "client"}
  BY DEF DetectPath, AutoInject, Normalize, Create, argVars, FromRegistry, Typed, TypeOK
<1>4. alive' \subseteq {"server", "child"}
  BY DEF DetectPath, AutoInject, Normalize, Create, loopVars, Typed, TypeOK
<1>5. /\ dlls' \in Seq(Dlls \cup {AutoDll}) /\ Len(dlls') <= MaxArgs + 1
      /\ pc' = "inject" => Len(dlls') <= MaxArgs
  <2>1. dlls \in Seq(Dlls \cup {AutoDll}) /\ Len(dlls) \in Nat /\ Len(dlls) <= MaxArgs + 1
    BY Sequences DEF Typed, TypeOK
  <2>2. CASE DetectPath
    <3>1. dlls' = dlls /\ Len(argv) \in Nat /\ Len(dlls) + Len(argv) <= MaxArgs
      BY <2>2, Sequences DEF DetectPath, Typed
    <3> QED
      BY <2>1, <3>1, BoundAssumption
  <2>3. CASE AutoInject
    <3>1. dlls' = dlls \/ dlls' = Append(dlls, AutoDll)
      BY <2>3 DEF AutoInject
    <3>2. Len(dlls) <= MaxArgs /\ pc' # "inject"
      BY <2>3 DEF AutoInject, Typed
    <3> QED
      BY <2>1, <3>1, <3>2, Sequences, BoundAssumption
  <2>4. CASE Normalize \/ Create
    BY <2>1, <2>4 DEF Normalize, Create, argVars
  <2> QED
    BY <2>2, <2>3, <2>4
<1> QED
  BY <1>1, <1>2, <1>3, <1>4, <1>5 DEF Typed, TypeOK

LEMMA LoopKept ==
    ASSUME Typed, Debuggee \/ StartChild \/ Handle \/ KeyPressed
    PROVE  Typed'
<1>1. UNCHANGED <<argv, auto, dlls, path>>
  BY DEF Debuggee, StartChild, RaiseOther, RaiseFault, RaiseExit, Raise, Handle,
         HandleOther, HandleFault, HandleExit, KeyPressed, argVars
<1>2. CASE Debuggee \/ StartChild
  <2>1. pc' = "handling" /\ alive' \subseteq alive \cup {"child"}
    BY <1>2 DEF Debuggee, StartChild, RaiseOther, RaiseFault, RaiseExit, Raise
  <2> QED
    BY <1>1, <2>1 DEF Typed, TypeOK
<1>3. CASE Handle \/ KeyPressed
  <2>1. pc' \in {"waiting", "done", "paused"} /\ alive' = alive
    BY <1>3 DEF Handle, HandleOther, HandleFault, HandleExit, KeyPressed, ContinueEvent, loopVars
  <2> QED
    BY <1>1, <2>1 DEF Typed, TypeOK
<1> QED
  BY <1>2, <1>3

LEMMA TypedKept == Typed /\ [Next]_vars => Typed'
<1> SUFFICES ASSUME Typed, [Next]_vars PROVE Typed'
  OBVIOUS
<1>1. CASE UNCHANGED vars
  BY <1>1 DEF vars, argVars, loopVars, Typed, TypeOK
<1> QED
  BY <1>1, ArgKept, SearchKept, LoopKept DEF Next

\* Every variable of the launcher keeps its type, whatever the debugged processes
\* do.
THEOREM LauncherTypes == Spec => []TypeOK
<1>1. Typed => TypeOK
  BY DEF Typed
<1> QED
  BY <1>1, InitTyped, TypedKept, PTL DEF Spec

-----------------------------------------------------------------------------
(* The debugger's DLL *)

\* The search is on, or a DLL of the debugger's name was given; and before the
\* DLLs are handed on one of them has it.
Injected ==
    /\ ~auto => ToSet(dlls) \cap DebugNamed # {}
    /\ pc \notin {"args", "inject", "failed"} => ToSet(dlls) \cap DebugNamed # {}

\* The server is never started without a debugger DLL, whatever paths are given
\* with -inject (main.cpp:27).
THEOREM NeverWithoutDebugger == Spec => []DebuggerInjected
<1>1. Init => Injected
  BY DEF Init, Injected
<1>2. Typed /\ Injected /\ [Next]_vars => Injected'
  <2> SUFFICES ASSUME Typed, Injected, [Next]_vars PROVE Injected'
    OBVIOUS
  <2>1. CASE ParseArg
    <3>1. /\ pc' = "args" /\ Head(argv) \in Arguments
          /\ dlls \in Seq(Dlls \cup {AutoDll})
      BY <2>1, Sequences DEF ParseArg, Typed, TypeOK
    <3>2. CASE dlls' = Append(dlls, Head(argv).dll) /\ auto' = (auto /\ ~MatchesSchema(Head(argv).dll))
      <4>1. ToSet(dlls') = ToSet(dlls) \cup {Head(argv).dll}
        BY <3>1, <3>2, Sequences DEF Arguments
      <4> QED
        BY <3>1, <3>2, <4>1 DEF Injected, MatchesSchema, Typed
    <3>3. CASE UNCHANGED <<dlls, auto>>
      BY <3>1, <3>3 DEF Injected
    <3> QED
      BY <2>1, <3>2, <3>3 DEF ParseArg
  <2>2. CASE AutoInject
    <3>1. ASSUME dlls' = Append(dlls, AutoDll)
          PROVE  ToSet(dlls') \cap DebugNamed # {}
      <4>1. ToSet(dlls') = ToSet(dlls) \cup {AutoDll}
        BY <3>1, Sequences DEF Typed, TypeOK
      <4> QED
        BY <4>1, DllAssumption
    <3> QED
      BY <2>2, <3>1 DEF AutoInject, Injected
  <2>3. CASE UNCHANGED <<dlls, auto>> /\ (pc' \in {"args", "inject", "failed"} \/ pc \notin {"args", "inject", "failed"})
    BY <2>3 DEF Injected
  <2>4. Next => ParseArg \/ AutoInject \/ UNCHANGED <<dlls, auto>>
    BY DEF Next, DetectPath, Normalize, Create, Debuggee, StartChild, RaiseOther,
       RaiseFault, RaiseExit, Raise, Handle, HandleOther, HandleFault, HandleExit,
       KeyPressed, argVars
  <2>5. Next => ParseArg \/ AutoInject \/ pc' \in {"args", "inject", "failed"}
                    \/ pc \notin {"args", "inject", "failed"}
    BY DEF Next, DetectPath, Normalize, Create, Debuggee, StartChild, RaiseOther,
       RaiseFault, RaiseExit, Raise, Handle, HandleOther, HandleFault, HandleExit,
       KeyPressed
  <2>6. CASE UNCHANGED vars
    BY <2>6 DEF vars, argVars, Injected
  <2> QED
    BY <2>1, <2>2, <2>3, <2>4, <2>5, <2>6
<1>3. Injected => DebuggerInjected
  BY DEF Injected, DebuggerInjected, Launched
<1>4. Typed /\ [Next]_vars => Typed'
  BY TypedKept
<1> QED
  BY <1>1, <1>2, <1>3, <1>4, InitTyped, PTL DEF Spec

-----------------------------------------------------------------------------
(* The pointers *)

\* A pointer is taken after the vector has grown for it, so that the last one
\* is as new as the vector.
LastIsFresh ==
    /\ ptrs \in Seq([dll : Dlls \cup {AutoDll}, taken : Nat]) /\ moves \in Nat
    /\ ptrs # << >> => ptrs[Len(ptrs)].taken = moves

\* Only a pointer that another DLL came after can dangle (bf2launcher.cpp:84).
THEOREM LastNeverDangles == Spec => []DanglesOnlyMoved
<1>1. Init => LastIsFresh
  BY DEF Init, LastIsFresh
<1>2. Typed /\ LastIsFresh /\ [Next]_vars => LastIsFresh'
  <2> SUFFICES ASSUME Typed, LastIsFresh, [Next]_vars PROVE LastIsFresh'
    OBVIOUS
  <2>1. CASE UNCHANGED <<ptrs, moves>>
    BY <2>1 DEF LastIsFresh
  <2>2. CASE Normalize /\ ptrs' = Append(ptrs, Pointer(dlls[Len(ptrs) + 1], moves'))
    <3> DEFINE d == dlls[Len(ptrs) + 1]
    <3>1. moves' \in Nat /\ Len(ptrs) \in Nat /\ d \in Dlls \cup {AutoDll}
      BY <2>2 DEF Normalize, LastIsFresh, Typed, TypeOK, dllVars
    <3>2. Pointer(d, moves') \in [dll : Dlls \cup {AutoDll}, taken : Nat] /\ Pointer(d, moves').taken = moves'
      BY <3>1 DEF Pointer
    <3> HIDE DEF d
    <3>3. ptrs' = Append(ptrs, Pointer(d, moves'))
      BY <2>2 DEF d
    <3>4. ptrs' \in Seq([dll : Dlls \cup {AutoDll}, taken : Nat]) /\ ptrs'[Len(ptrs')] = Pointer(d, moves')
      BY <3>2, <3>3 DEF LastIsFresh
    <3> QED
      BY <3>1, <3>2, <3>4 DEF LastIsFresh
  <2>3. Next => UNCHANGED <<ptrs, moves>>
                   \/ (Normalize /\ ptrs' = Append(ptrs, Pointer(dlls[Len(ptrs) + 1], moves')))
    BY DEF Next, ParseArg, DetectPath, AutoInject, Normalize, Create, Debuggee, StartChild,
       RaiseOther, RaiseFault, RaiseExit, Raise, Handle, HandleOther,
       HandleFault, HandleExit, KeyPressed, dllVars
  <2>4. CASE UNCHANGED vars
    BY <2>1, <2>4 DEF vars, dllVars
  <2> QED
    BY <2>1, <2>2, <2>3, <2>4
<1>3. LastIsFresh => DanglesOnlyMoved
  <2> SUFFICES ASSUME LastIsFresh, NEW i \in DOMAIN ptrs, Dangles(i) PROVE i < Len(ptrs)
    BY DEF DanglesOnlyMoved
  <2>1. i \in 1..Len(ptrs) /\ Len(ptrs) \in Nat /\ ptrs # << >>
    BY DEF LastIsFresh
  <2>2. i # Len(ptrs)
    BY <2>1 DEF LastIsFresh, Dangles
  <2> QED
    BY <2>1, <2>2
<1>4. Typed /\ [Next]_vars => Typed'
  BY TypedKept
<1> QED
  BY <1>1, <1>2, <1>3, <1>4, InitTyped, PTL DEF Spec

-----------------------------------------------------------------------------
(* The server's directory *)

GivesPath(a) == a.kind = "bf2path"

\* Of the arguments read so far one was -bf2path exactly if _path is set.
PathOfArgs ==
    /\ pc = "args" =>
           /\ path \in {"none", "parameter"}
           /\ Given("bf2path") # {} <=> path = "parameter" \/ \E a \in ToSet(argv) : GivesPath(a)
    /\ pc \notin {"args", "failed"} =>
           path = CASE Given("bf2path") # {} -> "parameter"
                    [] Given("bf2path") = {} /\ exeHere -> "current"
                    [] Given("bf2path") = {} /\ ~exeHere /\ "server" \in registry -> "server"
                    [] OTHER -> "client"

\* A parameter comes before the working directory, that before the server's
\* installation, and that before the client's (README.md:14).
THEOREM PathIsFoundInOrder == Spec => []PathHierarchy
<1>1. Init => PathOfArgs
  BY DEF Init, PathOfArgs, Given, GivesPath
<1>2. Typed /\ PathOfArgs /\ [Next]_vars => PathOfArgs'
  <2> SUFFICES ASSUME Typed, PathOfArgs, [Next]_vars PROVE PathOfArgs'
    OBVIOUS
  <2>1. UNCHANGED <<given, exeHere, registry>>
    BY DEF Next, ParseArg, DetectPath, AutoInject, Normalize, Create, Debuggee, StartChild,
       RaiseOther, RaiseFault, RaiseExit, Raise, Handle, HandleOther,
       HandleFault, HandleExit, KeyPressed, argVars, foundVars, vars
  <2>2. Given("bf2path")' = Given("bf2path")
    BY <2>1 DEF Given
  <2>3. CASE ParseArg
    <3>1. ToSet(argv) = {Head(argv)} \cup ToSet(argv') /\ pc' = "args" /\ pc = "args"
      BY <2>3, Sequences DEF ParseArg, Typed
    <3>2. CASE GivesPath(Head(argv))
      <4>1. path' = "parameter"
        BY <2>3, <3>2 DEF ParseArg, GivesPath
      <4> QED
        BY <2>2, <3>1, <3>2, <4>1 DEF PathOfArgs
    <3>3. CASE ~GivesPath(Head(argv))
      <4>1. path' = path
        BY <2>3, <3>3 DEF ParseArg, GivesPath
      <4> QED
        BY <2>2, <3>1, <3>3, <4>1 DEF PathOfArgs
    <3> QED
      BY <3>2, <3>3
  <2>4. CASE DetectPath
    <3>1. Given("bf2path") # {} <=> path = "parameter"
      BY <2>4 DEF DetectPath, PathOfArgs, ToSet
    <3>2. path \in {"none", "parameter"}
      BY <2>4 DEF DetectPath, PathOfArgs
    <3>3. CASE pc' = "failed"
      BY <3>3 DEF PathOfArgs
    <3>4. CASE pc' = "inject" /\ path # "none" /\ UNCHANGED path
      BY <2>1, <2>2, <3>1, <3>2, <3>4 DEF PathOfArgs
    <3>5. CASE pc' = "inject" /\ path = "none" /\ exeHere /\ path' = "current"
      BY <2>1, <2>2, <3>1, <3>5 DEF PathOfArgs
    <3>6. CASE pc' = "inject" /\ path = "none" /\ ~exeHere /\ path' = FromRegistry
      <4>1. Given("bf2path")' = {} /\ ~exeHere'
        BY <2>1, <2>2, <3>1, <3>6
      <4>2. CASE "server" \in registry'
        BY <2>1, <3>6, <4>1, <4>2 DEF PathOfArgs, FromRegistry
      <4>3. CASE "server" \notin registry'
        BY <2>1, <3>6, <4>1, <4>3 DEF PathOfArgs, FromRegistry
      <4> QED
        BY <4>2, <4>3
    <3> QED
      BY <2>4, <3>3, <3>4, <3>5, <3>6 DEF DetectPath
  <2>5. CASE UNCHANGED path /\ pc \notin {"args", "failed"} /\ pc' # "args"
    BY <2>1, <2>2, <2>5 DEF PathOfArgs
  <2>6. CASE UNCHANGED vars
    BY <2>1, <2>2, <2>6 DEF vars, argVars, PathOfArgs
  <2>7. Next => \/ ParseArg \/ DetectPath
                \/ UNCHANGED path /\ pc \notin {"args", "failed"} /\ pc' # "args"
    BY DEF Next, AutoInject, Normalize, Create, Debuggee, StartChild, RaiseOther,
       RaiseFault, RaiseExit, Raise, Handle, HandleOther, HandleFault, HandleExit,
       KeyPressed, ContinueEvent, argVars
  <2> QED
    BY <2>3, <2>4, <2>5, <2>6, <2>7
<1>3. PathOfArgs => PathHierarchy
  BY DEF PathOfArgs, PathHierarchy, Launched
<1> QED
  BY <1>1, <1>2, <1>3, InitTyped, TypedKept, PTL DEF Spec
=============================================================================
