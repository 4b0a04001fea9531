---------------------------- MODULE SessionRefs ----------------------------
(***************************************************************************)
(* The references a debugger_session hands to its client: frame ids,       *)
(* variablesReferences and sourceReferences (handle_stackTrace,            *)
(* handle_scopes, handle_variables, handle_source and forget in            *)
(* debugger_session.cpp).  The tables hold borrowed pointers into the      *)
(* interpreter, so what matters is when the objects behind them can go     *)
(* away: debugger::setup and interaction call forget() when an event stops *)
(* and again when it is released.  Meanwhile a request may run Python code *)
(* (an expression, the disassembler, the str of a value), which gives the  *)
(* GIL away: the other threads, whose events TraceHandoff.tla follows, go  *)
(* on, and only the stack of the stopped thread stands still.              *)
(***************************************************************************)
EXTENDS Naturals, Sequences, FiniteSets

CONSTANTS
    Threads,
    Frames,       \* frame addresses
    Codes,        \* code objects, each with its file
    CodeKind,     \* "path", "synthetic" (<string>) or "zip" file of a code
    Keys,         \* names bound to dicts
    Dicts,        \* addresses of the dicts bound to them
    NoDict,
    NoThread,
    Globals,      \* the module dict all frames share
    MaxSourceId   \* bound: source ids handed out

ASSUME KindAssumption   == CodeKind \in [Codes -> {"path", "synthetic", "zip"}]
ASSUME BoundAssumption  == MaxSourceId \in Nat \ {0}
ASSUME NullAssumption   == NoDict \notin Dicts /\ NoThread \notin Threads
ASSUME AddressAssumption == IsFiniteSet(Frames)
ASSUME CodeAssumption   == Codes # {}

VARIABLES
    frames,         \* thread -> its frames, innermost first
    code,           \* frame -> f_code
    bound,          \* <<dict, key>> -> the dict bound to the key in it
    curthread,      \* _curthread while stopped, NoThread while running
    frame_refs, var_refs, source_refs, source_cache, last_source_id,
    issued,         \* history: the source ids handed out, the code each was handed
                    \* out for, and whether for a frame of the stopped thread
    shown,          \* history: the last stackTrace answer
    ran             \* history: has Python run while the event is stopped?

pyVars   == <<frames, code, bound>>
refVars  == <<frame_refs, var_refs, source_refs>>
ghosts   == <<issued, shown, ran>>
vars == <<pyVars, curthread, refVars, source_cache, last_source_id, ghosts>>

\* The locals of a frame are a dict of their own; a frame address stands for it.
Holders == Frames \cup {Globals} \cup Dicts
LiveFrames == UNION {{frames[t][i] : i \in DOMAIN frames[t]} : t \in Threads}
\* A dict lives as long as it can be reached from a frame or the globals.
Roots == LiveFrames \cup {Globals}
Closed(C) == Roots \subseteq C /\ \A h \in C, k \in Keys : bound[<<h, k>>] \in C \cup {NoDict}
LiveDicts == {d \in Holders : \A C \in SUBSET Holders : Closed(C) => d \in C}

Empty == [x \in {} |-> x]
Put(table, id, value) ==
    [x \in DOMAIN table \cup {id} |-> IF x = id THEN value ELSE table[x]]
IsStopped == curthread # NoThread
NothingShown == [of |-> NoThread, stack |-> << >>]

Init ==
    /\ frames = [t \in Threads |-> << >>]
    /\ code \in [Frames -> {CHOOSE c \in Codes : TRUE}]
    /\ bound = [hk \in Holders \X Keys |-> NoDict]
    /\ curthread = NoThread
    /\ frame_refs = Empty /\ var_refs = Empty /\ source_refs = Empty
    /\ source_cache = Empty
    /\ last_source_id = 1
    /\ issued = {} /\ shown = NothingShown /\ ran = FALSE

-----------------------------------------------------------------------------
(* Python: everybody while no event is stopped, and everybody but the        *)
(* stopped thread while a request runs code                                  *)

Runs(t) == t # curthread /\ ran' = (ran \/ IsStopped)

Enter(t, f, c) ==
    /\ Runs(t)
    /\ f \in Frames \ LiveFrames
    /\ frames' = [frames EXCEPT ![t] = <<f>> \o @]
    /\ code' = [code EXCEPT ![f] = c]
    /\ UNCHANGED <<bound, curthread, refVars, source_cache, last_source_id, issued, shown>>

Leave(t) ==
    /\ Runs(t)
    /\ frames[t] # << >>
    /\ frames' = [frames EXCEPT ![t] = Tail(@)]
    /\ bound' = [hk \in DOMAIN bound |-> IF hk[1] = Head(frames[t]) THEN NoDict ELSE bound[hk]]
    /\ UNCHANGED <<code, curthread, refVars, source_cache, last_source_id, issued, shown>>

\* An assignment or a del, by the program or by an evaluate request.  What is
\* bound in a dict nothing refers to is what it will hold when it is made.
Bind(h, k, d) ==
    /\ h \in Roots \cup Dicts
    /\ bound' = [bound EXCEPT ![<<h, k>>] = d]
    /\ ran' = (ran \/ IsStopped)
    /\ UNCHANGED <<frames, code, curthread, refVars, source_cache, last_source_id, issued, shown>>

\* mutants of forget: one of the tables is left out
forget_KeepFrames == var_refs' = Empty /\ source_refs' = Empty /\ shown' = NothingShown /\ UNCHANGED frame_refs
forget_KeepSources == frame_refs' = Empty /\ var_refs' = Empty /\ shown' = NothingShown /\ UNCHANGED source_refs
forget_KeepDicts == frame_refs' = Empty /\ source_refs' = Empty /\ shown' = NothingShown /\ UNCHANGED var_refs

\* debugger_session::forget: everything goes, whichever thread is named
forget ==
    /\ frame_refs' = Empty
    /\ var_refs' = Empty
    /\ source_refs' = Empty
    /\ shown' = NothingShown

\* interaction(): setup() forgets before the client is told
Stop(t) ==
    /\ ~IsStopped
    /\ frames[t] # << >>
    /\ curthread' = t
    /\ forget
    /\ ran' = FALSE
    /\ UNCHANGED <<pyVars, source_cache, last_source_id, issued>>

\* the end of interaction()
Resume ==
    /\ IsStopped
    /\ curthread' = NoThread
    /\ forget
    /\ ran' = FALSE
    /\ UNCHANGED <<pyVars, source_cache, last_source_id, issued>>

-----------------------------------------------------------------------------
(* Requests.  They are served while Python runs, too, and follow pointers    *)
(* that may dangle by then.                                                  *)

\* Frame ids count from 1 in every answer, whatever they named before; every
\* frame without a file of its own gets a source id that was never used.
NeedsSource(f) == CodeKind[code[f]] # "path"

\* mutant of SourceId: ++_last_source_id
SourceId_PreIncrement(refs, i) == last_source_id + Cardinality({j \in refs : j <= i})
\* _last_source_id++
SourceId(refs, i) == last_source_id + Cardinality({j \in refs : j < i})

\* mutant of NumberFrames: emplace, which keeps an id that is taken
NumberFrames_Emplace(fs) ==
    frame_refs' = [i \in DOMAIN frame_refs \cup DOMAIN fs |->
                      IF i \in DOMAIN frame_refs THEN frame_refs[i] ELSE fs[i]]
NumberFrames(fs) ==
    frame_refs' = [i \in DOMAIN frame_refs \cup DOMAIN fs |->
                      IF i \in DOMAIN fs THEN fs[i] ELSE frame_refs[i]]

StackTrace(t) ==
    LET fs    == frames[t]
        refs  == {i \in DOMAIN fs : NeedsSource(fs[i])}
        IdOf(i) == SourceId(refs, i)
        new   == {IdOf(i) : i \in refs}
        At(id) == CHOOSE i \in refs : IdOf(i) = id
    IN  /\ fs # << >>
        /\ last_source_id + Cardinality(refs) <= MaxSourceId
        /\ last_source_id' = last_source_id + Cardinality(refs)
        /\ NumberFrames(fs)
        /\ source_refs' = [id \in DOMAIN source_refs \cup new |->
                              IF id \notin new THEN source_refs[id]
                              ELSE IF CodeKind[code[fs[At(id)]]] = "zip"
                              THEN [file |-> code[fs[At(id)]]]
                              ELSE [frame |-> fs[At(id)]]]
        /\ issued' = issued \cup {[id |-> IdOf(i), code |-> code[fs[i]], own |-> t = curthread]
                                     : i \in refs}
        /\ shown' = [of |-> t, stack |-> fs]
        /\ UNCHANGED <<pyVars, curthread, var_refs, source_cache, ran>>

\* the id of a dict is its address
Scopes(id) ==
    /\ id \in DOMAIN frame_refs
    /\ var_refs' = Put(Put(var_refs, frame_refs[id], frame_refs[id]), Globals, Globals)
    /\ UNCHANGED <<pyVars, curthread, frame_refs, source_refs, source_cache,
                   last_source_id, ghosts>>

\* the id of a dict found in another one is the address of its KEY
Variables(id) ==
    LET holder == var_refs[id]
        found  == {k \in Keys : bound[<<holder, k>>] # NoDict}
    IN  /\ id \in DOMAIN var_refs
        /\ var_refs' = [x \in DOMAIN var_refs \cup found |->
                            IF x \in found THEN bound[<<holder, x>>] ELSE var_refs[x]]
        /\ UNCHANGED <<pyVars, curthread, frame_refs, source_refs, source_cache,
                       last_source_id, ghosts>>

\* The disassembly of the frame's code, or the text of the file in the zip.
Content(ref) == IF "file" \in DOMAIN ref THEN ref.file ELSE code[ref.frame]

\* The disassembler has no output or fails, or the zip cannot be read: what is
\* answered then is a text that says so.
Failed == "failed"

\* Whatever was answered is kept for the life of the session.
Source(id) ==
    /\ \/ /\ id \in DOMAIN source_cache
          /\ UNCHANGED source_cache
       \/ /\ id \in DOMAIN source_refs \ DOMAIN source_cache
          /\ \E text \in {Content(source_refs[id]), Failed} :
                 source_cache' = Put(source_cache, id, text)
    /\ UNCHANGED <<pyVars, curthread, refVars, last_source_id, ghosts>>

\* debugger::run replaces the session
Connect ==
    /\ frame_refs' = Empty /\ var_refs' = Empty /\ source_refs' = Empty
    /\ source_cache' = Empty
    /\ last_source_id' = 1
    /\ issued' = {} /\ shown' = NothingShown /\ ran' = FALSE
    /\ UNCHANGED <<pyVars, curthread>>

Python ==
    \/ \E t \in Threads : \/ \E f \in Frames, c \in Codes : Enter(t, f, c)
                          \/ Leave(t)
                          \/ Stop(t)
    \/ \E h \in Holders, k \in Keys, d \in Dicts \cup {NoDict} : Bind(h, k, d)
    \/ Resume

Requests ==
    \/ \E t \in Threads : StackTrace(t)
    \/ \E id \in DOMAIN frame_refs : Scopes(id)
    \/ \E id \in DOMAIN var_refs : Variables(id)
    \/ \E id \in 1..MaxSourceId : Source(id)
    \/ Connect

Next == Python \/ Requests
Spec == Init /\ [][Next]_vars

-----------------------------------------------------------------------------
TypeOK ==
    /\ frames \in [Threads -> Seq(Frames)]
    /\ code \in [Frames -> Codes]
    /\ bound \in [Holders \X Keys -> Dicts \cup {NoDict}]
    /\ curthread \in Threads \cup {NoThread}
    /\ DOMAIN frame_refs \subseteq 1..Cardinality(Frames)
    /\ \A i \in DOMAIN frame_refs : frame_refs[i] \in Frames
    /\ \A x \in DOMAIN var_refs : x \in Holders \cup Keys /\ var_refs[x] \in Holders
    /\ last_source_id \in 1..MaxSourceId
    /\ DOMAIN source_refs \cup DOMAIN source_cache \subseteq 1..(last_source_id - 1)
    /\ \A id \in DOMAIN source_refs : source_refs[id] \in [file : Codes] \cup [frame : Frames]
    /\ issued \subseteq [id : 1..(last_source_id - 1), code : Codes, own : BOOLEAN]
    /\ shown \in [of : Threads \cup {NoThread}, stack : Seq(Frames)]
    /\ ran \in BOOLEAN

\* When an event stops, every pointer handed out before it is forgotten, although
\* tables are filled while Python runs and the frames in them return.  So they
\* all refer to frames that are on a stack, until a request runs Python code;
\* and the stack that the client was shown of the stopped thread is its stack
\* to the end, whatever runs meanwhile.
StoppedFramesLive ==
    IsStopped =>
        /\ ~ran =>
              /\ \A i \in DOMAIN frame_refs : frame_refs[i] \in LiveFrames
              /\ \A id \in DOMAIN source_refs :
                     "frame" \in DOMAIN source_refs[id] => source_refs[id].frame \in LiveFrames
        /\ shown.of = curthread => shown.stack = frames[curthread]

\* The dicts behind variablesReferences are borrowed as well.  They live as
\* long as no request has run Python code, which may rebind names and let other
\* threads return.
StoppedDictsLive ==
    (IsStopped /\ ~ran) => \A x \in DOMAIN var_refs : var_refs[x] \in LiveDicts

\* The frame ids of the latest answer name the frames that were shown in it,
\* whatever longer or shorter stacks were shown before.
ShownFramesKept ==
    \A i \in DOMAIN shown.stack : i \in DOMAIN frame_refs /\ frame_refs[i] = shown.stack[i]

\* A source id is handed out once in a session.  What the cache, which outlives
\* forget(), answers for it is the code it was handed out for, or the text of
\* a failure, if that was a frame of the stopped thread or a file in a zip: a
\* frame of another thread may be gone, and its address taken, when the source
\* is asked for.
SourceFaithful ==
    \A id \in DOMAIN source_cache : \E p \in issued :
        /\ p.id = id /\ \A q \in issued : q.id = id => q = p
        /\ p.own \/ CodeKind[p.code] = "zip" => source_cache[id] \in {p.code, Failed}
=============================================================================
