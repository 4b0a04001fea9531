-------------------------- MODULE SessionRefsProofs --------------------------
(***************************************************************************)
(* Theorems about SessionRefs.tla, for any number of threads, frames, code *)
(* objects and dicts.                                                      *)
(***************************************************************************)
EXTENDS SessionRefs, FiniteSetTheorems, TLAPS

-----------------------------------------------------------------------------
(* Numbers *)

\* The ids of one answer are the next ones, and each frame has one of its own.
LEMMA SourceIds ==
    ASSUME NEW refs \in SUBSET Nat, IsFiniteSet(refs), last_source_id \in Nat
    PROVE  /\ Cardinality(refs) \in Nat
           /\ \A i \in refs :
                 SourceId(refs, i) \in last_source_id .. last_source_id + Cardinality(refs) - 1
           /\ \A i, j \in refs : SourceId(refs, i) = SourceId(refs, j) => i = j
<1> DEFINE Before(i) == {j \in refs : j < i}
<1>1. Cardinality(refs) \in Nat
  BY FS_CardinalityType
<1>2. ASSUME NEW i \in refs
      PROVE  IsFiniteSet(Before(i)) /\ Cardinality(Before(i)) \in Nat
  <2>1. Before(i) \in SUBSET refs
    OBVIOUS
  <2>2. IsFiniteSet(Before(i))
    BY <2>1, FS_Subset
  <2>3. QED
    BY <2>2, FS_CardinalityType
<1>3. ASSUME NEW i \in refs PROVE Cardinality(Before(i)) < Cardinality(refs)
  <2>1. Before(i) \in SUBSET refs /\ i \in refs \ Before(i)
    OBVIOUS
  <2>2. Cardinality(Before(i)) <= Cardinality(refs) /\ Cardinality(Before(i)) # Cardinality(refs)
    BY <2>1, FS_Subset
  <2>3. QED
    BY <1>1, <1>2, <2>2
<1>4. ASSUME NEW i \in refs, NEW j \in refs, i < j
      PROVE  Cardinality(Before(i)) < Cardinality(Before(j))
  <2>1. i \in Nat /\ j \in Nat /\ \A k \in refs : k \in Nat
    OBVIOUS
  <2>2. \A k \in refs : k < i => k < j
    BY <1>4, <2>1
  <2>3. i \in Before(j) /\ i \notin Before(i)
    BY <1>4, <2>1
  <2>4. Before(i) \in SUBSET Before(j)
    BY <2>2
  <2>5. Cardinality(Before(i)) <= Cardinality(Before(j))
           /\ Cardinality(Before(i)) # Cardinality(Before(j))
    BY <1>2, <2>3, <2>4, FS_Subset
  <2>6. QED
    BY <1>2, <2>5
<1>5. \A i \in refs : SourceId(refs, i) = last_source_id + Cardinality(Before(i))
  BY DEF SourceId
<1> HIDE DEF Before
<1>6. \A i \in refs :
         SourceId(refs, i) \in last_source_id .. last_source_id + Cardinality(refs) - 1
  BY <1>1, <1>2, <1>3, <1>5
<1>7. ASSUME NEW i \in refs, NEW j \in refs, SourceId(refs, i) = SourceId(refs, j)
      PROVE  i = j
  <2>1. Cardinality(Before(i)) = Cardinality(Before(j))
    BY <1>2, <1>5, <1>7
  <2>2. ~(i < j) /\ ~(j < i)
    BY <1>2, <1>4, <2>1
  <2>3. QED
    BY <2>2
<1>8. QED
  BY <1>1, <1>6, <1>7

-----------------------------------------------------------------------------
(* Stacks *)

\* A frame is in one place of one stack.
StacksApart ==
    \A t, u \in Threads : \A i \in DOMAIN frames[t], j \in DOMAIN frames[u] :
        frames[t][i] = frames[u][j] => t = u /\ i = j

\* A stack is no longer than there are addresses.
LEMMA StackFits ==
    ASSUME StacksApart, NEW t \in Threads, frames[t] \in Seq(Frames)
    PROVE  DOMAIN frames[t] \subseteq 1 .. Cardinality(Frames)
<1> DEFINE fs == frames[t]
<1>1. Len(fs) \in Nat /\ DOMAIN fs = 1 .. Len(fs) /\ fs \in [1 .. Len(fs) -> Frames]
  OBVIOUS
<1>2. fs \in Injection(1 .. Len(fs), Frames)
  BY <1>1 DEF StacksApart, Injection, IsInjective
<1>3. Cardinality(1 .. Len(fs)) <= Cardinality(Frames)
  BY <1>2, AddressAssumption, FS_Injection
<1>4. Cardinality(1 .. Len(fs)) = Len(fs)
  BY <1>1, FS_Interval
<1>5. Cardinality(Frames) \in Nat
  BY AddressAssumption, FS_CardinalityType
<1>6. QED
  BY <1>1, <1>3, <1>4, <1>5
-----------------------------------------------------------------------------
(* The answer to a stackTrace *)

\* What TypeOK says of source ids
SourceTypes ==
    /\ last_source_id \in 1 .. MaxSourceId
    /\ DOMAIN source_refs \cup DOMAIN source_cache \subseteq 1 .. (last_source_id - 1)
    /\ \A id \in DOMAIN source_refs : source_refs[id] \in [file : Codes] \cup [frame : Frames]
    /\ issued \subseteq [id : 1 .. (last_source_id - 1), code : Codes, own : BOOLEAN]

\* A source id in use was issued before, for one code only.
IssuedOnce == \A p, q \in issued : p.id = q.id => p = q

\* What is written down of the frame f of thread t when it gets an id
Issued(id, t, f) == [id |-> id, code |-> code[f], own |-> t = curthread]

\* What an answer adds to the table of sources: a reference under an id that was
\* not used before, to a frame shown in it or to the file of one.
AddsSource(t, id) ==
    \E i \in DOMAIN frames[t] :
        /\ Issued(id, t, frames[t][i]) \in issued'
        /\ source_refs'[id] = IF CodeKind[code[frames[t][i]]] = "zip"
                              THEN [file |-> code[frames[t][i]]]
                              ELSE [frame |-> frames[t][i]]

LEMMA AnswerFacts ==
    ASSUME SourceTypes, frames \in [Threads -> Seq(Frames)], code \in [Frames -> Codes],
           NEW t \in Threads, StackTrace(t)
    PROVE  /\ last_source_id' \in last_source_id .. MaxSourceId
           /\ issued \subseteq issued'
           /\ issued' \ issued \subseteq
                 [id : last_source_id .. last_source_id' - 1, code : Codes, own : BOOLEAN]
           /\ \A p, q \in issued' \ issued : p.id = q.id => p = q
           /\ \A id \in DOMAIN source_refs' :
                 \/ id \in DOMAIN source_refs /\ source_refs'[id] = source_refs[id]
                 \/ id \in last_source_id .. last_source_id' - 1 /\ AddsSource(t, id)
<1> DEFINE fs == frames[t]
           refs == {i \in DOMAIN fs : NeedsSource(fs[i])}
           IdOf(i) == SourceId(refs, i)
           new == {IdOf(i) : i \in refs}
           At(id) == CHOOSE i \in refs : IdOf(i) = id
           added == {Issued(IdOf(i), t, fs[i]) : i \in refs}
<1>1. /\ fs \in Seq(Frames) /\ Len(fs) \in Nat /\ DOMAIN fs = 1 .. Len(fs)
      /\ refs \in SUBSET (1 .. Len(fs)) /\ refs \in SUBSET Nat
      /\ \A i \in refs : fs[i] \in Frames /\ code[fs[i]] \in Codes
  OBVIOUS
<1>2. IsFiniteSet(refs)
  <2>1. IsFiniteSet(1 .. Len(fs))
    BY <1>1, FS_Interval
  <2>2. QED
    BY <1>1, <2>1, FS_Subset
<1>3. last_source_id \in Nat /\ MaxSourceId \in Nat
  BY BoundAssumption DEF SourceTypes
<1>4. /\ last_source_id + Cardinality(refs) <= MaxSourceId
      /\ last_source_id' = last_source_id + Cardinality(refs)
  BY DEF StackTrace
<1>5. issued' = issued \cup added
  BY DEF StackTrace, Issued
<1>6. source_refs' = [id \in DOMAIN source_refs \cup new |->
                          IF id \notin new THEN source_refs[id]
                          ELSE IF CodeKind[code[fs[At(id)]]] = "zip"
                          THEN [file |-> code[fs[At(id)]]]
                          ELSE [frame |-> fs[At(id)]]]
  BY DEF StackTrace
<1>7. /\ Cardinality(refs) \in Nat
      /\ \A i \in refs : IdOf(i) \in last_source_id .. last_source_id + Cardinality(refs) - 1
      /\ \A i, j \in refs : IdOf(i) = IdOf(j) => i = j
  BY <1>1, <1>2, <1>3, SourceIds
<1> HIDE DEF refs, IdOf
<1>8. last_source_id' \in last_source_id .. MaxSourceId
  BY <1>3, <1>7, <1>4
<1>9. \A i \in refs : IdOf(i) \in last_source_id .. last_source_id' - 1
  BY <1>3, <1>7, <1>4
<1>10. added \subseteq [id : last_source_id .. last_source_id' - 1, code : Codes, own : BOOLEAN]
  <2> DEFINE own == (t = curthread)
  <2>1. own \in BOOLEAN
    OBVIOUS
  <2>2. added = {[id |-> IdOf(i), code |-> code[fs[i]], own |-> own] : i \in refs}
    BY DEF Issued
  <2> HIDE DEF own
  <2>3. QED
    BY <1>1, <1>9, <2>1, <2>2
<1>11. \A p, q \in added : p.id = q.id => p = q
  BY <1>7 DEF Issued
<1>12. ASSUME NEW id \in DOMAIN source_refs', id \in new
       PROVE  id \in last_source_id .. last_source_id' - 1 /\ AddsSource(t, id)
  <2>1. At(id) \in refs /\ IdOf(At(id)) = id
    BY <1>12
  <2>2. Issued(id, t, fs[At(id)]) \in issued'
    <3>1. Issued(IdOf(At(id)), t, fs[At(id)]) \in added
      BY <2>1
    <3>2. QED
      BY <1>5, <2>1, <3>1
  <2>3. source_refs'[id] = IF CodeKind[code[fs[At(id)]]] = "zip"
                           THEN [file |-> code[fs[At(id)]]]
                           ELSE [frame |-> fs[At(id)]]
    BY <1>6, <1>12
  <2>4. At(id) \in DOMAIN fs
    BY <1>1, <2>1
  <2> HIDE DEF At
  <2>5. QED
    BY <1>9, <2>1, <2>2, <2>3, <2>4 DEF AddsSource
<1>13. ASSUME NEW id \in DOMAIN source_refs', id \notin new
       PROVE  id \in DOMAIN source_refs /\ source_refs'[id] = source_refs[id]
  BY <1>6, <1>13
<1>14. QED
  BY <1>5, <1>8, <1>10, <1>11, <1>12, <1>13

LEMMA SourceTypesStep ==
    ASSUME SourceTypes, IssuedOnce, frames \in [Threads -> Seq(Frames)],
           code \in [Frames -> Codes], [Next]_vars
    PROVE  SourceTypes' /\ IssuedOnce'
<1> USE DEF SourceTypes, IssuedOnce
<1>1. CASE (\E t \in Threads : Stop(t)) \/ Resume
  BY <1>1 DEF Stop, Resume, forget, Empty
<1>2. ASSUME NEW t \in Threads, StackTrace(t) PROVE SourceTypes' /\ IssuedOnce'
  <2>1. /\ last_source_id' \in last_source_id .. MaxSourceId
        /\ issued \subseteq issued'
        /\ issued' \ issued \subseteq
              [id : last_source_id .. last_source_id' - 1, code : Codes, own : BOOLEAN]
        /\ \A p, q \in issued' \ issued : p.id = q.id => p = q
        /\ \A id \in DOMAIN source_refs' :
              \/ id \in DOMAIN source_refs /\ source_refs'[id] = source_refs[id]
              \/ id \in last_source_id .. last_source_id' - 1 /\ AddsSource(t, id)
    BY <1>2, AnswerFacts
  <2>2. last_source_id \in Nat /\ MaxSourceId \in Nat /\ last_source_id' \in 1 .. MaxSourceId
    BY <2>1, BoundAssumption
  <2>3. source_cache' = source_cache
    BY <1>2 DEF StackTrace
  <2>4. DOMAIN source_refs' \cup DOMAIN source_cache' \subseteq 1 .. (last_source_id' - 1)
    BY <2>1, <2>2, <2>3
  <2>5. issued' \subseteq [id : 1 .. (last_source_id' - 1), code : Codes, own : BOOLEAN]
    BY <2>1, <2>2
  <2>6. ASSUME NEW id \in DOMAIN source_refs'
        PROVE  source_refs'[id] \in [file : Codes] \cup [frame : Frames]
    <3>1. CASE AddsSource(t, id)
      <4>1. PICK i \in DOMAIN frames[t] :
               source_refs'[id] \in {[file |-> code[frames[t][i]]], [frame |-> frames[t][i]]}
        BY <3>1 DEF AddsSource
      <4>2. frames[t][i] \in Frames /\ code[frames[t][i]] \in Codes
        OBVIOUS
      <4>3. QED
        BY <4>1, <4>2
    <3>2. QED
      BY <2>1, <3>1
  <2>7. \A p \in issued, q \in issued' \ issued : p.id # q.id
    BY <2>1, <2>2
  <2>8. \A p, q \in issued' : p.id = q.id => p = q
    BY <2>1, <2>7
  <2>9. QED
    BY <2>2, <2>4, <2>5, <2>6, <2>8
<1>3. CASE Connect
  BY <1>3, BoundAssumption DEF Connect, Empty
<1>4. CASE \E id \in 1 .. MaxSourceId : Source(id)
  BY <1>4 DEF Source, Put, refVars, ghosts
<1>5. CASE UNCHANGED <<source_refs, source_cache, last_source_id, issued>>
  BY <1>5
<1>6. QED
  BY <1>1, <1>2, <1>3, <1>4, <1>5 DEF Next, Python, Requests, Enter, Leave, Bind, Scopes,
     Variables, vars, refVars, ghosts

-----------------------------------------------------------------------------
(* Python's stacks *)

StackTypes == frames \in [Threads -> Seq(Frames)] /\ StacksApart

LEMMA EnterKeepsApart ==
    ASSUME StackTypes, NEW t \in Threads, NEW f \in Frames, NEW c \in Codes, Enter(t, f, c)
    PROVE  StackTypes'
<1> USE DEF StackTypes
<1>1. frames[t] \in Seq(Frames) /\ <<f>> \in Seq(Frames) /\ <<f>> \o frames[t] \in Seq(Frames)
  OBVIOUS
<1>2. frames' = [frames EXCEPT ![t] = <<f>> \o frames[t]]
  BY DEF Enter
<1>3. frames' \in [Threads -> Seq(Frames)]
  BY <1>1, <1>2
<1>4. \A i \in DOMAIN frames'[t] :
         IF i = 1 THEN frames'[t][i] = f
         ELSE i - 1 \in DOMAIN frames[t] /\ frames'[t][i] = frames[t][i - 1]
  BY <1>1, <1>2
<1>5. \A u \in Threads : \A i \in DOMAIN frames[u] : frames[u][i] # f
  BY DEF Enter, LiveFrames
<1>6. \A u \in Threads : DOMAIN frames'[u] \subseteq Nat
  BY <1>3
<1>7. \A u \in Threads : u # t => frames'[u] = frames[u]
  BY <1>2
<1>8. ASSUME NEW u \in Threads, NEW v \in Threads, NEW i \in DOMAIN frames'[u],
             NEW j \in DOMAIN frames'[v], frames'[u][i] = frames'[v][j]
      PROVE  u = v /\ i = j
  <2>1. CASE u = t /\ v = t
    BY <1>4, <1>5, <1>6, <1>8, <2>1 DEF StacksApart
  <2>2. CASE u = t /\ v # t
    BY <1>4, <1>5, <1>7, <1>8, <2>2 DEF StacksApart
  <2>3. CASE u # t /\ v = t
    BY <1>4, <1>5, <1>7, <1>8, <2>3 DEF StacksApart
  <2>4. CASE u # t /\ v # t
    BY <1>7, <1>8, <2>4 DEF StacksApart
  <2>5. QED
    BY <2>1, <2>2, <2>3, <2>4
<1>9. QED
  BY <1>3, <1>8 DEF StacksApart

LEMMA LeaveKeepsApart ==
    ASSUME StackTypes, NEW t \in Threads, Leave(t)
    PROVE  StackTypes'
<1> USE DEF StackTypes
<1>1. frames' = [frames EXCEPT ![t] = Tail(frames[t])] /\ frames[t] # << >>
  BY DEF Leave
<1>2. Tail(frames[t]) \in Seq(Frames)
  BY <1>1
<1>3. frames' \in [Threads -> Seq(Frames)]
  BY <1>1, <1>2
<1>4. \A i \in DOMAIN frames'[t] :
         i \in Nat /\ i + 1 \in DOMAIN frames[t] /\ frames'[t][i] = frames[t][i + 1]
  BY <1>1
<1>5. \A u \in Threads : u # t => frames'[u] = frames[u]
  BY <1>1
<1>6. ASSUME NEW u \in Threads, NEW v \in Threads, NEW i \in DOMAIN frames'[u],
             NEW j \in DOMAIN frames'[v], frames'[u][i] = frames'[v][j]
      PROVE  u = v /\ i = j
  <2>1. CASE u = t /\ v = t
    BY <1>4, <1>6, <2>1 DEF StacksApart
  <2>2. CASE u = t /\ v # t
    BY <1>4, <1>5, <1>6, <2>2 DEF StacksApart
  <2>3. CASE u # t /\ v = t
    BY <1>4, <1>5, <1>6, <2>3 DEF StacksApart
  <2>4. CASE u # t /\ v # t
    BY <1>5, <1>6, <2>4 DEF StacksApart
  <2>5. QED
    BY <2>1, <2>2, <2>3, <2>4
<1>7. QED
  BY <1>3, <1>6 DEF StacksApart

LEMMA StackTypesStep ==
    ASSUME StackTypes, [Next]_vars
    PROVE  StackTypes'
<1>1. CASE UNCHANGED frames
  BY <1>1 DEF StackTypes, StacksApart
<1>2. QED
  BY <1>1, EnterKeepsApart, LeaveKeepsApart DEF Next, Python, Requests, Bind, Stop, Resume,
     StackTrace, Scopes, Variables, Source, Connect, vars, pyVars
-----------------------------------------------------------------------------
(* Types *)

\* What TypeOK says of Python's objects and of the other tables
ObjectTypes ==
    /\ code \in [Frames -> Codes]
    /\ bound \in [Holders \X Keys -> Dicts \cup {NoDict}]
    /\ curthread \in Threads \cup {NoThread}

TableTypes ==
    /\ DOMAIN frame_refs \subseteq 1 .. Cardinality(Frames)
    /\ \A i \in DOMAIN frame_refs : frame_refs[i] \in Frames
    /\ \A x \in DOMAIN var_refs : x \in Holders \cup Keys /\ var_refs[x] \in Holders
    /\ shown \in [of : Threads \cup {NoThread}, stack : Seq(Frames)]
    /\ ran \in BOOLEAN

LEMMA TypeParts ==
    TypeOK /\ StacksApart <=> StackTypes /\ ObjectTypes /\ TableTypes /\ SourceTypes
  BY DEF TypeOK, StackTypes, ObjectTypes, TableTypes, SourceTypes

LEMMA ObjectTypesStep ==
    ASSUME ObjectTypes, [Next]_vars
    PROVE  ObjectTypes'
<1> USE DEF ObjectTypes
<1>1. ASSUME NEW t \in Threads, Leave(t)
      PROVE  ObjectTypes'
  <2>1. DOMAIN bound = Holders \X Keys /\ Holders' = Holders
    BY DEF Holders
  <2>2. bound' \in [Holders \X Keys -> Dicts \cup {NoDict}]
    BY <1>1, <2>1 DEF Leave
  <2>3. QED
    BY <1>1, <2>1, <2>2 DEF Leave
<1>2. ASSUME NEW h \in Holders, NEW k \in Keys, NEW d \in Dicts \cup {NoDict}, Bind(h, k, d)
      PROVE  ObjectTypes'
  BY <1>2 DEF Bind, Holders
<1>3. CASE (\E t \in Threads : Stop(t)) \/ Resume
  BY <1>3 DEF Stop, Resume, pyVars, Holders
<1>4. CASE UNCHANGED <<code, bound, curthread>>
  BY <1>4 DEF Holders
<1>5. ASSUME NEW t \in Threads, NEW f \in Frames, NEW c \in Codes, Enter(t, f, c)
      PROVE  ObjectTypes'
  BY <1>5 DEF Enter, Holders
<1>6. QED
  BY <1>1, <1>2, <1>3, <1>4, <1>5 DEF Next, Python, Requests, StackTrace, Scopes, Variables,
     Source, Connect, vars, pyVars

LEMMA TableTypesStep ==
    ASSUME StackTypes, ObjectTypes, TableTypes, [Next]_vars
    PROVE  TableTypes'
<1> USE DEF TableTypes
<1>0. Holders' = Holders /\ NothingShown \in [of : Threads \cup {NoThread}, stack : Seq(Frames)]
  BY DEF Holders, NothingShown
<1>7. ran' \in BOOLEAN
  BY DEF Next, Python, Requests, Enter, Leave, Runs, Bind, Stop, Resume, StackTrace, Scopes,
     Variables, Source, Connect, IsStopped, vars, ghosts
<1>1. CASE (\E t \in Threads : Stop(t)) \/ Resume \/ Connect
  BY <1>0, <1>1, <1>7 DEF Stop, Resume, Connect, forget, Empty
<1>2. ASSUME NEW t \in Threads, StackTrace(t) PROVE TableTypes'
  <2>1. frames[t] \in Seq(Frames) /\ DOMAIN frames[t] \subseteq 1 .. Cardinality(Frames)
    BY StackFits DEF StackTypes
  <2>2. NumberFrames(frames[t]) /\ shown' = [of |-> t, stack |-> frames[t]]
           /\ UNCHANGED var_refs
    BY <1>2 DEF StackTrace
  <2>3. QED
    BY <1>0, <1>7, <2>1, <2>2 DEF NumberFrames
<1>3. ASSUME NEW id \in DOMAIN frame_refs, Scopes(id) PROVE TableTypes'
  <2>1. var_refs' = Put(Put(var_refs, frame_refs[id], frame_refs[id]), Globals, Globals)
           /\ UNCHANGED <<frame_refs, shown>>
    BY <1>3 DEF Scopes, ghosts
  <2>2. frame_refs[id] \in Holders /\ Globals \in Holders
    BY DEF Holders
  <2>3. QED
    BY <1>0, <1>7, <2>1, <2>2 DEF Put
<1>4. ASSUME NEW id \in DOMAIN var_refs, Variables(id) PROVE TableTypes'
  <2> DEFINE holder == var_refs[id]
             found  == {k \in Keys : bound[<<holder, k>>] # NoDict}
  <2>0. holder \in Holders
    OBVIOUS
  <2>1. /\ var_refs' = [x \in DOMAIN var_refs \cup found |->
                           IF x \in found THEN bound[<<holder, x>>] ELSE var_refs[x]]
        /\ UNCHANGED <<frame_refs, shown>>
    BY <1>4 DEF Variables, ghosts
  <2>2. \A k \in found : k \in Keys /\ bound[<<holder, k>>] \in Holders
    BY <2>0 DEF ObjectTypes, Holders
  <2> HIDE DEF holder, found
  <2>3. QED
    BY <1>0, <1>7, <2>1, <2>2
<1>5. CASE UNCHANGED <<frame_refs, var_refs, shown>>
  BY <1>0, <1>5, <1>7
<1>6. QED
  BY <1>1, <1>2, <1>3, <1>4, <1>5 DEF Next, Python, Requests, Enter, Leave, Bind, Source, vars,
     refVars, ghosts

TypeInv == TypeOK /\ StacksApart /\ IssuedOnce

LEMMA TypesHold == Spec => []TypeInv
<1>1. Init => TypeInv
  <2> SUFFICES ASSUME Init PROVE TypeInv
    OBVIOUS
  <2>1. << >> \in Seq(Frames) /\ DOMAIN << >> = {}
    OBVIOUS
  <2>2. (CHOOSE c \in Codes : TRUE) \in Codes
    BY CodeAssumption
  <2>3. StackTypes
    BY <2>1 DEF Init, StackTypes, StacksApart
  <2>4. ObjectTypes
    BY <2>2 DEF Init, ObjectTypes
  <2>5. TableTypes
    BY <2>1 DEF Init, Empty, NothingShown, TableTypes
  <2>6. SourceTypes /\ IssuedOnce
    BY BoundAssumption DEF Init, Empty, SourceTypes, IssuedOnce
  <2>7. QED
    BY <2>3, <2>4, <2>5, <2>6, TypeParts DEF TypeInv
<1>2. TypeInv /\ [Next]_vars => TypeInv'
  <2> SUFFICES ASSUME TypeInv, [Next]_vars PROVE TypeInv'
    OBVIOUS
  <2>1. StackTypes /\ ObjectTypes /\ TableTypes /\ SourceTypes /\ IssuedOnce
    BY TypeParts DEF TypeInv
  <2>2. frames \in [Threads -> Seq(Frames)] /\ code \in [Frames -> Codes]
    BY <2>1 DEF StackTypes, ObjectTypes
  <2>3. StackTypes' /\ ObjectTypes' /\ TableTypes'
    BY <2>1, StackTypesStep, ObjectTypesStep, TableTypesStep
  <2>4. SourceTypes' /\ IssuedOnce'
    BY <2>1, <2>2, SourceTypesStep
  <2>5. (TypeOK /\ StacksApart)'
    BY <2>3, <2>4 DEF TypeOK, StackTypes, ObjectTypes, TableTypes, SourceTypes
  <2>6. QED
    BY <2>4, <2>5 DEF TypeInv
<1>3. QED
  BY <1>1, <1>2, PTL DEF Spec

\* Every variable keeps its type: in particular a frame id is never larger than
\* a stack can be high, and ids of sources are only those that were handed out.
THEOREM RefsTypes == Spec => []TypeOK
  BY TypesHold, PTL DEF TypeInv

-----------------------------------------------------------------------------
(* The objects behind the references *)

\* No thread but the stopped one's moves it: its stack stands still.
LEMMA StoppedStackKept ==
    ASSUME frames \in [Threads -> Seq(Frames)], [Next]_vars, curthread \in Threads,
           UNCHANGED curthread
    PROVE  frames'[curthread] = frames[curthread]
<1>1. ASSUME NEW t \in Threads, Leave(t) \/ \E f \in Frames, c \in Codes : Enter(t, f, c)
      PROVE  frames'[curthread] = frames[curthread]
  BY <1>1 DEF Enter, Leave, Runs
<1>2. CASE UNCHANGED frames
  BY <1>2
<1>3. QED
  BY <1>1, <1>2 DEF Next, Python, Requests, Bind, Stop, Resume, StackTrace, Scopes, Variables,
     Source, Connect, vars, pyVars

LEMMA FramesLiveStep ==
    ASSUME StoppedFramesLive, frames \in [Threads -> Seq(Frames)],
           curthread \in Threads \cup {NoThread}, [Next]_vars
    PROVE  StoppedFramesLive'
<1> USE DEF StoppedFramesLive, IsStopped
<1>1. CASE (\E t \in Threads : Stop(t)) \/ Resume \/ Connect
  <2>1. CASE curthread' = NoThread
    BY <2>1
  <2>2. CASE curthread' # NoThread
    <3>1. DOMAIN frame_refs' = {} /\ DOMAIN source_refs' = {} /\ shown'.of = NoThread
      BY <1>1 DEF Stop, Resume, Connect, forget, Empty, NothingShown
    <3>2. QED
      BY <2>2, <3>1
  <2>3. QED
    BY <2>1, <2>2
<1>2. CASE (\E t \in Threads : Leave(t) \/ \E f \in Frames, c \in Codes : Enter(t, f, c))
  <2>1. ran' = (ran \/ IsStopped) /\ UNCHANGED <<curthread, shown>>
    BY <1>2 DEF Leave, Enter, Runs
  <2>2. curthread # NoThread => frames'[curthread] = frames[curthread]
    BY <2>1, StoppedStackKept
  <2>3. QED
    BY <2>1, <2>2
<1>3. ASSUME NEW t \in Threads, StackTrace(t) PROVE StoppedFramesLive'
  <2> DEFINE fs == frames[t]
  <2>1. UNCHANGED <<frames, curthread, ran>> /\ shown' = [of |-> t, stack |-> fs]
    BY <1>3 DEF StackTrace, pyVars
  <2>2. LiveFrames' = LiveFrames /\ \A i \in DOMAIN fs : fs[i] \in LiveFrames
    BY <2>1 DEF LiveFrames
  <2>3. \A i \in DOMAIN frame_refs' :
           \/ i \in DOMAIN fs /\ frame_refs'[i] = fs[i]
           \/ i \in DOMAIN frame_refs /\ frame_refs'[i] = frame_refs[i]
    BY <1>3 DEF StackTrace, NumberFrames
  <2>4. ASSUME NEW id \in DOMAIN source_refs', "frame" \in DOMAIN source_refs'[id]
        PROVE  \/ id \in DOMAIN source_refs /\ source_refs'[id] = source_refs[id]
               \/ source_refs'[id].frame \in {fs[i] : i \in DOMAIN fs}
    BY <1>3, <2>4 DEF StackTrace
  <2>5. (curthread # NoThread /\ shown.of = curthread => shown.stack = frames[curthread])'
    BY <2>1
  <2> HIDE DEF fs
  <2>6. QED
    BY <2>1, <2>2, <2>3, <2>4, <2>5
<1>4. ASSUME NEW h \in Holders, NEW k \in Keys, NEW d \in Dicts \cup {NoDict}, Bind(h, k, d)
      PROVE  StoppedFramesLive'
  BY <1>4 DEF Bind, refVars, LiveFrames
<1>5. CASE UNCHANGED <<frames, curthread, frame_refs, source_refs, shown, ran>>
  BY <1>5 DEF LiveFrames
<1>6. QED
  BY <1>1, <1>2, <1>3, <1>4, <1>5 DEF Next, Python, Requests, Scopes, Variables, Source, vars,
     pyVars, refVars, ghosts

\* A stop forgets what was handed out while Python ran, so the tables name
\* frames that are on a stack until a request runs Python code, which lets other
\* threads return; the stack that was shown of the stopped thread is its stack
\* for as long as the event is stopped, whatever the requests run.
THEOREM FramesOutliveReferences == Spec => []StoppedFramesLive
<1>1. Init => StoppedFramesLive
  BY DEF Init, StoppedFramesLive, IsStopped
<1>2. TypeInv => frames \in [Threads -> Seq(Frames)] /\ curthread \in Threads \cup {NoThread}
  BY DEF TypeInv, TypeOK
<1>3. StoppedFramesLive /\ TypeInv /\ [Next]_vars => StoppedFramesLive'
  BY <1>2, FramesLiveStep
<1>4. QED
  BY <1>1, <1>3, TypesHold, PTL DEF Spec

\* What a live dict holds is alive.
LEMMA LiveDictsClosed ==
    ASSUME StackTypes, ObjectTypes
    PROVE  /\ Roots \subseteq LiveDicts
           /\ \A h \in LiveDicts, k \in Keys : bound[<<h, k>>] \in LiveDicts \cup {NoDict}
<1>1. Roots \subseteq Holders
  BY DEF StackTypes, Roots, LiveFrames, Holders
<1>2. ASSUME NEW h \in LiveDicts, NEW k \in Keys, bound[<<h, k>>] # NoDict
      PROVE  bound[<<h, k>>] \in LiveDicts
  <2>1. <<h, k>> \in Holders \X Keys
    BY DEF LiveDicts
  <2>2. bound[<<h, k>>] \in Holders
    BY <1>2, <2>1 DEF ObjectTypes, Holders
  <2>3. ASSUME NEW C \in SUBSET Holders, Closed(C) PROVE bound[<<h, k>>] \in C
    BY <1>2, <2>3 DEF LiveDicts, Closed
  <2>4. QED
    BY <2>2, <2>3 DEF LiveDicts
<1>3. QED
  BY <1>1, <1>2 DEF LiveDicts, Closed

\* What is alive depends on the stacks and on the dicts only.
LEMMA LiveDictsKept == UNCHANGED <<frames, bound>> => LiveDicts' = LiveDicts
  BY DEF LiveDicts, Closed, Roots, LiveFrames, Holders

LEMMA DictsLiveStep ==
    ASSUME StoppedDictsLive, StoppedFramesLive, StackTypes, ObjectTypes, [Next]_vars
    PROVE  StoppedDictsLive'
<1> USE DEF StoppedDictsLive, IsStopped
<1>1. CASE (\E t \in Threads : Stop(t)) \/ Resume \/ Connect
  BY <1>1 DEF Stop, Resume, Connect, forget, Empty
<1>2. CASE (\E t \in Threads : Leave(t) \/ \E f \in Frames, c \in Codes : Enter(t, f, c))
  BY <1>2 DEF Leave, Enter, Runs
<1>3. CASE \E h \in Holders, k \in Keys, d \in Dicts \cup {NoDict} : Bind(h, k, d)
  BY <1>3 DEF Bind
<1>4. ASSUME NEW id \in DOMAIN frame_refs, Scopes(id) PROVE StoppedDictsLive'
  <2>1. UNCHANGED <<curthread, ran>> /\ LiveDicts' = LiveDicts
    BY <1>4, LiveDictsKept DEF Scopes, pyVars, ghosts
  <2>2. LiveFrames \cup {Globals} \subseteq LiveDicts
    BY LiveDictsClosed DEF Roots
  <2>3. \A x \in DOMAIN var_refs' :
           \/ var_refs'[x] \in {frame_refs[id], Globals}
           \/ x \in DOMAIN var_refs /\ var_refs'[x] = var_refs[x]
    BY <1>4 DEF Scopes, Put
  <2>4. curthread # NoThread /\ ~ran => frame_refs[id] \in LiveFrames
    BY DEF StoppedFramesLive
  <2>5. QED
    BY <2>1, <2>2, <2>3, <2>4
<1>5. ASSUME NEW id \in DOMAIN var_refs, Variables(id) PROVE StoppedDictsLive'
  <2> DEFINE found == {k \in Keys : bound[<<var_refs[id], k>>] # NoDict}
  <2>1. UNCHANGED <<curthread, ran>> /\ LiveDicts' = LiveDicts
    BY <1>5, LiveDictsKept DEF Variables, pyVars, ghosts
  <2>2. var_refs[id] \in LiveDicts => \A k \in found : bound[<<var_refs[id], k>>] \in LiveDicts
    BY LiveDictsClosed
  <2>3. \A x \in DOMAIN var_refs' :
           \/ x \in found /\ var_refs'[x] = bound[<<var_refs[id], x>>]
           \/ x \in DOMAIN var_refs /\ var_refs'[x] = var_refs[x]
    BY <1>5 DEF Variables
  <2> HIDE DEF found
  <2>4. QED
    BY <2>1, <2>2, <2>3
<1>6. CASE UNCHANGED <<frames, bound, curthread, var_refs, ran>>
  <2>1. LiveDicts' = LiveDicts
    BY <1>6, LiveDictsKept
  <2>2. QED
    BY <1>6, <2>1
<1>7. QED
  BY <1>1, <1>2, <1>3, <1>4, <1>5, <1>6 DEF Next, Python, Requests, StackTrace, Source, vars,
     pyVars, refVars, ghosts

\* A dict is followed only from a frame, from the globals, or from a dict that was
\* followed before, so whatever a variablesReference names can still be reached,
\* however deep it lies, until a request runs Python code that may rebind a name on
\* the way or let the frame's thread return.
THEOREM DictsOutliveReferences == Spec => []StoppedDictsLive
<1>1. Init => StoppedDictsLive
  BY DEF Init, StoppedDictsLive, IsStopped
<1>2. TypeInv => StackTypes /\ ObjectTypes
  BY TypeParts DEF TypeInv
<1>3. QED
  BY <1>1, <1>2, DictsLiveStep, TypesHold, FramesOutliveReferences, PTL DEF Spec

LEMMA ShownFramesStep ==
    ASSUME ShownFramesKept, [Next]_vars
    PROVE  ShownFramesKept'
<1> USE DEF ShownFramesKept
<1>1. CASE (\E t \in Threads : Stop(t)) \/ Resume \/ Connect
  BY <1>1 DEF Stop, Resume, Connect, forget, NothingShown
<1>2. CASE \E t \in Threads : StackTrace(t)
  BY <1>2 DEF StackTrace, NumberFrames
<1>3. CASE UNCHANGED <<frame_refs, shown>>
  BY <1>3
<1>4. QED
  BY <1>1, <1>2, <1>3 DEF Next, Python, Requests, Enter, Leave, Bind, Scopes, Variables, Source,
     vars, refVars, ghosts

\* The ids of the latest answer mean the frames of that answer.
THEOREM LatestAnswerHolds == Spec => []ShownFramesKept
<1>1. Init => ShownFramesKept
  BY DEF Init, ShownFramesKept, NothingShown
<1>2. QED
  BY <1>1, ShownFramesStep, PTL DEF Spec

-----------------------------------------------------------------------------
(* What a source id means *)

\* A reference to a file in a zip is one to the file its id was given for.  A
\* reference handed out for a frame of the stopped thread leads to a frame that is
\* still there, and runs the same code.
LeadsTo(id, p) ==
    /\ p.id = id
    /\ CodeKind[p.code] = "zip" => source_refs[id] = [file |-> p.code]
    /\ (p.own /\ CodeKind[p.code] # "zip") =>
          /\ IsStopped
          /\ \E i \in DOMAIN frames[curthread] :
                /\ source_refs[id] = [frame |-> frames[curthread][i]]
                /\ code[frames[curthread][i]] = p.code

RefsCurrent == \A id \in DOMAIN source_refs : \E p \in issued : LeadsTo(id, p)

LEMMA LeadsToContent ==
    ASSUME NEW id, NEW p \in issued, LeadsTo(id, p), p.own \/ CodeKind[p.code] = "zip"
    PROVE  Content(source_refs[id]) = p.code
<1>1. CASE CodeKind[p.code] = "zip"
  <2>1. source_refs[id] = [file |-> p.code]
    BY <1>1 DEF LeadsTo
  <2>2. QED
    BY <2>1 DEF Content
<1>2. CASE CodeKind[p.code] # "zip"
  <2>1. PICK i \in DOMAIN frames[curthread] :
           /\ source_refs[id] = [frame |-> frames[curthread][i]]
           /\ code[frames[curthread][i]] = p.code
    BY <1>2 DEF LeadsTo
  <2>2. QED
    BY <2>1 DEF Content
<1>3. QED
  BY <1>1, <1>2

\* The frames of the stopped thread keep their code.
LEMMA StoppedCodeKept ==
    ASSUME frames \in [Threads -> Seq(Frames)], code \in [Frames -> Codes],
           curthread \in Threads, NEW i \in DOMAIN frames[curthread], [Next]_vars
    PROVE  code'[frames[curthread][i]] = code[frames[curthread][i]]
<1> DEFINE g == frames[curthread][i]
<1>1. g \in LiveFrames /\ g \in Frames
  BY DEF LiveFrames
<1> HIDE DEF g
<1>2. ASSUME NEW t \in Threads, NEW f \in Frames, NEW c \in Codes, Enter(t, f, c)
      PROVE  code'[g] = code[g]
  BY <1>1, <1>2 DEF Enter
<1>3. CASE UNCHANGED code
  BY <1>3
<1>4. QED
  BY <1>2, <1>3 DEF g, Next, Python, Requests, Leave, Bind, Stop, Resume, StackTrace, Scopes,
     Variables, Source, Connect, vars, pyVars

LEMMA LeadsToKept ==
    ASSUME TypeInv, NEW id \in DOMAIN source_refs, NEW p \in issued, LeadsTo(id, p), [Next]_vars,
           UNCHANGED curthread, source_refs'[id] = source_refs[id]
    PROVE  LeadsTo(id, p)'
<1>1. frames \in [Threads -> Seq(Frames)] /\ code \in [Frames -> Codes]
  BY DEF TypeInv, TypeOK
<1>2. CASE p.own /\ CodeKind[p.code] # "zip"
  <2>1. IsStopped /\ curthread \in Threads
    BY <1>2 DEF LeadsTo, IsStopped, TypeInv, TypeOK
  <2>2. PICK i \in DOMAIN frames[curthread] :
           /\ source_refs[id] = [frame |-> frames[curthread][i]]
           /\ code[frames[curthread][i]] = p.code
    BY <1>2 DEF LeadsTo
  <2>3. frames'[curthread] = frames[curthread]
    BY <1>1, <2>1, StoppedStackKept
  <2>4. code'[frames[curthread][i]] = code[frames[curthread][i]]
    BY <1>1, <2>1, StoppedCodeKept
  <2>5. QED
    BY <1>2, <2>1, <2>2, <2>3, <2>4 DEF LeadsTo, IsStopped
<1>3. CASE ~(p.own /\ CodeKind[p.code] # "zip")
  BY <1>3 DEF LeadsTo
<1>4. QED
  BY <1>2, <1>3

LEMMA RefsCurrentStep ==
    ASSUME RefsCurrent, TypeInv, [Next]_vars
    PROVE  RefsCurrent'
<1> USE DEF RefsCurrent
<1>1. CASE (\E t \in Threads : Stop(t)) \/ Resume \/ Connect
  BY <1>1 DEF Stop, Resume, Connect, forget, Empty
<1>2. ASSUME NEW t \in Threads, StackTrace(t), NEW id \in DOMAIN source_refs'
      PROVE  \E p \in issued' : LeadsTo(id, p)'
  <2>1. SourceTypes /\ frames \in [Threads -> Seq(Frames)] /\ code \in [Frames -> Codes]
    BY TypeParts DEF TypeInv, StackTypes, ObjectTypes
  <2>2. UNCHANGED <<frames, code, curthread>>
    BY <1>2 DEF StackTrace, pyVars
  <2>3. CASE id \in DOMAIN source_refs /\ source_refs'[id] = source_refs[id]
    <3>1. PICK p \in issued : LeadsTo(id, p)
      BY <2>3
    <3>2. LeadsTo(id, p)'
      BY <2>2, <2>3, <3>1, LeadsToKept
    <3>3. p \in issued'
      BY <1>2, <2>1, AnswerFacts
    <3>4. QED
      BY <3>2, <3>3
  <2>4. CASE AddsSource(t, id)
    <3>1. PICK i \in DOMAIN frames[t] :
             /\ Issued(id, t, frames[t][i]) \in issued'
             /\ source_refs'[id] = IF CodeKind[code[frames[t][i]]] = "zip"
                                   THEN [file |-> code[frames[t][i]]]
                                   ELSE [frame |-> frames[t][i]]
      BY <2>4 DEF AddsSource
    <3> DEFINE g == frames[t][i]
    <3>2. PICK p \in issued' : p.id = id /\ p.code = code[g] /\ p.own = (t = curthread)
      BY <3>1 DEF Issued
    <3>3. ASSUME p.own, CodeKind[p.code] # "zip"
          PROVE  /\ IsStopped'
                 /\ \E j \in DOMAIN frames'[curthread'] :
                       /\ source_refs'[id] = [frame |-> frames'[curthread'][j]]
                       /\ code'[frames'[curthread'][j]] = p.code
      <4>1. t = curthread /\ t # NoThread /\ source_refs'[id] = [frame |-> g]
        BY <3>1, <3>2, <3>3, NullAssumption
      <4>2. i \in DOMAIN frames'[curthread'] /\ frames'[curthread'][i] = g /\ code'[g] = p.code
        BY <2>2, <3>2, <4>1
      <4>3. QED
        BY <2>2, <4>1, <4>2 DEF IsStopped
    <3>4. CodeKind[p.code] = "zip" => source_refs'[id] = [file |-> p.code]
      BY <3>1, <3>2
    <3>5. LeadsTo(id, p)'
      BY <3>2, <3>3, <3>4 DEF LeadsTo
    <3>6. QED
      BY <3>5
  <2>5. QED
    BY <1>2, <2>1, <2>3, <2>4, AnswerFacts
<1>3. CASE UNCHANGED <<curthread, source_refs, issued>>
  BY <1>3, LeadsToKept
<1>4. QED
  BY <1>1, <1>2, <1>3 DEF Next, Python, Requests, Enter, Leave, Bind, Scopes, Variables, Source,
     vars, refVars, ghosts

\* One id of the cache is answered faithfully.
Faithful(id) ==
    \E p \in issued :
        /\ p.id = id /\ \A q \in issued : q.id = id => q = p
        /\ p.own \/ CodeKind[p.code] = "zip" => source_cache[id] \in {p.code, Failed}

LEMMA SourceFaithfulStep ==
    ASSUME RefsCurrent, SourceFaithful, TypeInv, [Next]_vars
    PROVE  SourceFaithful'
<1>0. SourceFaithful <=> \A id \in DOMAIN source_cache : Faithful(id)
  BY DEF SourceFaithful, Faithful
<1>1. CASE Connect
  BY <1>1 DEF Connect, Empty, SourceFaithful
<1>2. ASSUME NEW t \in Threads, StackTrace(t), NEW id \in DOMAIN source_cache'
      PROVE  Faithful(id)'
  <2>1. source_cache' = source_cache
    BY <1>2 DEF StackTrace
  <2>2. SourceTypes /\ frames \in [Threads -> Seq(Frames)] /\ code \in [Frames -> Codes]
    BY TypeParts DEF TypeInv, StackTypes, ObjectTypes
  <2>3. id \in 1 .. (last_source_id - 1) /\ last_source_id \in Nat
    BY <1>2, <2>1, <2>2, BoundAssumption DEF SourceTypes
  <2>4. issued \subseteq issued' /\ \A q \in issued' \ issued : q.id # id
    <3>1. issued' \ issued \subseteq
             [id : last_source_id .. last_source_id' - 1, code : Codes, own : BOOLEAN]
      BY <1>2, <2>2, AnswerFacts
    <3>2. last_source_id' \in Nat /\ issued \subseteq issued'
      BY <1>2, <2>2, <2>3, AnswerFacts, BoundAssumption
    <3>3. QED
      BY <2>3, <3>1, <3>2
  <2>5. Faithful(id)
    BY <1>0, <1>2, <2>1
  <2>6. QED
    BY <2>1, <2>4, <2>5 DEF Faithful
<1>3. ASSUME NEW id \in 1 .. MaxSourceId, Source(id), NEW x \in DOMAIN source_cache'
      PROVE  Faithful(x)'
  <2>1. issued' = issued
    BY <1>3 DEF Source, ghosts
  <2>2. CASE x \in DOMAIN source_cache /\ source_cache'[x] = source_cache[x]
    BY <1>0, <2>1, <2>2 DEF Faithful
  <2>3. CASE x \in DOMAIN source_refs /\ source_cache'[x] \in {Content(source_refs[x]), Failed}
    <3>1. PICK p \in issued : LeadsTo(x, p)
      BY <2>3 DEF RefsCurrent
    <3>2. p.id = x /\ \A q \in issued : q.id = x => q = p
      BY <3>1 DEF LeadsTo, TypeInv, IssuedOnce
    <3>3. p.own \/ CodeKind[p.code] = "zip" => source_cache'[x] \in {p.code, Failed}
      BY <2>3, <3>1, LeadsToContent
    <3>4. QED
      BY <2>1, <3>2, <3>3 DEF Faithful
  <2>4. QED
    BY <1>3, <2>2, <2>3 DEF Source, Put
<1>4. CASE UNCHANGED <<source_cache, issued>>
  BY <1>4 DEF SourceFaithful
<1>5. (\A id \in DOMAIN source_cache' : Faithful(id)') => SourceFaithful'
  BY DEF SourceFaithful, Faithful
<1>6. QED
  BY <1>1, <1>2, <1>3, <1>4, <1>5 DEF Next, Python, Requests, Enter, Leave, Bind, Stop, Resume,
     Scopes, Variables, vars, ghosts

\* A source id names one code for the life of the session.  For a frame of the
\* stopped thread and for a file in a zip, whatever was cached under the id is that
\* code or the text of a failure, however many events, answers and returned frames
\* lie between, and although Python code runs while the source is asked for.
THEOREM CachedSourcesAreFaithful == Spec => []SourceFaithful
<1>1. Init => RefsCurrent /\ SourceFaithful
  BY DEF Init, RefsCurrent, SourceFaithful, Empty
<1>2. RefsCurrent /\ TypeInv /\ [Next]_vars => RefsCurrent'
  BY RefsCurrentStep
<1>3. RefsCurrent /\ SourceFaithful /\ TypeInv /\ [Next]_vars => SourceFaithful'
  BY SourceFaithfulStep
<1>4. QED
  BY <1>1, <1>2, <1>3, TypesHold, PTL DEF Spec
=============================================================================
