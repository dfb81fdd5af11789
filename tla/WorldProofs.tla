------------------------------ MODULE WorldProofs ------------------------------
(***************************************************************************)
(* Proofs about World.  The argument: a write of the provider is always of *)
(* the column as it is in memory, a column leaves the queue only when such *)
(* a write has completed, and save_all forgets the queue only when it has  *)
(* visited all of it; every change of the set of loaded columns pushes one *)
(* event, and the last event about a chunk decides.                        *)
(***************************************************************************)
EXTENDS World, TLAPS, SequenceTheorems

\* The provider is called by a call of World, for what is in memory.
Calling ==
  /\ call.op = "unload" => writing = [chunk |-> call.chunk, value |-> columns[call.chunk]]
  /\ writing # NoWrite =>
       /\ call # Idle
       /\ writing.chunk \in Loaded \cap saving_queue
       /\ writing.value = columns[writing.chunk]

\* What save_all has visited is stored, or about to be.
Visited ==
  call.op = "save_all" =>
    \A c \in (Loaded \cap saving_queue) \ call.rest :
      \/ stored[c] = columns[c]
      \/ writing # NoWrite /\ writing.chunk = c
      \/ trust = "lost"

IInv == TypeOK /\ Calling /\ Visited /\ NoEditLost /\ EventsTellLoaded

-----------------------------------------------------------------------------
\* One more event changes only what is told of its own chunk.
LEMMA PushTells ==
  ASSUME NEW kind \in {"load", "unload", "block_update"}, NEW c \in Chunk,
         events \in Seq(Event), Push(kind, c), known' = known
  PROVE  /\ events' \in Seq(Event)
         /\ \A d \in Chunk : d # c \/ kind = "block_update" => (Told(d)' <=> Told(d))
         /\ kind = "load" => Told(c)'
         /\ kind = "unload" => ~Told(c)'
<1> DEFINE e == [kind |-> kind, chunk |-> c]
           n == Len(events)
<1>1. e \in Event /\ events' = Append(events, e) BY DEF Push, Event
<1>2. /\ events' \in Seq(Event)
      /\ n \in Nat /\ Len(events') = n + 1
      /\ events'[n + 1] = e
      /\ \A i \in 1 .. n : events'[i] = events[i]
  BY <1>1
<1>3. ASSUME NEW d \in Chunk, d # c \/ kind = "block_update" PROVE Told(d)' <=> Told(d)
  <2> DEFINE A == {i \in 1 .. Len(events) : events[i].chunk = d /\ events[i].kind # "block_update"}
             B == {i \in 1 .. Len(events') : events'[i].chunk = d /\ events'[i].kind # "block_update"}
  <2>1. e.chunk = c /\ e.kind = kind OBVIOUS
  <2>2. n + 1 \notin B BY <1>2, <1>3, <2>1
  <2>3. A = B BY <1>2, <2>2
  <2>4. \A i \in A : events'[i] = events[i] BY <1>2
  <2>5. (\E i \in B : events'[i].kind = "load" /\ \A j \in B : j <= i)
          <=> (\E i \in A : events[i].kind = "load" /\ \A j \in A : j <= i)
    <3> HIDE DEF A, B
    <3> QED BY <2>3, <2>4
  <2> QED BY <2>3, <2>5 DEF Told
<1>4. ASSUME kind # "block_update" PROVE Told(c)' <=> kind = "load"
  <2> DEFINE B == {i \in 1 .. Len(events') : events'[i].chunk = c /\ events'[i].kind # "block_update"}
  <2>1. n + 1 \in B BY <1>2, <1>4
  <2>2. \A j \in B : j <= n + 1 /\ j \in Int BY <1>2
  <2>3. (\E i \in B : events'[i].kind = "load" /\ \A j \in B : j <= i) <=> kind = "load"
    <3>1. events'[n + 1].kind = kind BY <1>2
    <3>2. ASSUME NEW i \in B, \A j \in B : j <= i PROVE i = n + 1
      BY <1>2, <2>1, <2>2, <3>2
    <3> HIDE DEF B
    <3> QED BY <2>1, <2>2, <3>1, <3>2
  <2> QED BY <2>1, <2>3 DEF Told
<1> QED BY <1>2, <1>3, <1>4

\* Nothing is told when neither the events nor what was drained changes.
LEMMA QuietTells ==
  ASSUME UNCHANGED <<events, known>> PROVE \A c \in Chunk : Told(c)' <=> Told(c)
BY DEF Told
-----------------------------------------------------------------------------
LEMMA InitIInv == Init => IInv
<1> SUFFICES ASSUME Init PROVE IInv OBVIOUS
<1> USE DEF Init, Store!StoreInit, Loaded
<1>1. TypeOK BY DEF TypeOK, Calls, Idle
<1>2. Calling BY DEF Calling, Idle
<1>3. Visited BY DEF Visited, Idle
<1>4. NoEditLost BY DEF NoEditLost
<1>5. EventsTellLoaded
  <2> SUFFICES ASSUME NEW c \in Chunk PROVE ~Told(c) /\ c \notin Loaded
    BY DEF EventsTellLoaded
  <2>1. {i \in 1 .. Len(events) : events[i].chunk = c /\ events[i].kind # "block_update"} = {}
    OBVIOUS
  <2>2. ~Told(c) BY <2>1 DEF Told
  <2> QED BY <2>2
<1> QED BY <1>1, <1>2, <1>3, <1>4, <1>5 DEF IInv

\* A call that is none of the others.
LEMMA CallKinds ==
  /\ Idle.op = "idle"
  /\ \A c \in Chunk : Unloading(c).op = "unload" /\ Unloading(c).chunk = c
  /\ \A S \in SUBSET Chunk : SavingAll(S).op = "save_all" /\ SavingAll(S).rest = S
BY DEF Idle, Unloading, SavingAll

\* A column that comes into memory between two calls.
LEMMA InsertIInv ==
  ASSUME IInv, NEW c \in Chunk, NEW v \in Version, call = Idle, Insert(c, v),
         latest' \in [Chunk -> Version \cup {NoColumn}],
         \A d \in Chunk \ {c} : latest'[d] = latest[d],
         latest'[c] = NoColumn \/ (v = stored[c] /\ latest'[c] = stored[c])
  PROVE  IInv'
<1> USE DEF IInv, Insert, provider
<1>1. PICK kind \in {"load"} : Push(kind, c) OBVIOUS
<1>2. /\ events' \in Seq(Event)
      /\ \A d \in Chunk : d # c => (Told(d)' <=> Told(d))
      /\ Told(c)'
  BY PushTells DEF TypeOK
<1>3. Loaded' = Loaded \cup {c} BY VersionAssumption DEF Loaded, TypeOK
<1>4. TypeOK' BY <1>2, <1>3, CallKinds DEF TypeOK
<1>5. writing = NoWrite BY CallKinds DEF Calling
<1>6. Calling' BY <1>5, CallKinds DEF Calling
<1>7. Visited' BY CallKinds DEF Visited
<1>8. NoEditLost' BY DEF NoEditLost, TypeOK
<1>9. EventsTellLoaded' BY <1>2, <1>3 DEF EventsTellLoaded
<1> QED BY <1>4, <1>6, <1>7, <1>8, <1>9

LEMMA GetColumnIInv == ASSUME IInv, NEW c \in Chunk, GetColumn(c) PROVE IInv'
<1>1. PICK found \in Loadable(c) :
        LET v == IF found = NoColumn THEN Generator[c] ELSE found
        IN  v # NoColumn /\ Insert(c, v)
  BY DEF GetColumn
<1> DEFINE v == IF found = NoColumn THEN Generator[c] ELSE found
<1>2. v \in Version /\ Insert(c, v)
  BY <1>1, GeneratorAssumption DEF Loadable, Vague, IInv, TypeOK
<1>3. latest' \in [Chunk -> Version \cup {NoColumn}]
  BY DEF GetColumn, IInv, TypeOK
<1>4. \A d \in Chunk \ {c} : latest'[d] = latest[d]
  BY DEF GetColumn, IInv, TypeOK
<1>5. latest'[c] = NoColumn \/ (v = stored[c] /\ latest'[c] = stored[c])
  <2>1. CASE Vague(c) BY <2>1 DEF GetColumn, IInv, TypeOK
  <2>2. CASE ~Vague(c)
    <3>1. latest' = latest /\ found = stored[c] BY <2>2 DEF GetColumn, Loadable
    <3>2. latest[c] = NoColumn \/ stored[c] = latest[c]
      BY <2>2 DEF IInv, NoEditLost, GetColumn, Vague
    <3> QED BY <3>1, <3>2
  <2> QED BY <2>1, <2>2
<1>6. call = Idle BY DEF GetColumn
<1> HIDE DEF v
<1> QED BY <1>2, <1>3, <1>4, <1>5, <1>6, InsertIInv

LEMMA SetColumnIInv ==
  ASSUME IInv, NEW c \in Chunk, NEW v \in Version, SetColumn(c, v) PROVE IInv'
<1>1. /\ latest' \in [Chunk -> Version \cup {NoColumn}]
      /\ \A d \in Chunk \ {c} : latest'[d] = latest[d]
      /\ latest'[c] = NoColumn
  BY DEF SetColumn, IInv, TypeOK
<1> QED BY <1>1, InsertIInv DEF SetColumn

\* A column of which the content changes, or does not, and that is queued.
LEMMA SetBlockIInv ==
  ASSUME IInv, NEW c \in Chunk, NEW v \in Version, SetBlock(c, v) PROVE IInv'
<1> USE DEF IInv, SetBlock, provider
<1>1. /\ events' \in Seq(Event)
      /\ \A d \in Chunk : Told(d)' <=> Told(d)
  BY PushTells DEF TypeOK
<1>2. Loaded' = Loaded BY VersionAssumption DEF Loaded, TypeOK
<1>3. TypeOK' BY <1>1, <1>2, CallKinds DEF TypeOK
<1>4. writing = NoWrite BY CallKinds DEF Calling
<1>5. Calling' BY <1>4, CallKinds DEF Calling
<1>6. Visited' BY CallKinds DEF Visited
<1>7. NoEditLost' BY DEF NoEditLost, TypeOK
<1>8. EventsTellLoaded' BY <1>1, <1>2 DEF EventsTellLoaded
<1> QED BY <1>3, <1>5, <1>6, <1>7, <1>8

LEMMA SetLightIInv ==
  ASSUME IInv, NEW c \in Chunk, NEW v \in Version, SetLight(c, v) PROVE IInv'
<1> USE DEF IInv, SetLight, provider
<1>1. \A d \in Chunk : Told(d)' <=> Told(d) BY QuietTells
<1>2. Loaded' = Loaded BY VersionAssumption DEF Loaded, TypeOK
<1>3. TypeOK' BY <1>2, CallKinds DEF TypeOK
<1>4. writing = NoWrite BY CallKinds DEF Calling
<1>5. Calling' BY <1>4, CallKinds DEF Calling
<1>6. Visited' BY CallKinds DEF Visited
<1>7. NoEditLost'
  <2>1. CASE c \in Loaded BY <2>1 DEF NoEditLost, TypeOK
  <2>2. CASE c \notin Loaded BY <2>2 DEF NoEditLost, TypeOK
  <2> QED BY <2>1, <2>2
<1>8. EventsTellLoaded' BY <1>1, <1>2 DEF EventsTellLoaded
<1> QED BY <1>3, <1>5, <1>6, <1>7, <1>8

LEMMA TakeEventsIInv == ASSUME IInv, TakeEvents PROVE IInv'
<1> USE DEF IInv, TakeEvents, provider
<1>1. Loaded' = Loaded BY DEF Loaded
<1>2. TypeOK' BY <1>1, CallKinds DEF TypeOK
<1>3. Calling' BY <1>1 DEF Calling
<1>4. Visited' BY <1>1 DEF Visited
<1>5. NoEditLost' BY DEF NoEditLost
<1>6. EventsTellLoaded'
  <2> SUFFICES ASSUME NEW c \in Chunk PROVE Told(c)' <=> Told(c)
    BY <1>1 DEF EventsTellLoaded
  <2>1. {i \in 1 .. Len(events') : events'[i].chunk = c /\ events'[i].kind # "block_update"} = {}
    OBVIOUS
  <2>2. Told(c)' <=> c \in known' BY <2>1 DEF Told
  <2>3. c \in known' <=> Told(c) OBVIOUS
  <2> QED BY <2>2, <2>3
<1> QED BY <1>2, <1>3, <1>4, <1>5, <1>6

\* A column that leaves memory takes nothing with it that is not stored.
LEMMA UnloadUnqueuedIInv ==
  ASSUME IInv, NEW c \in Chunk, UnloadUnqueued(c) PROVE IInv'
<1> USE DEF IInv, UnloadUnqueued, Remove, provider
<1>1. /\ events' \in Seq(Event)
      /\ \A d \in Chunk : d # c => (Told(d)' <=> Told(d))
      /\ ~Told(c)'
  BY PushTells DEF TypeOK
<1>2. Loaded' = Loaded \ {c} BY VersionAssumption DEF Loaded, TypeOK
<1>3. TypeOK' BY <1>1, <1>2, CallKinds DEF TypeOK
<1>4. writing = NoWrite BY CallKinds DEF Calling
<1>5. Calling' BY <1>4, CallKinds DEF Calling
<1>6. Visited' BY CallKinds DEF Visited
<1>7. NoEditLost' BY DEF NoEditLost, TypeOK
<1>8. EventsTellLoaded' BY <1>1, <1>2 DEF EventsTellLoaded
<1> QED BY <1>3, <1>5, <1>6, <1>7, <1>8

\* The provider is given a queued column as it is in memory.
LEMMA BeginStep ==
  ASSUME IInv, NEW c \in Loaded \cap saving_queue, Store!Begin(c, columns[c]),
         UNCHANGED <<columns, saving_queue, events, latest, known>>
  PROVE  /\ Loaded' = Loaded
         /\ writing = NoWrite
         /\ writing' = [chunk |-> c, value |-> columns[c]] /\ writing' # NoWrite
         /\ writing' \in [chunk : Chunk, value : Version]
         /\ stored' \in [Chunk -> Version \cup {NoColumn, Unknown}]
         /\ \A d \in Chunk \ {c} : stored'[d] = stored[d]
         /\ trust' \in {"sound", "hurt", "lost"}
         /\ trust = "lost" => trust' = "lost"
         /\ NoEditLost'
         /\ EventsTellLoaded'
<1> USE DEF IInv, Store!Begin
<1>1. Loaded' = Loaded BY DEF Loaded
<1>2. c \in Chunk /\ columns[c] \in Version BY DEF Loaded, TypeOK
<1>3. /\ writing = NoWrite
      /\ writing' = [chunk |-> c, value |-> columns[c]]
      /\ writing' # NoWrite
      /\ writing' \in [chunk : Chunk, value : Version]
  BY <1>2, NoWriteAssumption
<1>4. /\ stored' \in [Chunk -> Version \cup {NoColumn, Unknown}]
      /\ \A d \in Chunk \ {c} : stored'[d] = stored[d]
  BY <1>2 DEF TypeOK
<1>5. NoEditLost' BY <1>2, <1>4, VersionAssumption DEF NoEditLost
<1>6. EventsTellLoaded' BY <1>1, QuietTells DEF EventsTellLoaded
<1> QED BY <1>1, <1>3, <1>4, <1>5, <1>6

LEMMA BeginUnloadIInv == ASSUME IInv, NEW c \in Chunk, BeginUnload(c) PROVE IInv'
<1> USE DEF IInv, BeginUnload
<1>1. /\ Loaded' = Loaded
      /\ writing' = [chunk |-> c, value |-> columns[c]] /\ writing' # NoWrite
      /\ writing' \in [chunk : Chunk, value : Version]
      /\ stored' \in [Chunk -> Version \cup {NoColumn, Unknown}]
      /\ trust' \in {"sound", "hurt", "lost"}
      /\ NoEditLost'
      /\ EventsTellLoaded'
  BY BeginStep
<1>2. call'.op = "unload" /\ call'.chunk = c /\ call' # Idle BY CallKinds
<1>3. TypeOK' BY <1>1, <1>2 DEF TypeOK, Calls
<1>4. Calling' BY <1>1, <1>2 DEF Calling
<1>5. Visited' BY <1>2 DEF Visited
<1> QED BY <1>1, <1>3, <1>4, <1>5

LEMMA BeginSaveAllIInv == ASSUME IInv, BeginSaveAll PROVE IInv'
<1> USE DEF IInv, BeginSaveAll, provider
<1>1. Loaded' = Loaded BY DEF Loaded
<1>2. saving_queue \in SUBSET Chunk BY DEF TypeOK
<1>3. call'.op = "save_all" /\ call'.rest = saving_queue /\ call' # Idle BY <1>2, CallKinds
<1>4. TypeOK' BY <1>1, <1>2, <1>3 DEF TypeOK, Calls
<1>5. Calling' BY <1>1, <1>3 DEF Calling
<1>6. Visited' BY <1>3 DEF Visited
<1>7. NoEditLost' BY DEF NoEditLost
<1>8. EventsTellLoaded' BY <1>1, QuietTells DEF EventsTellLoaded
<1> QED BY <1>4, <1>5, <1>6, <1>7, <1>8

LEMMA SaveNextIInv == ASSUME IInv, NEW c \in Chunk, SaveNext(c) PROVE IInv'
<1> USE DEF IInv, SaveNext
<1>1. call.rest \in SUBSET Chunk /\ call.rest \subseteq saving_queue BY DEF TypeOK
<1>2. call'.op = "save_all" /\ call'.rest = call.rest \ {c} /\ call' # Idle
  BY <1>1, CallKinds
<1>3. call' \in Calls BY <1>1 DEF Calls
<1>4. Loaded' = Loaded BY DEF Loaded
<1>5. CASE c \in Loaded
  <2>1. /\ writing' = [chunk |-> c, value |-> columns[c]] /\ writing' # NoWrite
        /\ writing' \in [chunk : Chunk, value : Version]
        /\ stored' \in [Chunk -> Version \cup {NoColumn, Unknown}]
        /\ \A d \in Chunk \ {c} : stored'[d] = stored[d]
        /\ trust' \in {"sound", "hurt", "lost"}
        /\ trust = "lost" => trust' = "lost"
        /\ NoEditLost'
        /\ EventsTellLoaded'
    BY <1>1, <1>5, BeginStep
  <2>2. TypeOK' BY <1>1, <1>2, <1>3, <1>4, <2>1 DEF TypeOK
  <2>3. Calling' BY <1>1, <1>2, <1>4, <1>5, <2>1 DEF Calling
  <2>4. Visited' BY <1>1, <1>2, <1>4, <2>1 DEF Visited, Loaded
  <2> QED BY <2>1, <2>2, <2>3, <2>4
<1>6. CASE c \notin Loaded
  <2>1. UNCHANGED <<stored, writing, trust>> BY <1>6 DEF provider
  <2>2. TypeOK' BY <1>1, <1>2, <1>3, <1>4, <2>1 DEF TypeOK
  <2>3. Calling' BY <1>2, <1>4, <2>1 DEF Calling
  <2>4. Visited' BY <1>1, <1>2, <1>4, <1>6, <2>1 DEF Visited
  <2>5. NoEditLost' BY <2>1 DEF NoEditLost
  <2>6. EventsTellLoaded' BY <1>4, QuietTells DEF EventsTellLoaded
  <2> QED BY <2>2, <2>3, <2>4, <2>5, <2>6
<1> QED BY <1>5, <1>6

\* save_all has visited the whole queue.
LEMMA AllStored ==
  ASSUME IInv, SaveAllDone
  PROVE  trust = "lost" \/ \A c \in Loaded \cap saving_queue : stored[c] = columns[c]
<1>1. call.op = "save_all" /\ call.rest = {} BY CallKinds DEF SaveAllDone
<1> QED BY <1>1 DEF SaveAllDone, IInv, Visited

LEMMA SaveAllDoneIInv == ASSUME IInv, SaveAllDone PROVE IInv'
<1> USE DEF IInv, SaveAllDone, provider
<1>1. Loaded' = Loaded BY DEF Loaded
<1>2. TypeOK' BY CallKinds DEF TypeOK, Calls
<1>3. Calling' BY CallKinds DEF Calling
<1>4. Visited' BY CallKinds DEF Visited
<1>5. NoEditLost' BY AllStored DEF NoEditLost, Loaded
<1>6. EventsTellLoaded' BY <1>1, QuietTells DEF EventsTellLoaded
<1> QED BY <1>2, <1>3, <1>4, <1>5, <1>6

LEMMA SaveSucceedsIInv == ASSUME IInv, SaveSucceeds PROVE IInv'
<1> USE DEF IInv
<1>0. /\ writing # NoWrite /\ writing' = NoWrite
      /\ latest' = latest /\ known' = known /\ trust' = trust
  BY DEF SaveSucceeds, Store!Finish, Store!Lost, ReturnsLost
<1>1. PICK w \in Chunk :
        /\ w = writing.chunk /\ w \in Loaded \cap saving_queue
        /\ writing.value = columns[w] /\ columns[w] \in Version
  BY <1>0 DEF Calling, TypeOK, Loaded
<1>2. /\ stored' \in [Chunk -> Version \cup {NoColumn, Unknown}]
      /\ stored'[w] = columns[w] \/ trust = "lost"
      /\ \A d \in Chunk \ {w} : stored'[d] = stored[d]
  <2>1. CASE Store!Finish BY <1>1, <2>1 DEF TypeOK, Store!Finish
  <2>2. CASE ReturnsLost BY <2>2 DEF TypeOK, ReturnsLost, Store!Lost
  <2> QED BY <2>1, <2>2 DEF SaveSucceeds
<1>3. CASE call.op = "unload"
  <2>1. call.chunk = w BY <1>1, <1>3, CallKinds DEF Calling
  <2>0. /\ columns' = [columns EXCEPT ![w] = NoColumn] /\ Push("unload", w)
        /\ saving_queue' = saving_queue \ {w} /\ call' = Idle
    BY <1>3, <2>1 DEF SaveSucceeds, Remove
  <2>2. /\ events' \in Seq(Event)
        /\ \A d \in Chunk : d # w => (Told(d)' <=> Told(d))
        /\ ~Told(w)'
    <3>1. "unload" \in {"load", "unload", "block_update"} /\ events \in Seq(Event)
      BY DEF TypeOK
    <3> HIDE DEF IInv
    <3> QED BY <1>0, <2>0, <3>1, PushTells
  <2>3. Loaded' = Loaded \ {w} BY <1>1, <2>0, VersionAssumption DEF Loaded, TypeOK
  <2>4. TypeOK' BY <1>0, <1>2, <2>0, <2>2, CallKinds DEF TypeOK, Calls
  <2>5. Calling' BY <1>0, <2>0, CallKinds DEF Calling
  <2>6. Visited' BY <2>0, CallKinds DEF Visited
  <2>7. NoEditLost'
    <3> SUFFICES ASSUME NEW c \in Chunk, latest[c] # NoColumn
                 PROVE  \/ columns'[c] = latest[c] /\ c \in saving_queue'
                        \/ /\ columns'[c] \in {latest[c], NoColumn}
                           /\ stored'[c] = latest[c] \/ trust = "lost"
      BY <1>0 DEF NoEditLost
    <3>1. CASE c = w BY <1>1, <1>2, <2>0, <3>1 DEF NoEditLost, TypeOK, Loaded
    <3>2. CASE c # w BY <1>2, <2>0, <3>2 DEF NoEditLost, TypeOK
    <3> QED BY <3>1, <3>2
  <2>8. EventsTellLoaded' BY <2>2, <2>3 DEF EventsTellLoaded
  <2> QED BY <2>4, <2>5, <2>6, <2>7, <2>8
<1>4. CASE call.op # "unload"
  <2>0. UNCHANGED <<columns, saving_queue, events, call>> BY <1>4 DEF SaveSucceeds
  <2>1. Loaded' = Loaded BY <2>0 DEF Loaded
  <2>2. TypeOK' BY <1>0, <1>2, <2>0, <2>1 DEF TypeOK
  <2>3. Calling' BY <1>0, <1>4, <2>0 DEF Calling
  <2>4. Visited'
    <3> SUFFICES ASSUME call.op = "save_all",
                        NEW c \in (Loaded \cap saving_queue) \ call.rest
                 PROVE  stored'[c] = columns[c] \/ trust = "lost"
      BY <1>0, <2>0, <2>1 DEF Visited
    <3>1. c \in Chunk BY DEF Loaded
    <3>2. c # w => stored[c] = columns[c] \/ trust = "lost" BY <1>1 DEF Visited
    <3> QED BY <1>2, <3>1, <3>2
  <2>5. NoEditLost'
    <3> SUFFICES ASSUME NEW c \in Chunk, latest[c] # NoColumn
                 PROVE  \/ columns[c] = latest[c] /\ c \in saving_queue
                        \/ /\ columns[c] \in {latest[c], NoColumn}
                           /\ stored'[c] = latest[c] \/ trust = "lost"
      BY <1>0, <2>0 DEF NoEditLost
    <3>1. \/ columns[c] = latest[c] /\ c \in saving_queue
          \/ /\ columns[c] \in {latest[c], NoColumn}
             /\ stored[c] = latest[c] \/ trust = "lost"
      BY DEF NoEditLost
    <3>2. CASE c = w BY <1>1, <1>2, <3>1, <3>2 DEF Loaded
    <3>3. CASE c # w BY <1>2, <3>1, <3>3
    <3> QED BY <3>2, <3>3
  <2>6. EventsTellLoaded' BY <1>0, <2>0, <2>1, QuietTells DEF EventsTellLoaded
  <2> QED BY <2>2, <2>3, <2>4, <2>5, <2>6
<1> QED BY <1>3, <1>4

LEMMA SaveFailsIInv == ASSUME IInv, SaveFails PROVE IInv'
<1> USE DEF IInv, SaveFails
<1>0. /\ writing' = NoWrite /\ stored' = stored
      /\ trust' \in {"sound", "hurt", "lost"}
      /\ trust = "lost" => trust' = "lost"
  BY DEF Store!GiveUp, Store!Lost, ReturnsLost
<1>1. Loaded' = Loaded BY DEF Loaded
<1>2. TypeOK' BY <1>0, <1>1, CallKinds DEF TypeOK, Calls
<1>3. Calling' BY <1>0, CallKinds DEF Calling
<1>4. Visited' BY CallKinds DEF Visited
<1>5. NoEditLost' BY <1>0 DEF NoEditLost
<1>6. EventsTellLoaded' BY <1>1, QuietTells DEF EventsTellLoaded
<1> QED BY <1>2, <1>3, <1>4, <1>5, <1>6

LEMMA CrashIInv == ASSUME IInv, Crash PROVE IInv'
<1> USE DEF IInv, Crash, Restart
<1>1. Loaded' = {} BY DEF Loaded
<1>2. /\ writing' = NoWrite /\ stored' = stored
      /\ trust' \in {"sound", "hurt", "lost"}
  BY DEF TypeOK
<1>3. TypeOK' BY <1>2, CallKinds DEF TypeOK, Calls
<1>4. Calling' BY <1>2, CallKinds DEF Calling
<1>5. Visited' BY CallKinds DEF Visited
<1>6. NoEditLost' BY <1>2 DEF NoEditLost
<1>7. EventsTellLoaded'
  <2> SUFFICES ASSUME NEW c \in Chunk PROVE ~Told(c)'
    BY <1>1 DEF EventsTellLoaded
  <2>1. {i \in 1 .. Len(events') : events'[i].chunk = c /\ events'[i].kind # "block_update"} = {}
    OBVIOUS
  <2> QED BY <2>1 DEF Told
<1> QED BY <1>3, <1>4, <1>5, <1>6, <1>7

LEMMA StutterIInv == ASSUME IInv, UNCHANGED vars PROVE IInv'
BY QuietTells DEF vars, provider, IInv, TypeOK, Calling, Visited, NoEditLost,
                  EventsTellLoaded, Loaded

LEMMA NextIInv == ASSUME IInv, [Next]_vars PROVE IInv'
<1>1. CASE Next
  BY <1>1, GetColumnIInv, SetColumnIInv, SetBlockIInv, SetLightIInv, TakeEventsIInv,
     UnloadUnqueuedIInv, BeginUnloadIInv, BeginSaveAllIInv, SaveNextIInv,
     SaveAllDoneIInv, SaveSucceedsIInv, SaveFailsIInv, CrashIInv
  DEF Next
<1>2. CASE UNCHANGED vars BY <1>2, StutterIInv
<1> QED BY <1>1, <1>2

-----------------------------------------------------------------------------
\* The inductive invariant holds in every state of World.
THEOREM Invariance == Spec => []IInv
<1>1. Init => IInv BY InitIInv
<1>2. IInv /\ [Next]_vars => IInv' BY NextIInv
<1> QED BY <1>1, <1>2, PTL DEF Spec

\* Every variable of World has its type, and a call under way is one that
\* world.rs can be in.
THEOREM TypeCorrect == Spec => []TypeOK
<1>1. IInv => TypeOK BY DEF IInv
<1> QED BY <1>1, Invariance, PTL

\* No edit is lost, for any number of chunks, contents and pending events,
\* whatever the generator produces (unload_column, save_all and queue_save).
THEOREM EditsNeverLost == Spec => []NoEditLost
<1>1. IInv => NoEditLost BY DEF IInv
<1> QED BY <1>1, Invariance, PTL

\* The events always tell which columns are in memory (set_column and
\* unload_column are the only places that change it, and push one each).
THEOREM EventsAlwaysTellLoaded == Spec => []EventsTellLoaded
<1>1. IInv => EventsTellLoaded BY DEF IInv
<1> QED BY <1>1, Invariance, PTL

\* save_all returns Ok only when everything queued and loaded is stored.
THEOREM SaveAllAlwaysSaves == Spec => SaveAllSaves
<1>1. IInv /\ [Next]_vars =>
        [SaveAllDone =>
           \/ trust = "lost"
           \/ \A c \in Loaded \cap saving_queue : stored[c] = columns[c]]_vars
  BY AllStored
<1> QED BY <1>1, Invariance, PTL DEF Spec, SaveAllSaves
=============================================================================
