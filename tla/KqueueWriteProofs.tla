------------------------- MODULE KqueueWriteProofs -------------------------
(***************************************************************************)
(* Proofs about KqueueWrite for any number of senders, packets and bytes:  *)
(* an open descriptor always has exactly one filter or one goroutine about *)
(* to add it, and the BSD build implements the epoll build, from which the *)
(* theorems about ConnWrite follow for it.                                 *)
(***************************************************************************)
EXTENDS KqueueWrite, FiniteSetTheorems, TLAPS

USE DEF Write!Goto

Between(w) == pc[w] = "addwrite"

\* Who may be where, by the filters of an open descriptor.  Only the poller
\* deletes WRITE: the filter of the event it handles stays until ModRead.
FiltersInv ==
  /\ ~({"READ", "WRITE"} \subseteq filters)
  /\ poller \in {"getbuff", "flush", "modread"} => "WRITE" \in filters
  /\ poller = "addread" => filters = {} /\ \A w \in Writers : ~Between(w)
  /\ \A v, w \in Writers : Between(v) /\ Between(w) => v = w
  /\ \A w \in Writers : Between(w) => filters = {}
  /\ filters = {} => poller = "addread" \/ \E w \in Writers : Between(w)

KInv ==
  /\ TypeOK
  /\ fd = "open" => FiltersInv
  /\ fd = "closed" => filters = {}

\* The initial state.
LEMMA InitKInv == Init => KInv
  BY DEF Init, KInv, TypeOK, FiltersInv, Between

\* A sender's step that leaves the filters and the descriptor alone, and neither
\* comes from nor goes to the point between the two calls of ModWrite.
LEMMA SenderKeeps ==
  ASSUME KInv, NEW w \in Writers,
         NEW from \in {"idle", "check", "write", "enqueue", "setout", "pushrest"},
         NEW to \in {"idle", "check", "write", "enqueue", "setout", "pushrest", "modwrite"},
         Write!Goto(w, from, to), UNCHANGED <<filters, poller, fd>>
  PROVE  KInv'
<1>1. TypeOK' BY DEF KInv, TypeOK
<1>2. \A v \in Writers : Between(v)' <=> Between(v) BY DEF KInv, TypeOK, Between
<1> QED BY <1>1, <1>2 DEF KInv, FiltersInv

\* A step of the poller that leaves the senders, the filters and the descriptor
\* alone, and neither comes from nor goes to the point between the calls of ModRead.
LEMMA PollerKeeps ==
  ASSUME KInv, poller \in {"getbuff", "flush", "setin"},
         poller' \in {"wait", "flush", "modread"},
         poller = "setin" => poller' = "wait",
         UNCHANGED <<filters, pc, fd>>
  PROVE  KInv'
  BY DEF KInv, TypeOK, FiltersInv, Between

\* Closing the connection.
LEMMA CloseKeeps ==
  ASSUME KInv, CloseConn, UNCHANGED pc,
         poller' \in {"wait", "getbuff", "flush", "modread", "addread", "setin"}
  PROVE  KInv'
  BY DEF KInv, TypeOK, CloseConn

\* The invariant is inductive.
LEMMA NextKInv == KInv /\ [Next]_vars => KInv'
<1> SUFFICES ASSUME KInv, [Next]_vars PROVE KInv' OBVIOUS
<1>1. ASSUME NEW w \in Writers, Write!Send(w) PROVE KInv'
  BY <1>1, SenderKeeps DEF Write!Send, Write!connVars, Write!kernelVars
<1>2. ASSUME NEW w \in Writers, WriteStep(w) PROVE KInv'
  <2>1. CASE Write!CheckState(w)
    BY <2>1, SenderKeeps DEF Write!CheckState, Write!connVars, Write!kernelVars
  <2>2. CASE Write!Enqueue(w)
    BY <2>2, SenderKeeps DEF Write!Enqueue, Write!kernelVars
  <2>3. CASE Write!WriteSome(w)
    BY <2>3, SenderKeeps DEF Write!WriteSome, Write!connVars
  <2>4. CASE Write!WriteAgain(w)
    BY <2>4, SenderKeeps DEF Write!WriteAgain, Write!connVars, Write!kernelVars
  <2>5. CASE Write!WriteFailed(w)
    BY <2>5, SenderKeeps DEF Write!WriteFailed, Write!connVars, Write!kernelVars
  <2>6. CASE Write!SetOut(w)
    BY <2>6, SenderKeeps DEF Write!SetOut, Write!kernelVars
  <2>7. CASE Write!PushRest(w)
    BY <2>7, SenderKeeps DEF Write!PushRest, Write!kernelVars
  <2>8. CASE DeleteRead(w)
    <3>1. TypeOK' BY <2>8 DEF DeleteRead, KInv, TypeOK
    <3>2. \A v \in Writers : v # w => (Between(v)' <=> Between(v))
      BY <2>8 DEF DeleteRead, KInv, TypeOK, Between
    <3>3. /\ ~Between(w)
          /\ Between(w)' <=> "READ" \in filters
      BY <2>8 DEF DeleteRead, KInv, TypeOK, Between
    <3>4. filters' = filters \ {"READ"} /\ UNCHANGED <<poller, fd>>
      BY <2>8 DEF DeleteRead
    <3> QED BY <3>1, <3>2, <3>3, <3>4 DEF KInv, TypeOK, FiltersInv
  <2>9. CASE AddWrite(w)
    <3>1. TypeOK' BY <2>9 DEF AddWrite, KInv, TypeOK
    <3>2. \A v \in Writers : v # w => (Between(v)' <=> Between(v))
      BY <2>9 DEF AddWrite, KInv, TypeOK, Between
    <3>3. Between(w) /\ ~Between(w)'
      BY <2>9 DEF AddWrite, KInv, TypeOK, Between
    <3>4. /\ filters' = IF fd = "open" THEN filters \cup {"WRITE"} ELSE filters
          /\ UNCHANGED <<poller, fd>>
      BY <2>9 DEF AddWrite
    <3> QED BY <3>1, <3>2, <3>3, <3>4 DEF KInv, TypeOK, FiltersInv
  <2> QED BY <1>2, <2>1, <2>2, <2>3, <2>4, <2>5, <2>6, <2>7, <2>8, <2>9 DEF WriteStep
<1>3. CASE PollerStep
  <2>1. CASE WriteEvent
    BY <2>1 DEF WriteEvent, Write!PollerFree, KInv, TypeOK, FiltersInv, Between
  <2>2. CASE Write!GetWriteBuff
    BY <2>2, PollerKeeps DEF Write!GetWriteBuff, Write!kernelVars
  <2>3. CASE DeleteWrite
    <3>1. CASE "WRITE" \in filters
      <4>1. fd = "open" BY <3>1 DEF KInv, TypeOK
      <4> QED BY <2>3, <3>1, <4>1 DEF DeleteWrite, KInv, TypeOK, FiltersInv, Between
    <3>2. CASE "WRITE" \notin filters
      BY <2>3, <3>2, CloseKeeps DEF DeleteWrite
    <3> QED BY <3>1, <3>2
  <2>4. CASE AddRead
    <3>1. CASE fd = "open"
      BY <2>4, <3>1 DEF AddRead, KInv, TypeOK, FiltersInv, Between
    <3>2. CASE fd # "open"
      BY <2>4, <3>2, CloseKeeps DEF AddRead
    <3> QED BY <3>1, <3>2
  <2>5. CASE Write!SetIn
    BY <2>5, PollerKeeps DEF Write!SetIn, Write!kernelVars
  <2>6. CASE Write!Flush
    BY <2>6, PollerKeeps DEF Write!Flush
  <2>7. CASE FlushFailed
    BY <2>7, CloseKeeps DEF FlushFailed
  <2>8. CASE ReadEOF
    BY <2>8, CloseKeeps DEF ReadEOF, KInv, TypeOK
  <2> QED BY <1>3, <2>1, <2>2, <2>3, <2>4, <2>5, <2>6, <2>7, <2>8 DEF PollerStep
<1>4. CASE CloseByOther
  BY <1>4, CloseKeeps DEF CloseByOther, KInv, TypeOK
<1>5. CASE Write!PeerReads \/ Write!PeerGone
  BY <1>5 DEF Write!PeerReads, Write!PeerGone, Write!connVars, KInv, TypeOK, FiltersInv, Between
<1>6. CASE UNCHANGED vars
  BY <1>6 DEF vars, Write!vars, KInv, TypeOK, FiltersInv, Between
<1> QED BY <1>1, <1>2, <1>3, <1>4, <1>5, <1>6 DEF Next

\* KInv holds in every reachable state.
LEMMA AlwaysKInv == Spec => []KInv
  BY InitKInv, NextKInv, PTL DEF Spec

\* What this module adds to ConnWrite keeps its type.
THEOREM KqueueTypeCorrect == Spec => []TypeOK
<1>1. KInv => TypeOK BY DEF KInv
<1> QED BY <1>1, AlwaysKInv, PTL

\* An open descriptor has exactly one filter, or none and exactly one goroutine
\* between the two calls of ModWrite (kqueue.go:62) or ModRead (:85).
THEOREM AlwaysOneFilter == Spec => []OneFilter
<1>1. KInv => OneFilter
  <2> SUFFICES ASSUME KInv, fd = "open"
               PROVE  Cardinality(filters)
                        + Cardinality({w \in Writers : Between(w)}
                            \cup (IF poller = "addread" THEN {"poller"} ELSE {})) = 1
    BY DEF OneFilter, Between
  <2>1. CASE filters = {}
    <3>1. CASE poller = "addread"
      <4>1. {w \in Writers : Between(w)} = {} BY <3>1 DEF KInv, FiltersInv
      <4>2. {w \in Writers : Between(w)}
              \cup (IF poller = "addread" THEN {"poller"} ELSE {}) = {"poller"}
        BY <3>1, <4>1
      <4>3. Cardinality(filters) = 0 /\ Cardinality({"poller"}) = 1
        BY <2>1, FS_EmptySet, FS_Singleton
      <4> QED BY <4>2, <4>3
    <3>2. CASE poller # "addread"
      <4>1. PICK w \in Writers : Between(w) BY <2>1, <3>2 DEF KInv, FiltersInv
      <4>2. {v \in Writers : Between(v)} = {w} BY <4>1 DEF KInv, FiltersInv
      <4> QED BY <2>1, <3>2, <4>2, FS_EmptySet, FS_Singleton
    <3> QED BY <3>1, <3>2
  <2>2. CASE filters # {}
    <3>1. filters = {"READ"} \/ filters = {"WRITE"}
      BY <2>2 DEF KInv, TypeOK, FiltersInv
    <3>2. /\ {w \in Writers : Between(w)} = {}
          /\ poller # "addread"
      BY <2>2 DEF KInv, FiltersInv
    <3> QED BY <3>1, <3>2, FS_EmptySet, FS_Singleton
  <2> QED BY <2>1, <2>2
<1> QED BY <1>1, AlwaysKInv, PTL

-----------------------------------------------------------------------------
(* The refinement: each step of KqueueWrite is a step of ConnWrite, or none. *)

\* A step of a sender that does not meet "addwrite" looks the same from outside.
LEMMA SenderMaps ==
  ASSUME TypeOK, NEW w \in Writers, NEW from, NEW to,
         from # "addwrite", to # "addwrite", Write!Goto(w, from, to)
  PROVE  Epoll!Goto(w, from, to)
  BY DEF TypeOK, SenderAt, Epoll!Goto

\* What the two instances of ConnWrite compute of a chunk is the same.
LEMMA SameChunks ==
  /\ \A w : Write!Rest(w) = Epoll!Rest(w)
  /\ \A chunk : Write!Left(chunk) = Epoll!Left(chunk)
  /\ \A chunk : Write!Accepted(chunk) = Epoll!Accepted(chunk)
  /\ \A chunk : Write!Segment(chunk) = Epoll!Segment(chunk)
  BY DEF Write!Rest, Epoll!Rest, Write!Left, Epoll!Left, Write!Accepted, Epoll!Accepted,
         Write!Segment, Epoll!Segment, Write!Current, Epoll!Current, Write!Lesser, Epoll!Lesser

\* A poller that waits for events here does so there.
LEMMA FreeMaps == TypeOK /\ Write!PollerFree => Epoll!PollerFree
  BY KqueueWriteAssumption DEF TypeOK, Write!PollerFree, Epoll!PollerFree, PollerAt, SenderAt

\* The initial states correspond.
LEMMA InitMaps == Init => Epoll!Init
  BY DEF Init, Epoll!Init, Interest, SenderAt, PollerAt

\* What is seen of the connection after it is closed.
LEMMA CloseMaps == CloseConn => Epoll!CloseConn
  BY DEF CloseConn, Epoll!CloseConn, Interest

\* The sender's steps.
LEMMA SendMaps ==
  ASSUME KInv, NEW w \in Writers, Write!Send(w)
  PROVE  Epoll!Send(w)
<1>1. Epoll!Goto(w, "idle", "check")
  BY SenderMaps DEF Write!Send, KInv
<1>2. w \in PollerWriters => Epoll!PollerFree
  BY FreeMaps DEF Write!Send, KInv
<1>3. UNCHANGED <<Interest, PollerAt>>
  BY DEF Write!Send, Write!connVars, Interest, PollerAt, Write!kernelVars
<1> QED BY <1>1, <1>2, <1>3
     DEF Write!Send, Epoll!Send, Write!connVars, Write!kernelVars, Epoll!connVars, Epoll!kernelVars

LEMMA WriteStepMaps ==
  ASSUME KInv, NEW w \in Writers, WriteStep(w)
  PROVE  Epoll!WriteStep(w) \/ UNCHANGED Epoll!vars
<1> USE DEF Write!connVars, Write!kernelVars, Epoll!connVars, Epoll!kernelVars
<1>0. TypeOK BY DEF KInv
<1>1. CASE Write!CheckState(w)
  <2>1. Epoll!Goto(w, "check", IF state = "EPollOUT" THEN "enqueue" ELSE "write")
    BY <1>0, <1>1, SenderMaps DEF Write!CheckState
  <2>2. UNCHANGED <<Interest, PollerAt>> BY <1>1 DEF Write!CheckState, Interest, PollerAt
  <2> QED BY <1>1, <2>1, <2>2 DEF Write!CheckState, Epoll!CheckState, Epoll!WriteStep
<1>2. CASE Write!Enqueue(w)
  <2>1. Epoll!Goto(w, "enqueue", "idle") BY <1>0, <1>2, SenderMaps DEF Write!Enqueue
  <2>2. UNCHANGED <<Interest, PollerAt>> BY <1>2 DEF Write!Enqueue, Interest, PollerAt
  <2> QED BY <1>2, <2>1, <2>2, SameChunks DEF Write!Enqueue, Epoll!Enqueue, Epoll!WriteStep
<1>3. CASE Write!WriteSome(w)
  <2>1. Epoll!Goto(w, "write",
          IF Write!Accepted(Write!Rest(w)) = Write!Left(Write!Rest(w)) THEN "idle" ELSE "setout")
    BY <1>0, <1>3, SenderMaps DEF Write!WriteSome
  <2>2. UNCHANGED <<Interest, PollerAt>> BY <1>3 DEF Write!WriteSome, Interest, PollerAt
  <2> QED BY <1>3, <2>1, <2>2, SameChunks DEF Write!WriteSome, Epoll!WriteSome, Epoll!WriteStep
<1>4. CASE Write!WriteAgain(w)
  <2>1. Epoll!Goto(w, "write", "setout") BY <1>0, <1>4, SenderMaps DEF Write!WriteAgain
  <2>2. UNCHANGED <<Interest, PollerAt>> BY <1>4 DEF Write!WriteAgain, Interest, PollerAt
  <2> QED BY <1>4, <2>1, <2>2 DEF Write!WriteAgain, Epoll!WriteAgain, Epoll!WriteStep
<1>5. CASE Write!WriteFailed(w)
  <2>1. Epoll!Goto(w, "write", "idle") BY <1>0, <1>5, SenderMaps DEF Write!WriteFailed
  <2>2. UNCHANGED <<Interest, PollerAt>> BY <1>5 DEF Write!WriteFailed, Interest, PollerAt
  <2> QED BY <1>5, <2>1, <2>2 DEF Write!WriteFailed, Epoll!WriteFailed, Epoll!WriteStep
<1>6. CASE Write!SetOut(w)
  <2>1. Epoll!Goto(w, "setout", "pushrest") BY <1>0, <1>6, SenderMaps DEF Write!SetOut
  <2>2. UNCHANGED <<Interest, PollerAt>> BY <1>6 DEF Write!SetOut, Interest, PollerAt
  <2> QED BY <1>6, <2>1, <2>2 DEF Write!SetOut, Epoll!SetOut, Epoll!WriteStep
<1>7. CASE Write!PushRest(w)
  <2>1. Epoll!Goto(w, "pushrest", "modwrite") BY <1>0, <1>7, SenderMaps DEF Write!PushRest
  <2>2. UNCHANGED <<Interest, PollerAt>> BY <1>7 DEF Write!PushRest, Interest, PollerAt
  <2> QED BY <1>7, <2>1, <2>2, SameChunks DEF Write!PushRest, Epoll!PushRest, Epoll!WriteStep
\* The deletion is the ModWrite of epoll, whether or not the addition follows.
<1>8. CASE DeleteRead(w)
  <2>1. Epoll!Goto(w, "modwrite", "idle")
    BY <1>0, <1>8 DEF DeleteRead, TypeOK, SenderAt, Epoll!Goto
  <2>2. Interest' = IF Interest = "none" THEN "none" ELSE "out"
    BY <1>8 DEF DeleteRead, Interest
  <2>3. UNCHANGED PollerAt BY <1>8 DEF DeleteRead, PollerAt
  <2> QED BY <1>8, <2>1, <2>2, <2>3 DEF DeleteRead, unsent, Epoll!ModWrite, Epoll!WriteStep
\* The addition is not seen.
<1>9. CASE AddWrite(w)
  <2>1. SenderAt' = SenderAt BY <1>0, <1>9 DEF AddWrite, TypeOK, SenderAt
  <2>2. UNCHANGED <<Interest, PollerAt>> BY <1>9 DEF AddWrite, Interest, PollerAt
  <2> QED BY <1>9, <2>1, <2>2 DEF AddWrite, unsent, Epoll!vars
<1> QED BY <1>1, <1>2, <1>3, <1>4, <1>5, <1>6, <1>7, <1>8, <1>9 DEF WriteStep

\* The poller's steps.
LEMMA PollerStepMaps ==
  ASSUME KInv, PollerStep
  PROVE  Epoll!PollerStep \/ UNCHANGED Epoll!vars
<1> USE DEF Write!connVars, Write!kernelVars, Epoll!connVars, Epoll!kernelVars
<1>0. TypeOK BY DEF KInv
<1>1. CASE WriteEvent
  <2>1. Epoll!PollerFree BY <1>0, <1>1, FreeMaps DEF WriteEvent
  <2>2. "WRITE" \in filters /\ fd = "open" /\ "READ" \notin filters
    BY <1>1 DEF WriteEvent, KInv, TypeOK, FiltersInv
  <2>3. Interest = "out" BY <2>2 DEF Interest
  <2>4. UNCHANGED <<Interest, SenderAt>> /\ PollerAt' = "getbuff"
    BY <1>1 DEF WriteEvent, Interest, SenderAt, PollerAt
  <2> QED BY <1>1, <2>1, <2>3, <2>4 DEF WriteEvent, unsent, Epoll!WriteEvent, Epoll!PollerStep
<1>2. CASE Write!GetWriteBuff
  <2>1. UNCHANGED <<Interest, SenderAt>>
    BY <1>2 DEF Write!GetWriteBuff, Interest, SenderAt
  <2>2. PollerAt = "getbuff" /\ PollerAt' = poller'
    BY <1>2 DEF Write!GetWriteBuff, PollerAt
  <2> QED BY <1>2, <2>1, <2>2, SameChunks DEF Write!GetWriteBuff, Epoll!GetWriteBuff, Epoll!PollerStep
\* The deletion is not seen while the descriptor is open.
<1>3. CASE DeleteWrite
  <2>1. CASE "WRITE" \in filters
    <3>1. fd = "open" /\ "READ" \notin filters BY <2>1 DEF KInv, TypeOK, FiltersInv
    <3>2. UNCHANGED <<Interest, SenderAt, PollerAt>>
      BY <1>3, <2>1, <3>1 DEF DeleteWrite, Interest, SenderAt, PollerAt
    <3> QED BY <1>3, <2>1, <3>2 DEF DeleteWrite, unsent, Epoll!vars
  <2>2. CASE "WRITE" \notin filters
    <3>1. fd = "closed" BY <1>3, <2>2 DEF DeleteWrite, KInv, TypeOK, FiltersInv
    <3>2. Interest = "none" BY <3>1 DEF Interest
    <3>3. PollerAt = "modread" /\ PollerAt' = "wait" /\ UNCHANGED SenderAt
      BY <1>3, <2>2 DEF DeleteWrite, PollerAt, SenderAt
    <3>4. Epoll!CloseConn BY <1>3, <2>2, CloseMaps DEF DeleteWrite
    <3> QED BY <1>3, <3>2, <3>3, <3>4 DEF DeleteWrite, unsent, Epoll!ModRead, Epoll!PollerStep
  <2> QED BY <2>1, <2>2
\* The addition is the ModRead of epoll.
<1>4. CASE AddRead
  <2>1. PollerAt = "modread" /\ UNCHANGED SenderAt BY <1>4 DEF AddRead, PollerAt, SenderAt
  <2>2. CASE fd = "open"
    <3>1. Interest # "none" /\ Interest' = "in" /\ PollerAt' = "setin"
      BY <1>4, <2>2 DEF AddRead, Interest, PollerAt
    <3> QED BY <1>4, <2>1, <2>2, <3>1 DEF AddRead, unsent, Epoll!ModRead, Epoll!PollerStep
  <2>3. CASE fd # "open"
    <3>1. fd = "closed" BY <1>0, <2>3 DEF TypeOK
    <3>2. Interest = "none" /\ PollerAt' = "wait" /\ Epoll!CloseConn
      BY <1>4, <2>3, <3>1, CloseMaps DEF AddRead, Interest, PollerAt
    <3> QED BY <1>4, <2>1, <3>2 DEF AddRead, unsent, Epoll!ModRead, Epoll!PollerStep
  <2> QED BY <2>2, <2>3
<1>5. CASE Write!SetIn
  <2>1. UNCHANGED <<Interest, SenderAt>> /\ PollerAt = "setin" /\ PollerAt' = "wait"
    BY <1>5 DEF Write!SetIn, Interest, SenderAt, PollerAt
  <2> QED BY <1>5, <2>1 DEF Write!SetIn, Epoll!SetIn, Epoll!PollerStep
<1>6. CASE Write!Flush
  <2>1. UNCHANGED <<Interest, SenderAt>> /\ PollerAt = "flush" /\ PollerAt' = "wait"
    BY <1>6 DEF Write!Flush, Interest, SenderAt, PollerAt
  <2> QED BY <1>6, <2>1, SameChunks DEF Write!Flush, Epoll!Flush, Epoll!PollerStep
<1>7. CASE FlushFailed
  <2>1. Epoll!CloseConn BY <1>7, CloseMaps DEF FlushFailed
  <2>2. UNCHANGED SenderAt /\ PollerAt = "flush" /\ PollerAt' = "wait"
    BY <1>7 DEF FlushFailed, SenderAt, PollerAt
  <2> QED BY <1>7, <2>1, <2>2 DEF FlushFailed, unsent, Epoll!FlushFailed, Epoll!PollerStep
<1>8. CASE ReadEOF
  <2>1. Epoll!PollerFree BY <1>0, <1>8, FreeMaps DEF ReadEOF
  <2>2. Interest = "in" BY <1>8 DEF ReadEOF, Interest, KInv, TypeOK
  <2>3. Epoll!CloseConn BY <1>8, CloseMaps DEF ReadEOF
  <2>4. UNCHANGED <<SenderAt, PollerAt>> BY <1>8 DEF ReadEOF, SenderAt, PollerAt
  <2> QED BY <1>8, <2>1, <2>2, <2>3, <2>4 DEF ReadEOF, unsent, Epoll!ReadEOF, Epoll!PollerStep
<1> QED BY <1>1, <1>2, <1>3, <1>4, <1>5, <1>6, <1>7, <1>8 DEF PollerStep

\* Every step is a step of the epoll build, or none.
LEMMA StepMaps == KInv /\ [Next]_vars => [Epoll!Next]_(Epoll!vars)
<1> USE DEF Write!connVars, Write!kernelVars, Epoll!connVars, Epoll!kernelVars
<1> SUFFICES ASSUME KInv, [Next]_vars PROVE Epoll!Next \/ UNCHANGED Epoll!vars OBVIOUS
<1>1. ASSUME NEW w \in Writers, Write!Send(w) PROVE Epoll!Next
  BY <1>1, SendMaps DEF Epoll!Next
<1>2. ASSUME NEW w \in Writers, WriteStep(w) PROVE Epoll!Next \/ UNCHANGED Epoll!vars
  BY <1>2, WriteStepMaps DEF Epoll!Next
<1>3. CASE PollerStep
  BY <1>3, PollerStepMaps DEF Epoll!Next
<1>4. CASE CloseByOther
  <2>1. UNCHANGED <<SenderAt, PollerAt>> BY <1>4 DEF CloseByOther, SenderAt, PollerAt
  <2>2. Epoll!CloseConn BY <1>4, CloseMaps DEF CloseByOther
  <2> QED BY <1>4, <2>1, <2>2 DEF CloseByOther, unsent, Epoll!CloseByOther, Epoll!Next
<1>5. CASE Write!PeerReads
  <2>1. UNCHANGED <<Interest, SenderAt, PollerAt>>
    BY <1>5 DEF Write!PeerReads, Interest, SenderAt, PollerAt
  <2> QED BY <1>5, <2>1 DEF Write!PeerReads, Epoll!PeerReads, Epoll!Next
<1>6. CASE Write!PeerGone
  <2>1. UNCHANGED <<Interest, SenderAt, PollerAt>>
    BY <1>6 DEF Write!PeerGone, Interest, SenderAt, PollerAt
  <2> QED BY <1>6, <2>1 DEF Write!PeerGone, Epoll!PeerGone, Epoll!Next
<1>7. CASE UNCHANGED vars
  BY <1>7 DEF vars, Write!vars, Epoll!vars, Interest, SenderAt, PollerAt
<1> QED BY <1>1, <1>2, <1>3, <1>4, <1>5, <1>6, <1>7 DEF Next

\* The write path over kqueue implements the write path over epoll: what module
\* ConnWrite guarantees of its states and steps, the BSD build guarantees too.
THEOREM KqueueImplementsEpoll == Spec => ImplementsEpoll
  BY AlwaysKInv, InitMaps, StepMaps, PTL DEF Spec, ImplementsEpoll, Epoll!Spec
-----------------------------------------------------------------------------
(* What follows for the BSD build.                                         *)

\* The theorems about ConnWrite, with the variables of the BSD build.
Kept == INSTANCE ConnWriteProofs WITH
  interest <- Interest, pc <- SenderAt, poller <- PollerAt

LEMMA SameInit == Epoll!Init => Kept!Init
  BY Zenon DEF Epoll!Init, Kept!Init

LEMMA SameNext == [Epoll!Next]_Epoll!vars => [Kept!Next]_Kept!vars
  BY Zenon DEF Epoll!vars, Kept!vars, Epoll!connVars, Kept!connVars,
    Epoll!kernelVars, Kept!kernelVars, Epoll!Packets, Kept!Packets,
    Epoll!Lesser, Kept!Lesser, Epoll!Left, Kept!Left, Epoll!Current,
    Kept!Current, Epoll!Rest, Kept!Rest, Epoll!Accepted, Kept!Accepted,
    Epoll!Segment, Kept!Segment, Epoll!PollerFree, Kept!PollerFree,
    Epoll!Goto, Kept!Goto, Epoll!Send, Kept!Send, Epoll!CheckState,
    Kept!CheckState, Epoll!Enqueue, Kept!Enqueue, Epoll!WriteSome,
    Kept!WriteSome, Epoll!WriteAgain, Kept!WriteAgain, Epoll!WriteFailed,
    Kept!WriteFailed, Epoll!SetOut, Kept!SetOut, Epoll!PushRest,
    Kept!PushRest, Epoll!ModWrite, Kept!ModWrite, Epoll!WriteStep,
    Kept!WriteStep, Epoll!CloseConn, Kept!CloseConn, Epoll!WriteEvent,
    Kept!WriteEvent, Epoll!GetWriteBuff, Kept!GetWriteBuff, Epoll!ModRead,
    Kept!ModRead, Epoll!SetIn, Kept!SetIn, Epoll!Flush, Kept!Flush,
    Epoll!FlushFailed, Kept!FlushFailed, Epoll!ReadEOF, Kept!ReadEOF,
    Epoll!PollerStep, Kept!PollerStep, Epoll!CloseByOther,
    Kept!CloseByOther, Epoll!PeerReads, Kept!PeerReads, Epoll!PeerGone,
    Kept!PeerGone, Epoll!Next, Kept!Next

LEMMA SameSpec == Spec => Kept!Spec
  BY KqueueImplementsEpoll, SameInit, SameNext, PTL DEF ImplementsEpoll, Epoll!Spec, Kept!Spec

LEMMA SameAssumption == KqueueWriteAssumption => Kept!ConnWriteAssumption
  BY DEF KqueueWriteAssumption, Kept!ConnWriteAssumption

\* In the BSD build too the bytes of the packets arrive in order, none twice, each
\* packet is in one place until it is sent, and none of writeBuff is overwritten
\* (Send, ProceedWrite and Queue over kqueue.go).
THEOREM KqueueKeepsPackets == Spec => []Kept!BytesKept /\ Kept!NoOverwrite
<1>1. Spec => []Kept!BytesKept
  BY SameSpec, SameAssumption, KqueueWriteAssumption, Kept!PacketsKept, PTL
<1>2. Spec => Kept!NoOverwrite
  BY SameSpec, SameAssumption, KqueueWriteAssumption, Kept!NeverOverwritten, PTL
<1> QED
  BY <1>1, <1>2, PTL

\* While bytes are left in writeBuff, an open descriptor does not have the filter
\* READ: by AlwaysOneFilter it has WRITE, or a goroutine is between its two calls
\* (ModWrite and ModRead of kqueue.go).
THEOREM KqueueWatchesHalfSent == Spec => []Kept!HalfSentIsWatched
  BY SameSpec, SameAssumption, KqueueWriteAssumption, Kept!NeverHalfSentUnwatched, PTL

\* If all senders run on the poller, the BSD build implements PacketStream: packets
\* arrive whole and in the order of their Sends.
THEOREM KqueueImplementsStream == Kept!OnePoller => (Spec => Kept!ImplementsStream)
  BY SameSpec, SameAssumption, KqueueWriteAssumption, Kept!StreamImplemented, PTL
=============================================================================
