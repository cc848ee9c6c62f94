---------------------------- MODULE UdpLogProofs ----------------------------
(***************************************************************************)
(* Proofs about UdpLog, for any number of workers and datagrams.           *)
(***************************************************************************)
EXTENDS UdpLog, FiniteSetTheorems, SequenceTheorems, TLAPS

(* A message is held exactly while its line is being written.              *)
HeldInOrder == \A w \in Workers : pc[w] = "log" => held[w] \in Messages

LogInv == TypeOK /\ HeldInOrder /\ DatagramsKnown

-----------------------------------------------------------------------------
LEMMA LogInit == Init => LogInv
BY BoundAssumption DEF Init, LogInv, TypeOK, HeldInOrder, DatagramsKnown, Names, Datagrams, File

(* Where a line goes is a file, and files only grow.                       *)
LEMMA LineWritten ==
  ASSUME LogInv, NEW w \in Workers, WriteLine(w)
  PROVE  /\ files' \in [Names -> Seq(Messages)] /\ begun' \in [Names -> Nat]
         /\ held' \in [Workers -> Messages \cup {None}]
         /\ pc' \in [Workers -> {"wait", "recv", "log", "dead"}]
         /\ HeldInOrder' /\ DatagramsKnown'
<1> USE DEF LogInv, TypeOK, HeldInOrder, WriteLine
<1>1. fd[w] \in Names /\ held[w] \in Messages  OBVIOUS
<1>2. files' \in [Names -> Seq(Messages)]
  <2>1. Append(files[fd[w]], held[w]) \in Seq(Messages)  BY <1>1, AppendProperties
  <2> QED  BY <1>1, <2>1
<1>3. begun' \in [Names -> Nat]  BY <1>1
<1>4. held' \in [Workers -> Messages \cup {None}] /\ pc' \in [Workers -> {"wait", "recv", "log", "dead"}]
  OBVIOUS
<1>5. HeldInOrder'  OBVIOUS
<1>6. DatagramsKnown'  BY DEF DatagramsKnown
<1> QED  BY <1>2, <1>3, <1>4, <1>5, <1>6

LEMMA LogStep == LogInv /\ [Next]_vars => LogInv'
<1> SUFFICES ASSUME LogInv, [Next]_vars PROVE LogInv'  OBVIOUS
<1> USE DEF LogInv, TypeOK, HeldInOrder, input, worker, log
<1>1. CASE UNCHANGED vars
  BY <1>1 DEF vars, DatagramsKnown, Places
<1>2. ASSUME NEW d \in Datagrams, Arrive(d) PROVE LogInv'
  <2>1. queue' \in Seq(Datagrams)  BY <1>2, AppendProperties DEF Arrive
  <2>2. DatagramsKnown'  BY <1>2 DEF Arrive, DatagramsKnown
  <2> QED  BY <1>2, <2>1, <2>2 DEF Arrive
<1>3. ASSUME NEW d \in Datagrams, Vanish(d) PROVE LogInv'
  <2>1. TypeOK' /\ HeldInOrder'  BY <1>3 DEF Vanish
  <2>2. DatagramsKnown'  BY <1>3 DEF Vanish, DatagramsKnown
  <2> QED  BY <2>1, <2>2
<1>4. CASE ClockTicks
  <2>1. clock' \in 0 .. MaxClock  BY <1>4, BoundAssumption DEF ClockTicks
  <2>2. TypeOK' /\ HeldInOrder'  BY <1>4, <2>1 DEF ClockTicks
  <2>3. DatagramsKnown'  BY <1>4 DEF ClockTicks, DatagramsKnown
  <2> QED  BY <2>2, <2>3
<1>5. ASSUME NEW w \in Workers, Wake(w) PROVE LogInv'
  <2>1. TypeOK' /\ HeldInOrder'  BY <1>5 DEF Wake
  <2>2. DatagramsKnown'  BY <1>5 DEF Wake, DatagramsKnown
  <2> QED  BY <2>1, <2>2
<1>6. ASSUME NEW w \in Workers, Recv(w) PROVE LogInv'
  <2>1. queue' \in Seq(Datagrams)  BY <1>6, HeadTailProperties DEF Recv
  <2>2. TypeOK' /\ HeldInOrder'  BY <1>6, <2>1 DEF Recv
  <2>3. DatagramsKnown'  BY <1>6 DEF Recv, DatagramsKnown
  <2> QED  BY <2>2, <2>3
<1>7. ASSUME NEW w \in Workers, RecvAgain(w) PROVE LogInv'
  BY <1>7 DEF RecvAgain, DatagramsKnown
<1>8. ASSUME NEW w \in Workers, RecvEmpty(w) PROVE LogInv'
  <2>1. queue' \in Seq(Datagrams)  BY <1>8, HeadTailProperties DEF RecvEmpty
  <2>2. TypeOK' /\ HeldInOrder'  BY <1>8, <2>1 DEF RecvEmpty
  <2>3. DatagramsKnown'  BY <1>8 DEF RecvEmpty, DatagramsKnown
  <2> QED  BY <2>2, <2>3
<1>9. ASSUME NEW w \in Workers, Log(w) PROVE LogInv'
  <2>1. size' \in [Workers -> Nat]  BY <1>9 DEF Log
  <2>2. WriteLine(w)  BY <1>9 DEF Log
  <2> QED  BY <1>9, <2>1, <2>2, LineWritten DEF Log, WriteLine
<1>10. ASSUME NEW w \in Workers, LogTurn(w) PROVE LogInv'
  <2>1. File(cur[w]) \in Names  BY DEF Names
  <2>2. fd' \in [Workers -> Names] /\ size' \in [Workers -> Nat]  BY <1>10, <2>1 DEF LogTurn
  <2>3. WriteLine(w)  BY <1>10 DEF LogTurn
  <2> QED  BY <1>10, <2>2, <2>3, LineWritten DEF LogTurn, WriteLine
<1>11. ASSUME NEW w \in Workers, LogTurnFails(w) PROVE LogInv'
  <2>1. size' \in [Workers -> Nat] /\ kept' \in [Names -> Nat]
    <3>1. size[w] + 1 \in Nat /\ kept[fd[w]] + 1 \in Nat  OBVIOUS
    <3> QED  BY <1>11, <3>1 DEF LogTurnFails
  <2>2. budget' \in [{"die", "open"} -> Nat]  BY SMTT(30), <1>11 DEF LogTurnFails
  <2>3. WriteLine(w)  BY <1>11 DEF LogTurnFails
  <2> QED  BY <1>11, <2>1, <2>2, <2>3, LineWritten DEF LogTurnFails, WriteLine
<1>12. ASSUME NEW w \in Workers, Die(w) PROVE LogInv'
  <2>1. budget' \in [{"die", "open"} -> Nat]  BY <1>12 DEF Die
  <2>2. TypeOK' /\ HeldInOrder'  BY <1>12, <2>1 DEF Die
  <2>3. DatagramsKnown'  BY <1>12 DEF Die, DatagramsKnown
  <2> QED  BY <2>2, <2>3
<1>13. ASSUME NEW w \in Workers, Respawn(w) PROVE LogInv'
  <2>1. cur' \in [Workers -> 0 .. MaxClock] /\ size' \in [Workers -> Nat]
    <3>1. 0 \in 0 .. MaxClock  BY BoundAssumption
    <3> QED  BY <1>13, <3>1 DEF Respawn
  <2>3. TypeOK' /\ HeldInOrder'  BY <1>13, <2>1 DEF Respawn
  <2>2. DatagramsKnown'  BY <1>13 DEF Respawn, DatagramsKnown
  <2> QED  BY <2>2, <2>3
<1> QED  BY <1>1, <1>2, <1>3, <1>4, <1>5, <1>6, <1>7, <1>8, <1>9, <1>10, <1>11, <1>12, <1>13
            DEF Next

(***************************************************************************)
(* The invariant holds however datagrams, workers and failures interleave. *)
(***************************************************************************)
THEOREM LogInvariant == Spec => []LogInv
BY LogInit, LogStep, PTL DEF Spec

(* Every variable keeps its type: a descriptor is always that of a file.   *)
THEOREM TypeCorrect == Spec => []TypeOK
BY LogInvariant, PTL DEF LogInv

(* Every worker alive knows of queued datagrams, unless an empty one has   *)
(* ended its loop.                                                         *)
THEOREM QueueIsKnown == Spec => []DatagramsKnown
BY LogInvariant, PTL DEF LogInv

-----------------------------------------------------------------------------
(* Where a message is, one predicate per kind of place.                    *)
NotQueued(d)  == \A i \in DOMAIN queue : queue[i] # d
QueuedAt(d, i) == i \in DOMAIN queue /\ queue[i] = d /\ \A j \in DOMAIN queue : queue[j] = d => j = i
NotHeld(d)    == \A w \in Workers : held[w] # d
HeldBy(d, w)  == held[w] = d /\ \A v \in Workers : held[v] = d => v = w
NotLogged(d)  == \A f \in Names : \A i \in DOMAIN files[f] : files[f][i] # d
LoggedAt(d, f, i) ==
    /\ i \in DOMAIN files[f] /\ files[f][i] = d
    /\ \A g \in Names : \A j \in DOMAIN files[g] : files[g][j] = d => g = f /\ j = i

InOnePlace(d) ==
    \/ d \in unsent /\ d \notin lost /\ NotQueued(d) /\ NotHeld(d) /\ NotLogged(d)
    \/ d \notin unsent /\ d \in lost /\ NotQueued(d) /\ NotHeld(d) /\ NotLogged(d)
    \/ d \notin unsent /\ d \notin lost /\ NotHeld(d) /\ NotLogged(d)
       /\ \E i \in DOMAIN queue : QueuedAt(d, i)
    \/ d \notin unsent /\ d \notin lost /\ NotQueued(d) /\ NotLogged(d)
       /\ \E w \in Workers : HeldBy(d, w)
    \/ d \notin unsent /\ d \notin lost /\ NotQueued(d) /\ NotHeld(d)
       /\ \E f \in Names : \E i \in DOMAIN files[f] : LoggedAt(d, f, i)

(* A worker holds a message only while its line is to be written.          *)
HandsFree == \A w \in Workers : pc[w] # "log" => held[w] = None

PlaceInv == HandsFree /\ \A d \in Messages : InOnePlace(d)

LEMMA PlaceCounted ==
  ASSUME NEW d \in Messages, InOnePlace(d)
  PROVE  Cardinality(Places(d)) = 1
<1> SUFFICES ASSUME TRUE PROVE \E x : Places(d) = {x}
  BY FS_Singleton
<1>1. CASE d \in unsent /\ d \notin lost /\ NotQueued(d) /\ NotHeld(d) /\ NotLogged(d)
  <2>1. Places(d) = {<<"unsent">>}  BY <1>1 DEF Places, NotQueued, NotHeld, NotLogged
  <2> QED  BY <2>1
<1>2. CASE d \notin unsent /\ d \in lost /\ NotQueued(d) /\ NotHeld(d) /\ NotLogged(d)
  <2>1. Places(d) = {<<"lost">>}  BY <1>2 DEF Places, NotQueued, NotHeld, NotLogged
  <2> QED  BY <2>1
<1>3. ASSUME d \notin unsent, d \notin lost, NotHeld(d), NotLogged(d),
             NEW i \in DOMAIN queue, QueuedAt(d, i)
      PROVE  \E x : Places(d) = {x}
  <2>1. Places(d) = {<<"queue", i>>}  BY <1>3 DEF Places, NotHeld, NotLogged, QueuedAt
  <2> QED  BY <2>1
<1>4. ASSUME d \notin unsent, d \notin lost, NotQueued(d), NotLogged(d),
             NEW w \in Workers, HeldBy(d, w)
      PROVE  \E x : Places(d) = {x}
  <2>1. Places(d) = {<<"held", w>>}  BY <1>4 DEF Places, NotQueued, NotLogged, HeldBy
  <2> QED  BY <2>1
<1>5. ASSUME d \notin unsent, d \notin lost, NotQueued(d), NotHeld(d),
             NEW f \in Names, NEW i \in DOMAIN files[f], LoggedAt(d, f, i)
      PROVE  \E x : Places(d) = {x}
  <2>1. Places(d) = {<<"file", f, i>>}
    BY <1>5 DEF Places, NotQueued, NotHeld, LoggedAt
  <2> QED  BY <2>1
<1> QED  BY <1>1, <1>2, <1>3, <1>4, <1>5 DEF InOnePlace

LEMMA PlaceInit == Init => PlaceInv
<1> SUFFICES ASSUME Init PROVE PlaceInv  OBVIOUS
<1>1. HandsFree  BY DEF Init, HandsFree
<1>2. ASSUME NEW d \in Messages PROVE InOnePlace(d)
  <2>1. d # None  BY DatagramAssumption
  <2>2. NotQueued(d)  BY DEF Init, NotQueued
  <2>3. NotHeld(d)  BY <2>1 DEF Init, NotHeld
  <2>4. NotLogged(d)  BY DEF Init, NotLogged
  <2> QED  BY <2>2, <2>3, <2>4 DEF Init, InOnePlace, Datagrams
<1> QED  BY <1>1, <1>2 DEF PlaceInv

(* The line of a message goes to the end of a file, and nothing else moves.*)
LEMMA LinePlaced ==
  ASSUME LogInv, PlaceInv, NEW w \in Workers, WriteLine(w), UNCHANGED lost
  PROVE  PlaceInv'
<1> USE DEF WriteLine
<1>1. HandsFree'  BY DEF PlaceInv, HandsFree, LogInv, TypeOK
<1>2. ASSUME NEW d \in Messages PROVE InOnePlace(d)'
  <2> DEFINE g == fd[w]
             n == Len(files[g])
  <2>1. g \in Names /\ held[w] \in Messages /\ files[g] \in Seq(Messages) /\ n \in Nat
    BY DEF LogInv, TypeOK, HeldInOrder
  <2>2. /\ \A f \in Names \ {g} : files'[f] = files[f]
        /\ files'[g] = Append(files[g], held[w])
    BY <2>1 DEF LogInv, TypeOK
  <2>3. /\ DOMAIN files'[g] = 1 .. n + 1 /\ DOMAIN files[g] = 1 .. n
        /\ \A i \in 1 .. n : files'[g][i] = files[g][i]
        /\ files'[g][n + 1] = held[w]
    BY <2>1, <2>2, AppendProperties
  <2>4. /\ unsent' = unsent /\ lost' = lost /\ queue' = queue
        /\ held' = [held EXCEPT ![w] = None] /\ held \in [Workers -> Messages \cup {None}]
        /\ d # None
    BY DatagramAssumption DEF input, LogInv, TypeOK
  <2>5. InOnePlace(d)  BY DEF PlaceInv
  <2> HIDE DEF g, n
  <2>6. NotQueued(d) => NotQueued(d)'  BY <2>4 DEF NotQueued
  <2>7. ASSUME held[w] = d PROVE InOnePlace(d)'
    <3>1. HeldBy(d, w) /\ NotQueued(d) /\ NotLogged(d) /\ d \notin unsent /\ d \notin lost
      BY <2>5, <2>7 DEF InOnePlace, NotHeld, HeldBy
    <3>2. NotHeld(d)'  BY <2>4, <3>1 DEF HeldBy, NotHeld
    <3>3. n + 1 \in DOMAIN files'[g] /\ files'[g][n + 1] = d  BY <2>1, <2>3, <2>7
    <3>4. ASSUME NEW f \in Names, NEW j \in DOMAIN files'[f], files'[f][j] = d
          PROVE  f = g /\ j = n + 1
      <4>1. f = g  BY <2>2, <3>1, <3>4 DEF NotLogged
      <4>2. j \notin 1 .. n  BY <2>1, <2>3, <3>1, <3>4, <4>1 DEF NotLogged
      <4> QED  BY <2>1, <2>3, <3>4, <4>1, <4>2
    <3>5. \E f \in Names : \E i \in DOMAIN files'[f] : LoggedAt(d, f, i)'
      <4>1. /\ n + 1 \in DOMAIN files'[g] /\ files'[g][n + 1] = d
            /\ \A f \in Names : \A j \in DOMAIN files'[f] :
                  files'[f][j] = d => f = g /\ j = n + 1
        BY <3>3, <3>4
      <4> QED  BY <2>1, <4>1 DEF LoggedAt
    <3> QED  BY <2>4, <2>6, <3>1, <3>2, <3>5 DEF InOnePlace
  <2>8. ASSUME held[w] # d PROVE InOnePlace(d)'
    <3>1. NotHeld(d) => NotHeld(d)'  BY <2>4 DEF NotHeld
    <3>2. NotLogged(d) => NotLogged(d)'
      BY <2>1, <2>2, <2>3, <2>8 DEF NotLogged
    <3>3. ASSUME NEW f \in Names, NEW i \in DOMAIN files[f], LoggedAt(d, f, i)
          PROVE  i \in DOMAIN files'[f] /\ LoggedAt(d, f, i)'
      BY <2>1, <2>2, <2>3, <2>8, <3>3 DEF LoggedAt
    <3>4. ASSUME NEW v \in Workers, HeldBy(d, v) PROVE HeldBy(d, v)'
      BY <2>4, <2>8, <3>4 DEF HeldBy
    <3>5. ASSUME NEW i \in DOMAIN queue, QueuedAt(d, i) PROVE QueuedAt(d, i)'
      BY <2>4, <3>5 DEF QueuedAt
    <3> QED  BY <2>4, <2>5, <2>6, <3>1, <3>2, <3>3, <3>4, <3>5 DEF InOnePlace
  <2> QED  BY <2>7, <2>8
<1> QED  BY <1>1, <1>2 DEF PlaceInv

(* Taking the first datagram from the queue.                               *)
LEMMA Taken ==
  ASSUME LogInv, queue # <<>>, queue' = Tail(queue), NEW d \in Messages
  PROVE  /\ NotQueued(d) => NotQueued(d)'
         /\ \A i \in DOMAIN queue : QueuedAt(d, i) =>
               IF i = 1 THEN NotQueued(d)'
                        ELSE i - 1 \in DOMAIN queue' /\ QueuedAt(d, i - 1)'
<1> DEFINE n == Len(queue)
<1>1. queue \in Seq(Datagrams) /\ n \in Nat \ {0}  BY EmptySeq DEF LogInv, TypeOK
<1>2. /\ DOMAIN queue = 1 .. n /\ DOMAIN queue' = 1 .. n - 1
      /\ \A j \in 1 .. n - 1 : queue'[j] = queue[j + 1]
  BY <1>1, HeadTailProperties
<1> HIDE DEF n
<1>3. \A j \in 1 .. n - 1 : j + 1 \in 1 .. n  BY <1>1
<1>4. NotQueued(d) => NotQueued(d)'  BY <1>2, <1>3 DEF NotQueued
<1>5. ASSUME NEW i \in DOMAIN queue, QueuedAt(d, i)
      PROVE  IF i = 1 THEN NotQueued(d)'
             ELSE i - 1 \in DOMAIN queue' /\ QueuedAt(d, i - 1)'
  <2>1. CASE i = 1
    BY <1>1, <1>2, <1>3, <1>5, <2>1 DEF NotQueued, QueuedAt
  <2>2. CASE i # 1
    <3>1. i - 1 \in 1 .. n - 1 /\ (i - 1) + 1 = i  BY <1>1, <1>2, <2>2
    <3>2. QueuedAt(d, i - 1)'  BY <1>1, <1>2, <1>3, <1>5, <3>1 DEF QueuedAt
    <3> QED  BY <1>2, <2>2, <3>1, <3>2
  <2> QED  BY <2>1, <2>2
<1> QED  BY <1>4, <1>5

(* What is neither sent nor handed on stays where it is.                   *)
LEMMA Unmoved ==
  ASSUME NEW d \in Messages, InOnePlace(d), UNCHANGED <<queue, held, files>>,
         (d \in unsent') = (d \in unsent), (d \in lost') = (d \in lost)
  PROVE  InOnePlace(d)'
<1>1. /\ NotQueued(d)' = NotQueued(d) /\ NotHeld(d)' = NotHeld(d) /\ NotLogged(d)' = NotLogged(d)
      /\ \A i : QueuedAt(d, i)' = QueuedAt(d, i)
      /\ \A v : HeldBy(d, v)' = HeldBy(d, v)
      /\ \A f, i : LoggedAt(d, f, i)' = LoggedAt(d, f, i)
  BY DEF NotQueued, NotHeld, NotLogged, QueuedAt, HeldBy, LoggedAt
<1> QED  BY <1>1 DEF InOnePlace

(* A datagram that arrives goes to the end of the queue.                   *)
LEMMA Arrived ==
  ASSUME LogInv, PlaceInv, NEW x \in Datagrams, Arrive(x), NEW d \in Messages
  PROVE  InOnePlace(d)'
<1> DEFINE n == Len(queue)
<1>1. queue \in Seq(Datagrams) /\ n \in Nat  BY DEF LogInv, TypeOK
<1>2. /\ DOMAIN queue = 1 .. n /\ DOMAIN queue' = 1 .. n + 1 /\ queue'[n + 1] = x
      /\ \A j \in 1 .. n : queue'[j] = queue[j]
  BY <1>1, AppendProperties DEF Arrive
<1> HIDE DEF n
<1>3. /\ x \in unsent /\ unsent' = unsent \ {x} /\ lost' = lost
      /\ held' = held /\ files' = files
  BY DEF Arrive, worker, log
<1>4. InOnePlace(d)  BY DEF PlaceInv
<1>5. /\ NotHeld(d)' = NotHeld(d) /\ NotLogged(d)' = NotLogged(d)
      /\ \A v : HeldBy(d, v)' = HeldBy(d, v)
      /\ \A f, i : LoggedAt(d, f, i)' = LoggedAt(d, f, i)
  BY <1>3 DEF NotHeld, NotLogged, HeldBy, LoggedAt
<1>6. CASE d = x
  <2>1. d \notin lost /\ NotQueued(d) /\ NotHeld(d) /\ NotLogged(d)
    BY <1>3, <1>4, <1>6 DEF InOnePlace
  <2>2. n + 1 \in DOMAIN queue' /\ queue'[n + 1] = d  BY <1>1, <1>2, <1>6
  <2>3. ASSUME NEW j \in DOMAIN queue', queue'[j] = d PROVE j = n + 1
    <3>1. j \notin 1 .. n  BY <1>2, <2>1, <2>3 DEF NotQueued
    <3> QED  BY <1>1, <1>2, <2>3, <3>1
  <2>4. \E i \in DOMAIN queue' : QueuedAt(d, i)'
    <3>1. /\ n + 1 \in DOMAIN queue' /\ queue'[n + 1] = d
          /\ \A j \in DOMAIN queue' : queue'[j] = d => j = n + 1
      BY <2>2, <2>3
    <3> QED  BY <3>1 DEF QueuedAt
  <2>5. d \notin unsent' /\ d \notin lost' /\ NotHeld(d)' /\ NotLogged(d)'
    BY <1>3, <1>5, <1>6, <2>1
  <2> QED  BY <2>4, <2>5 DEF InOnePlace
<1>7. CASE d # x
  <2>1. NotQueued(d) => NotQueued(d)'  BY <1>1, <1>2, <1>7 DEF NotQueued
  <2>2. ASSUME NEW i \in DOMAIN queue, QueuedAt(d, i)
        PROVE  i \in DOMAIN queue' /\ QueuedAt(d, i)'
    BY <1>1, <1>2, <1>7, <2>2 DEF QueuedAt
  <2> QED  BY <1>3, <1>4, <1>5, <1>7, <2>1, <2>2 DEF InOnePlace
<1> QED  BY <1>6, <1>7

(* A worker takes the first message: its hands were free.                  *)
LEMMA Received ==
  ASSUME LogInv, PlaceInv, NEW w \in Workers, Recv(w), NEW d \in Messages
  PROVE  InOnePlace(d)'
<1>1. /\ queue # <<>> /\ queue' = Tail(queue) /\ pc[w] = "recv"
      /\ held' = [held EXCEPT ![w] = queue[1]] /\ held \in [Workers -> Messages \cup {None}]
      /\ unsent' = unsent /\ lost' = lost /\ files' = files
  <2>1. Head(queue) = queue[1]  BY HeadTailProperties DEF LogInv, TypeOK, Recv
  <2> QED  BY <2>1 DEF Recv, input, log, LogInv, TypeOK
<1>2. held[w] = None /\ d # None  BY <1>1, DatagramAssumption DEF PlaceInv, HandsFree
<1>3. InOnePlace(d)  BY DEF PlaceInv
<1>4. 1 \in DOMAIN queue
  <2>1. Len(queue) \in Nat \ {0} /\ DOMAIN queue = 1 .. Len(queue)
    BY <1>1, EmptySeq DEF LogInv, TypeOK
  <2> QED  BY <2>1
<1>5. /\ NotLogged(d)' = NotLogged(d)
      /\ \A f, i : LoggedAt(d, f, i)' = LoggedAt(d, f, i)
  BY <1>1 DEF NotLogged, LoggedAt
<1>6. /\ NotQueued(d) => NotQueued(d)'
      /\ \A i \in DOMAIN queue : QueuedAt(d, i) =>
            IF i = 1 THEN NotQueued(d)' ELSE i - 1 \in DOMAIN queue' /\ QueuedAt(d, i - 1)'
  BY <1>1, Taken
<1>7. CASE queue[1] = d
  <2>1. ~NotQueued(d)  BY <1>4, <1>7 DEF NotQueued
  <2>2. /\ d \notin unsent /\ d \notin lost /\ NotHeld(d) /\ NotLogged(d)
        /\ \E i \in DOMAIN queue : QueuedAt(d, i)
    BY <1>3, <2>1 DEF InOnePlace
  <2>3. QueuedAt(d, 1)  BY <1>4, <1>7, <2>2 DEF QueuedAt
  <2>4. HeldBy(d, w)'  BY <1>1, <1>7, <2>2 DEF HeldBy, NotHeld
  <2> QED  BY <1>1, <1>4, <1>5, <1>6, <2>2, <2>3, <2>4 DEF InOnePlace
<1>8. CASE queue[1] # d
  <2>1. NotHeld(d) => NotHeld(d)'  BY <1>1, <1>8 DEF NotHeld
  <2>2. ASSUME NEW v \in Workers, HeldBy(d, v) PROVE HeldBy(d, v)'
    BY <1>1, <1>2, <1>8, <2>2 DEF HeldBy
  <2>3. ASSUME NEW i \in DOMAIN queue, QueuedAt(d, i)
        PROVE  \E j \in DOMAIN queue' : QueuedAt(d, j)'
    BY <1>6, <1>8, <2>3 DEF QueuedAt
  <2> QED  BY <1>1, <1>3, <1>5, <1>6, <2>1, <2>2, <2>3 DEF InOnePlace
<1> QED  BY <1>7, <1>8

(* An empty datagram is no message: its end moves the others up.           *)
LEMMA EmptyTaken ==
  ASSUME LogInv, PlaceInv, NEW w \in Workers, RecvEmpty(w), NEW d \in Messages
  PROVE  InOnePlace(d)'
<1>1. /\ queue # <<>> /\ queue' = Tail(queue) /\ queue[1] \in Empties
      /\ unsent' = unsent /\ lost' = lost /\ files' = files /\ held' = held
  <2>1. Head(queue) = queue[1]  BY HeadTailProperties DEF LogInv, TypeOK, RecvEmpty
  <2> QED  BY <2>1 DEF RecvEmpty, input, log
<1>2. queue[1] # d  BY <1>1, DatagramAssumption
<1>3. InOnePlace(d)  BY DEF PlaceInv
<1>4. /\ NotLogged(d)' = NotLogged(d) /\ NotHeld(d)' = NotHeld(d)
      /\ \A v : HeldBy(d, v)' = HeldBy(d, v)
      /\ \A f, i : LoggedAt(d, f, i)' = LoggedAt(d, f, i)
  BY <1>1 DEF NotHeld, NotLogged, HeldBy, LoggedAt
<1>5. /\ NotQueued(d) => NotQueued(d)'
      /\ \A i \in DOMAIN queue : QueuedAt(d, i) =>
            IF i = 1 THEN NotQueued(d)' ELSE i - 1 \in DOMAIN queue' /\ QueuedAt(d, i - 1)'
  BY <1>1, Taken
<1>6. ASSUME NEW i \in DOMAIN queue, QueuedAt(d, i)
      PROVE  \E j \in DOMAIN queue' : QueuedAt(d, j)'
  BY <1>2, <1>5, <1>6 DEF QueuedAt
<1> QED  BY <1>1, <1>3, <1>4, <1>5, <1>6 DEF InOnePlace

(* What a dying worker holds is lost.                                      *)
LEMMA LostWithWorker ==
  ASSUME LogInv, PlaceInv, NEW w \in Workers, Die(w), NEW d \in Messages
  PROVE  InOnePlace(d)'
<1>1. /\ held' = [held EXCEPT ![w] = None] /\ held \in [Workers -> Messages \cup {None}]
      /\ lost' = lost \cup ({held[w]} \cap Messages)
      /\ unsent' = unsent /\ queue' = queue /\ files' = files
  BY DEF Die, input, log, LogInv, TypeOK
<1>2. d # None  BY DatagramAssumption
<1>3. InOnePlace(d)  BY DEF PlaceInv
<1>4. /\ NotLogged(d)' = NotLogged(d) /\ NotQueued(d)' = NotQueued(d)
      /\ \A i : QueuedAt(d, i)' = QueuedAt(d, i)
      /\ \A f, i : LoggedAt(d, f, i)' = LoggedAt(d, f, i)
  BY <1>1 DEF NotQueued, NotLogged, QueuedAt, LoggedAt
<1>5. CASE held[w] = d
  <2>1. d \notin unsent /\ NotQueued(d) /\ NotLogged(d) /\ HeldBy(d, w)
    BY <1>3, <1>5 DEF InOnePlace, NotHeld, HeldBy
  <2>2. NotHeld(d)'  BY <1>1, <1>2, <2>1 DEF HeldBy, NotHeld
  <2> QED  BY <1>1, <1>4, <1>5, <2>1, <2>2 DEF InOnePlace
<1>6. CASE held[w] # d
  <2>1. NotHeld(d) => NotHeld(d)'  BY <1>1, <1>2 DEF NotHeld
  <2>2. ASSUME NEW v \in Workers, HeldBy(d, v) PROVE HeldBy(d, v)'
    BY <1>1, <1>2, <1>6, <2>2 DEF HeldBy
  <2>3. d \in lost' <=> d \in lost  BY <1>1, <1>6
  <2> QED  BY <1>1, <1>3, <1>4, <2>1, <2>2, <2>3 DEF InOnePlace
<1> QED  BY <1>5, <1>6

LEMMA PlaceStep == LogInv /\ PlaceInv /\ [Next]_vars => PlaceInv'
<1> SUFFICES ASSUME LogInv, PlaceInv, [Next]_vars PROVE PlaceInv'  OBVIOUS
<1> USE DEF PlaceInv, input, worker, log
<1>1. CASE UNCHANGED vars
  BY <1>1, Unmoved DEF vars, HandsFree
<1>2. ASSUME NEW x \in Datagrams, Arrive(x) PROVE PlaceInv'
  <2>1. HandsFree'  BY <1>2 DEF Arrive, HandsFree
  <2> QED  BY <1>2, <2>1, Arrived
<1>3. ASSUME NEW x \in Datagrams, Vanish(x) PROVE PlaceInv'
  <2>1. HandsFree'  BY <1>3 DEF Vanish, HandsFree
  <2>2. ASSUME NEW d \in Messages PROVE InOnePlace(d)'
    <3>1. InOnePlace(d) /\ UNCHANGED <<queue, held, files>>  BY <1>3 DEF Vanish
    <3>2. CASE d = x
      <4>1. d \in unsent /\ d \notin unsent' /\ d \in lost'  BY <1>3, <3>2 DEF Vanish
      <4>2. NotQueued(d) /\ NotHeld(d) /\ NotLogged(d)  BY <3>1, <4>1 DEF InOnePlace
      <4>3. NotQueued(d)' /\ NotHeld(d)' /\ NotLogged(d)'
        BY <3>1, <4>2 DEF NotQueued, NotHeld, NotLogged
      <4> QED  BY <4>1, <4>3 DEF InOnePlace
    <3>3. CASE d # x
      <4>1. (d \in unsent') = (d \in unsent) /\ (d \in lost') = (d \in lost)
        BY <1>3, <3>3 DEF Vanish
      <4> QED  BY <3>1, <4>1, Unmoved
    <3> QED  BY <3>2, <3>3
  <2> QED  BY <2>1, <2>2
<1>4. CASE ClockTicks
  BY <1>4, Unmoved DEF ClockTicks, HandsFree
<1>5. ASSUME NEW w \in Workers, Wake(w) PROVE PlaceInv'
  <2>1. HandsFree'  BY <1>5 DEF Wake, HandsFree, LogInv, TypeOK
  <2> QED  BY <1>5, <2>1, Unmoved DEF Wake
<1>6. ASSUME NEW w \in Workers, Recv(w) PROVE PlaceInv'
  <2>1. HandsFree'  BY <1>6 DEF Recv, HandsFree, LogInv, TypeOK
  <2> QED  BY <1>6, <2>1, Received
<1>7. ASSUME NEW w \in Workers, RecvAgain(w) PROVE PlaceInv'
  <2>1. HandsFree'  BY <1>7 DEF RecvAgain, HandsFree, LogInv, TypeOK
  <2> QED  BY <1>7, <2>1, Unmoved DEF RecvAgain
<1>8. ASSUME NEW w \in Workers, RecvEmpty(w) PROVE PlaceInv'
  <2>1. HandsFree'  BY <1>8 DEF RecvEmpty, HandsFree, LogInv, TypeOK
  <2> QED  BY <1>8, <2>1, EmptyTaken
<1>9. ASSUME NEW w \in Workers, Log(w) \/ LogTurn(w) \/ LogTurnFails(w) PROVE PlaceInv'
  BY <1>9, LinePlaced DEF Log, LogTurn, LogTurnFails, WriteLine
<1>10. ASSUME NEW w \in Workers, Die(w) PROVE PlaceInv'
  <2>1. HandsFree'  BY <1>10 DEF Die, HandsFree, LogInv, TypeOK
  <2> QED  BY <1>10, <2>1, LostWithWorker
<1>11. ASSUME NEW w \in Workers, Respawn(w) PROVE PlaceInv'
  <2>1. HandsFree'  BY <1>11 DEF Respawn, HandsFree, LogInv, TypeOK
  <2> QED  BY <1>11, <2>1, Unmoved DEF Respawn
<1> QED  BY <1>1, <1>2, <1>3, <1>4, <1>5, <1>6, <1>7, <1>8, <1>9, <1>10, <1>11 DEF Next

(***************************************************************************)
(* However many workers share the socket and the log, and whenever they    *)
(* die or turn over, each message is sent, queued, held, logged or lost    *)
(* once: PlaceInv names the place that LinesKept counts.                   *)
(***************************************************************************)
THEOREM LinesNeverLost == Spec => []LinesKept
<1>1. PlaceInv => LinesKept  BY PlaceCounted DEF PlaceInv, LinesKept
<1> QED  BY <1>1, PlaceInit, PlaceStep, LogInvariant, PTL DEF Spec

-----------------------------------------------------------------------------
(* A worker that begins to write to a file books LIMIT + 1 lines in it; a  *)
(* booking has a number.  A worker that is past its first line has one of  *)
(* its own, of which the lines from the one its counter is at are free: a  *)
(* line written when no other file could be opened takes none.             *)
Writing(w, f) == fd[w] = f /\ size[w] > 0
Free(w) == (IF size[w] < LIMIT THEN size[w] ELSE LIMIT) .. LIMIT

Booked(f, own, used) ==
    /\ own \in [Workers -> Nat]
    /\ used \subseteq (1 .. begun[f]) \X (0 .. LIMIT)
    /\ Len(files[f]) <= Cardinality(used) + kept[f]
    /\ \A w \in Workers : Writing(w, f) =>
          own[w] \in 1 .. begun[f] /\ \A j \in Free(w) : <<own[w], j>> \notin used
    /\ \A v, w \in Workers : Writing(v, f) /\ Writing(w, f) /\ own[v] = own[w] => v = w

RoomInv == \A f \in Names \ {Printf} : \E own, used : Booked(f, own, used)

(* There are no more lines than the bookings have and the failures add.    *)
LEMMA BookedBounded ==
  ASSUME LogInv, NEW f \in Names, NEW own, NEW used, Booked(f, own, used)
  PROVE  Len(files[f]) <= begun[f] * (LIMIT + 1) + kept[f]
<1> DEFINE b == begun[f]
<1>1. b \in Nat /\ LIMIT \in Nat /\ kept[f] \in Nat /\ Len(files[f]) \in Nat
  BY BoundAssumption DEF LogInv, TypeOK
<1> HIDE DEF b
<1>2. IsFiniteSet(1 .. b) /\ Cardinality(1 .. b) = b
  <2>1. 1 \in Int /\ b \in Int  BY <1>1
  <2>2. IsFiniteSet(1 .. b) /\ Cardinality(1 .. b) = IF 1 > b THEN 0 ELSE b - 1 + 1
    BY <2>1, FS_Interval
  <2> QED  BY <1>1, <2>2
<1>3. IsFiniteSet(0 .. LIMIT) /\ Cardinality(0 .. LIMIT) = LIMIT + 1
  <2>1. 0 \in Int /\ LIMIT \in Int  BY <1>1
  <2>2. IsFiniteSet(0 .. LIMIT) /\ Cardinality(0 .. LIMIT) = IF 0 > LIMIT THEN 0 ELSE LIMIT - 0 + 1
    BY <2>1, FS_Interval
  <2> QED  BY <1>1, <2>2
<1>4. /\ IsFiniteSet((1 .. b) \X (0 .. LIMIT))
      /\ Cardinality((1 .. b) \X (0 .. LIMIT)) = b * (LIMIT + 1)
  <2>1. /\ IsFiniteSet((1 .. b) \X (0 .. LIMIT))
        /\ Cardinality((1 .. b) \X (0 .. LIMIT)) = Cardinality(1 .. b) * Cardinality(0 .. LIMIT)
    BY <1>2, <1>3, FS_Product, Zenon
  <2> QED  BY <1>2, <1>3, <2>1
<1>5. Cardinality(used) <= b * (LIMIT + 1) /\ Cardinality(used) \in Nat
  <2>1. used \subseteq (1 .. b) \X (0 .. LIMIT)  BY DEF Booked, b
  <2> QED  BY <1>4, <2>1, FS_Subset, FS_CardinalityType
<1>6. Len(files[f]) <= Cardinality(used) + kept[f]  BY DEF Booked
<1>7. b * (LIMIT + 1) \in Nat  BY <1>1
<1> QED  BY <1>1, <1>5, <1>6, <1>7 DEF b

LEMMA RoomInit == Init => RoomInv
<1> SUFFICES ASSUME Init, NEW f \in Names PROVE \E own, used : Booked(f, own, used)
  BY DEF RoomInv
<1> DEFINE none == [w \in Workers |-> 0]
<1>1. Cardinality({}) = 0  BY FS_EmptySet
<1>2. \A w \in Workers : ~Writing(w, f)  BY DEF Init, Writing
<1>3. Len(files[f]) = 0 /\ kept[f] = 0  BY DEF Init
<1>4. Booked(f, none, {})  BY <1>1, <1>2, <1>3 DEF Booked
<1> QED  BY <1>4

(* One more line, on a booking that is new or has room.                    *)
LEMMA LineBooked ==
  ASSUME LogInv, RoomInv, NEW w \in Workers, WriteLine(w), fd[w] # Printf,
         \/ size[w] + 1 <= LIMIT /\ size' = [size EXCEPT ![w] = @ + 1] /\ UNCHANGED <<fd, kept>>
         \/ /\ size[w] + 1 > LIMIT /\ size' = [size EXCEPT ![w] = 0]
            /\ \A v \in Workers \ {w} : fd'[v] = fd[v]
            /\ UNCHANGED kept
         \/ /\ size[w] + 1 > LIMIT /\ size' = [size EXCEPT ![w] = @ + 1]
            /\ kept' = [kept EXCEPT ![fd[w]] = @ + 1] /\ UNCHANGED fd
  PROVE  RoomInv'
<1>1. PICK g, s : g = fd[w] /\ s = size[w]  OBVIOUS
<1>0. /\ g \in Names \ {Printf} /\ s \in Nat /\ LIMIT \in Nat /\ begun[g] \in Nat /\ kept[g] \in Nat
      /\ fd \in [Workers -> Names] /\ size \in [Workers -> Nat] /\ files \in [Names -> Seq(Messages)]
      /\ begun \in [Names -> Nat] /\ kept \in [Names -> Nat]
  BY <1>1, BoundAssumption DEF LogInv, TypeOK
<1>4. /\ \A v \in Workers \ {w} : fd'[v] = fd[v] /\ size'[v] = size[v]
      /\ size'[w] # 0 => fd'[w] = g
  BY <1>0, <1>1
<1>2. ASSUME NEW f \in Names \ {Printf}, f # g PROVE \E own, used : Booked(f, own, used)'
  <2>1. PICK own, used : Booked(f, own, used)  BY DEF RoomInv
  <2>2. files'[f] = files[f] /\ begun'[f] = begun[f] /\ kept'[f] = kept[f]
    BY <1>0, <1>1, <1>2 DEF WriteLine
  <2>3. \A v \in Workers : Writing(v, f)' => v # w /\ Writing(v, f) /\ size'[v] = size[v]
    BY <1>2, <1>4 DEF Writing
  <2>4. \A v \in Workers : Writing(v, f)' => Free(v)' = Free(v)  BY <2>3 DEF Free
  <2>5. Booked(f, own, used)'  BY <2>1, <2>2, <2>3, <2>4 DEF Booked
  <2> QED  BY <2>5
<1>3. \E own, used : Booked(g, own, used)'
  <2>1. PICK own, used : Booked(g, own, used)  BY <1>0 DEF RoomInv
  <2>2. /\ begun'[g] = IF s = 0 THEN begun[g] + 1 ELSE begun[g]
        /\ Len(files'[g]) = Len(files[g]) + 1 /\ Len(files[g]) \in Nat
    <3>1. held[w] \in Messages /\ files[g] \in Seq(Messages)
      BY <1>0, <1>1 DEF WriteLine, HeldInOrder, LogInv
    <3> QED  BY <1>0, <1>1, <3>1, AppendProperties DEF WriteLine
  <2>16. PICK b, slot : /\ b = IF s = 0 THEN begun[g] + 1 ELSE own[w]
                        /\ slot = IF s < LIMIT THEN s ELSE LIMIT
    OBVIOUS
  <2>17. PICK mine, more : /\ mine = [own EXCEPT ![w] = b]
                           /\ more = used \cup {<<b, slot>>}
    OBVIOUS
  <2>3. b \in 1 .. begun'[g] /\ begun'[g] \in Nat /\ begun[g] <= begun'[g]
    BY <1>0, <1>1, <2>1, <2>2, <2>16 DEF Booked, Writing
  <2>4. mine \in [Workers -> Nat] /\ mine[w] = b /\ \A v \in Workers \ {w} : mine[v] = own[v]
    BY <2>1, <2>3, <2>17 DEF Booked
  <2>5. used \subseteq (1 .. begun[g]) \X (0 .. LIMIT)  BY <2>1 DEF Booked
  <2>6. used \subseteq (1 .. begun'[g]) \X (0 .. LIMIT)
    <3>1. 1 .. begun[g] \subseteq 1 .. begun'[g]  BY <1>0, <2>3
    <3> QED  BY <2>5, <3>1
  <2>7. IsFiniteSet(used) /\ Cardinality(used) \in Nat
    <3>1. IsFiniteSet(1 .. begun[g]) /\ IsFiniteSet(0 .. LIMIT)
      <4>1. 0 \in Int /\ 1 \in Int /\ LIMIT \in Int /\ begun[g] \in Int  BY <1>0
      <4> QED  BY <4>1, FS_Interval
    <3>2. IsFiniteSet((1 .. begun[g]) \X (0 .. LIMIT))  BY <3>1, FS_Product
    <3> QED  BY <2>5, <3>2, FS_Subset, FS_CardinalityType
  <2>8. slot \in 0 .. LIMIT /\ \A j \in slot .. LIMIT : <<b, j>> \notin used
    <3>1. slot \in 0 .. LIMIT  BY <1>0, <2>16
    <3>2. CASE s = 0  BY <1>0, <2>5, <2>16, <3>2
    <3>3. CASE s # 0
      <4>1. Writing(w, g) /\ Free(w) = slot .. LIMIT  BY <1>0, <1>1, <2>16, <3>3 DEF Writing, Free
      <4>2. \A j \in Free(w) : <<own[w], j>> \notin used  BY <2>1, <4>1 DEF Booked
      <4> QED  BY <2>16, <3>1, <3>3, <4>1, <4>2
    <3> QED  BY <3>1, <3>2, <3>3
  <2>9. more \subseteq (1 .. begun'[g]) \X (0 .. LIMIT) /\ Cardinality(more) = Cardinality(used) + 1
    <3>1. <<b, slot>> \notin used  BY <1>0, <2>8
    <3>2. Cardinality(more) = Cardinality(used) + 1  BY <2>7, <2>17, <3>1, FS_AddElement
    <3>3. <<b, slot>> \in (1 .. begun'[g]) \X (0 .. LIMIT)  BY <2>3, <2>8
    <3> QED  BY <2>6, <2>17, <3>2, <3>3
  <2>10. ASSUME NEW v \in Workers \ {w}, Writing(v, g)'
         PROVE  /\ Writing(v, g) /\ Free(v)' = Free(v) /\ mine[v] = own[v] /\ own[v] # b
                /\ own[v] \in 1 .. begun'[g]
                /\ \A j \in Free(v)' : <<own[v], j>> \notin used
    <3>1. Writing(v, g) /\ Free(v)' = Free(v)  BY <1>4, <2>10 DEF Writing, Free
    <3>2. own[v] \in 1 .. begun[g] /\ \A j \in Free(v) : <<own[v], j>> \notin used
      BY <2>1, <3>1 DEF Booked
    <3>3. own[v] # b
      <4>1. CASE s = 0  BY <1>0, <2>16, <3>2, <4>1
      <4>2. CASE s # 0
        <5>1. Writing(w, g)  BY <1>0, <1>1, <4>2 DEF Writing
        <5> QED  BY <2>1, <2>16, <3>1, <4>2, <5>1 DEF Booked
      <4> QED  BY <4>1, <4>2
    <3>4. own[v] \in 1 .. begun'[g]
      <4>1. 1 .. begun[g] \subseteq 1 .. begun'[g]  BY <1>0, <2>3
      <4> QED  BY <3>2, <4>1
    <3> QED  BY <2>4, <3>1, <3>2, <3>3, <3>4
  <2>12. \A v, u \in Workers : Writing(v, g)' /\ Writing(u, g)' /\ mine[v] = mine[u] => v = u
    <3>1. ASSUME NEW v \in Workers \ {w}, NEW u \in Workers \ {w},
                 Writing(v, g)', Writing(u, g)', mine[v] = mine[u]
          PROVE  v = u
      BY <2>1, <2>10, <3>1 DEF Booked
    <3> QED  BY <2>4, <2>10, <3>1
  <2>13. ASSUME NEW v \in Workers \ {w}, Writing(v, g)'
         PROVE  mine[v] \in 1 .. begun'[g] /\ \A j \in Free(v)' : <<mine[v], j>> \notin more
    BY <2>10, <2>13, <2>17
  <2>14. CASE size[w] + 1 <= LIMIT
    <3>1. size'[w] = s + 1 /\ kept' = kept /\ slot = s  BY <1>0, <1>1, <2>14, <2>16
    <3>2. Free(w)' \subseteq (s + 1) .. LIMIT  BY <1>0, <1>1, <2>14, <3>1 DEF Free
    <3>3. \A j \in Free(w)' : <<b, j>> \notin more  BY <1>0, <2>8, <2>17, <3>1, <3>2
    <3>4. Len(files'[g]) <= Cardinality(more) + kept'[g]
      BY <1>0, <2>1, <2>2, <2>7, <2>9, <3>1 DEF Booked
    <3>5. Booked(g, mine, more)'
      BY <2>3, <2>4, <2>9, <2>12, <2>13, <3>3, <3>4 DEF Booked
    <3> QED  BY <3>5
  <2>15. CASE size[w] + 1 > LIMIT /\ size' = [size EXCEPT ![w] = 0] /\ kept' = kept
    <3>1. ~Writing(w, g)'  BY <1>0, <2>15 DEF Writing
    <3>2. Len(files'[g]) <= Cardinality(more) + kept'[g]
      BY <1>0, <2>1, <2>2, <2>7, <2>9, <2>15 DEF Booked
    <3>3. Booked(g, mine, more)'
      BY <2>4, <2>9, <2>12, <2>13, <3>1, <3>2 DEF Booked
    <3> QED  BY <3>3
  <2>18. CASE size[w] + 1 > LIMIT /\ size' = [size EXCEPT ![w] = @ + 1]
              /\ kept' = [kept EXCEPT ![fd[w]] = @ + 1]
    <3>1. size'[w] = s + 1 /\ kept'[g] = kept[g] + 1 /\ slot = LIMIT  BY <1>0, <1>1, <2>16, <2>18
    <3>2. Free(w)' = slot .. LIMIT  BY <1>0, <1>1, <2>18, <3>1 DEF Free
    <3>3. Len(files'[g]) <= Cardinality(used) + kept'[g]
      BY <1>0, <2>1, <2>2, <2>7, <3>1 DEF Booked
    <3>4. \A v \in Workers \ {w} : Writing(v, g)' =>
             mine[v] \in 1 .. begun'[g] /\ \A j \in Free(v)' : <<mine[v], j>> \notin used
      BY <2>10
    <3>5. Booked(g, mine, used)'
      BY <2>3, <2>4, <2>6, <2>8, <2>12, <3>2, <3>3, <3>4 DEF Booked
    <3> QED  BY <3>5
  <2> QED  BY <2>14, <2>15, <2>18
<1> QED  BY <1>2, <1>3 DEF RoomInv

LEMMA RoomStep == LogInv /\ RoomInv /\ [Next]_vars => RoomInv'
<1> SUFFICES ASSUME LogInv, RoomInv, [Next]_vars PROVE RoomInv'  OBVIOUS
<1>1. ASSUME UNCHANGED <<files, begun, kept>>,
             \A w \in Workers : size'[w] # 0 => size'[w] = size[w] /\ fd'[w] = fd[w],
             size' \in [Workers -> Nat]
      PROVE  RoomInv'
  <2>1. ASSUME NEW f \in Names \ {Printf} PROVE \E own, used : Booked(f, own, used)'
    <3>1. PICK own, used : Booked(f, own, used)  BY DEF RoomInv
    <3>2. \A w \in Workers : Writing(w, f)' => Writing(w, f) /\ Free(w)' = Free(w)
      BY <1>1 DEF Writing, Free
    <3>3. Booked(f, own, used)'  BY <1>1, <3>1, <3>2 DEF Booked
    <3> QED  BY <3>3
  <2> QED  BY <2>1 DEF RoomInv
<1>2. CASE UNCHANGED <<fd, size, files, begun, kept>>
  BY <1>1, <1>2 DEF LogInv, TypeOK
<1>3. CASE UNCHANGED vars
  BY <1>2, <1>3 DEF vars
<1>4. ASSUME NEW d \in Datagrams, Arrive(d) \/ Vanish(d) PROVE RoomInv'
  BY <1>2, <1>4 DEF Arrive, Vanish, log
<1>5. CASE ClockTicks
  BY <1>2, <1>5 DEF ClockTicks, log
<1>6. ASSUME NEW w \in Workers, Wake(w) \/ Recv(w) \/ RecvAgain(w) \/ RecvEmpty(w) \/ Die(w)
      PROVE  RoomInv'
  BY <1>2, <1>6 DEF Wake, Recv, RecvAgain, RecvEmpty, Die, log
<1>7. ASSUME NEW w \in Workers, Log(w) \/ LogTurn(w) \/ LogTurnFails(w), fd[w] # Printf
      PROVE  RoomInv'
  <2>1. size[w] \in Nat /\ LIMIT \in Nat /\ fd \in [Workers -> Names]
    BY BoundAssumption DEF LogInv, TypeOK
  <2>2. CASE Log(w)
    <3>1. size' = [size EXCEPT ![w] = @ + 1] /\ size[w] + 1 <= LIMIT
      BY <1>7, <2>1, <2>2 DEF Log, Full
    <3> QED  BY <1>7, <2>2, <3>1, LineBooked DEF Log
  <2>3. CASE LogTurn(w)
    <3>1. \A v \in Workers \ {w} : fd'[v] = fd[v]  BY <2>1, <2>3 DEF LogTurn
    <3> QED  BY <1>7, <2>3, <3>1, LineBooked DEF LogTurn, Full
  <2>4. CASE LogTurnFails(w)
    BY <1>7, <2>4, LineBooked DEF LogTurnFails, Full
  <2> QED  BY <1>7, <2>2, <2>3, <2>4
(* The terminal has no room to keep.                                       *)
<1>8. ASSUME NEW w \in Workers, Log(w) \/ LogTurn(w) \/ LogTurnFails(w), fd[w] = Printf
      PROVE  RoomInv'
  <2>1. WriteLine(w) /\ size' = size /\ fd' = fd /\ kept' = kept
    <3>1. Log(w)  BY <1>8 DEF LogTurn, LogTurnFails, Full
    <3> QED  BY <1>8, <3>1 DEF Log, LogInv, TypeOK
  <2>2. ASSUME NEW f \in Names \ {Printf} PROVE \E own, used : Booked(f, own, used)'
    <3>1. PICK own, used : Booked(f, own, used)  BY DEF RoomInv
    <3>2. files'[f] = files[f] /\ begun'[f] = begun[f]
      BY <1>8, <2>1 DEF WriteLine, LogInv, TypeOK
    <3>3. \A v \in Workers : Writing(v, f)' = Writing(v, f) /\ Free(v)' = Free(v)
      BY <2>1 DEF Writing, Free
    <3>4. Booked(f, own, used)'  BY <2>1, <3>1, <3>2, <3>3 DEF Booked
    <3> QED  BY <3>4
  <2> QED  BY <2>2 DEF RoomInv
<1>9. ASSUME NEW w \in Workers, Respawn(w) PROVE RoomInv'
  BY <1>1, <1>9 DEF Respawn, LogInv, TypeOK
<1> QED  BY <1>3, <1>4, <1>5, <1>6, <1>7, <1>8, <1>9 DEF Next

(***************************************************************************)
(* Whatever file the workers turn to, and whenever, its length is bounded  *)
(* by how often a worker has begun to write to it.                         *)
(***************************************************************************)
THEOREM FilesAreBounded == Spec => []FileBounded
<1>1. LogInv /\ RoomInv => FileBounded  BY BookedBounded DEF RoomInv, FileBounded
<1> QED  BY <1>1, RoomInit, RoomStep, LogInvariant, PTL DEF Spec
=============================================================================
