--------------------------- MODULE AuthRemoteProofs ---------------------------
(***************************************************************************)
(* Proofs about AuthRemote for any servers and any number of commands: the *)
(* command thread always reads the head of the queue, requests carry what  *)
(* was given unless logging in was switched or a login command was freed   *)
(* early, and the queue implements RemoteCommands.                         *)
(***************************************************************************)
EXTENDS AuthRemote, SequenceTheorems, TLAPS

-----------------------------------------------------------------------------
(* The queue: the buffers up to n, as many as it is long. *)

Consecutive(q, n) ==
  /\ q \in Seq(Buffers)
  /\ n \in 0 .. MaxBuffers
  /\ Len(q) <= n
  /\ \A j \in 1 .. Len(q) : q[j] = n - Len(q) + j

LEMMA QueueElements ==
  ASSUME NEW q, NEW n, Consecutive(q, n)
  PROVE  /\ Len(q) \in Nat
         /\ ToSet(q) = n - Len(q) + 1 .. n
         /\ q # <<>> => Len(q) > 0 /\ Head(q) = n - Len(q) + 1
<1>1. Len(q) \in Nat /\ DOMAIN q = 1 .. Len(q) /\ n \in Nat
  BY LenProperties, RemoteAssumption DEF Consecutive, RemoteAssumption
<1>2. \A j \in 1 .. Len(q) : q[j] = n - Len(q) + j
  BY DEF Consecutive
<1>3. ToSet(q) = {q[j] : j \in 1 .. Len(q)}
  BY <1>1 DEF ToSet
<1>4. ASSUME NEW b \in n - Len(q) + 1 .. n PROVE b \in ToSet(q)
  <2>1. b - (n - Len(q)) \in 1 .. Len(q)
    BY <1>1
  <2>2. q[b - (n - Len(q))] = b
    BY <1>1, <1>2, <2>1
  <2> QED BY <1>3, <2>1, <2>2
<1>5. ASSUME NEW b \in ToSet(q) PROVE b \in n - Len(q) + 1 .. n
  BY <1>1, <1>2, <1>3
<1>6. q # <<>> => Len(q) > 0 /\ Head(q) = n - Len(q) + 1
  <2>1. q # <<>> => Len(q) > 0 /\ Head(q) = q[1]
    BY <1>1, EmptySeq, HeadTailProperties DEF Consecutive
  <2> QED BY <1>1, <1>2, <2>1
<1> QED BY <1>1, <1>4, <1>5, <1>6

LEMMA QueuePush ==
  ASSUME NEW q, NEW n, Consecutive(q, n), n < MaxBuffers
  PROVE  Consecutive(Append(q, n + 1), n + 1)
<1> DEFINE new == Append(q, n + 1)
<1>1. n + 1 \in Buffers /\ n + 1 \in 0 .. MaxBuffers /\ n \in Nat
  BY RemoteAssumption DEF RemoteAssumption, Consecutive, Buffers
<1>2. /\ new \in Seq(Buffers) /\ Len(new) = Len(q) + 1 /\ Len(q) \in Nat
      /\ \A j \in 1 .. Len(q) : new[j] = q[j]
      /\ new[Len(q) + 1] = n + 1
  BY <1>1, AppendProperties, LenProperties DEF Consecutive
<1> HIDE DEF new
<1>3. Len(q) <= n /\ \A j \in 1 .. Len(q) : q[j] = n - Len(q) + j
  BY DEF Consecutive
<1>4. ASSUME NEW j \in 1 .. Len(new) PROVE new[j] = (n + 1) - Len(new) + j
  <2>1. CASE j = Len(q) + 1
    BY <1>1, <1>2, <2>1
  <2>2. CASE j # Len(q) + 1
    <3>1. j \in 1 .. Len(q)
      BY <1>2, <2>2
    <3> QED BY <1>1, <1>2, <1>3, <3>1
  <2> QED BY <2>1, <2>2
<1>5. Len(new) <= n + 1
  BY <1>1, <1>2, <1>3
<1> QED BY <1>1, <1>2, <1>4, <1>5 DEF Consecutive, new

LEMMA QueuePop ==
  ASSUME NEW q, NEW n, Consecutive(q, n), q # <<>>
  PROVE  Consecutive(Tail(q), n) /\ ToSet(Tail(q)) = ToSet(q) \ {Head(q)}
<1> DEFINE new == Tail(q)
<1>1. n \in Nat /\ Len(q) \in Nat /\ Len(q) > 0
  BY QueueElements, RemoteAssumption DEF RemoteAssumption, Consecutive
<1>2. /\ new \in Seq(Buffers) /\ Len(new) = Len(q) - 1
      /\ \A j \in 1 .. Len(q) - 1 : new[j] = q[j + 1]
  BY <1>1, HeadTailProperties DEF Consecutive
<1> HIDE DEF new
<1>3. Len(q) <= n /\ \A j \in 1 .. Len(q) : q[j] = n - Len(q) + j
  BY DEF Consecutive
<1>4. ASSUME NEW j \in 1 .. Len(new) PROVE new[j] = n - Len(new) + j
  <2>1. j + 1 \in 1 .. Len(q) /\ new[j] = q[j + 1]
    BY <1>1, <1>2
  <2> QED BY <1>1, <1>2, <1>3, <2>1
<1>5. Consecutive(new, n)
  BY <1>1, <1>2, <1>3, <1>4 DEF Consecutive
<1>6. ToSet(new) = n - Len(new) + 1 .. n
  BY <1>5, QueueElements
<1>7. ToSet(q) = n - Len(q) + 1 .. n /\ Head(q) = n - Len(q) + 1
  BY <1>1, QueueElements
<1>8. ToSet(new) = ToSet(q) \ {Head(q)}
  BY <1>1, <1>2, <1>6, <1>7
<1> QED BY <1>5, <1>8 DEF new

-----------------------------------------------------------------------------
(* What the invariant says of the queue and of the threads. *)

LEMMA InvFacts ==
  ASSUME RemoteInv
  PROVE  /\ Consecutive(remoteCommandList, buffers)
         /\ ToSet(remoteCommandList) \subseteq 1 .. buffers
         /\ \A t \in Names : threads[t].at # "none" => threads[t].buffer \in 1 .. buffers
         /\ threads["command"].at # "none" => ~Freed(threads["command"].buffer)
<1>1. Consecutive(remoteCommandList, buffers)
  BY DEF RemoteInv, RemoteTypeOK, QueueConsecutive, Consecutive
<1>2. buffers \in Nat
  BY RemoteAssumption DEF RemoteAssumption, RemoteInv, RemoteTypeOK
<1>3. /\ Len(remoteCommandList) \in Nat
      /\ ToSet(remoteCommandList) = buffers - Len(remoteCommandList) + 1 .. buffers
      /\ remoteCommandList # <<>> =>
           Len(remoteCommandList) > 0 /\ Head(remoteCommandList) = buffers - Len(remoteCommandList) + 1
  BY <1>1, QueueElements
<1>4. Len(remoteCommandList) <= buffers
  BY <1>1 DEF Consecutive
<1>5. ToSet(remoteCommandList) \subseteq 1 .. buffers
  BY <1>2, <1>3, <1>4
<1>6. remoteCommandList # <<>> => Head(remoteCommandList) \in ToSet(remoteCommandList)
  BY <1>2, <1>3, <1>4
<1>7. threads["command"].at # "none" => threads["command"].buffer \in ToSet(remoteCommandList)
  BY <1>6 DEF RemoteInv, ThreadOnHead
<1>8. threads["login"].at # "none" => threads["login"].buffer \in 1 .. buffers
  BY DEF RemoteInv, ThreadOnHead
<1> QED BY <1>1, <1>5, <1>7, <1>8 DEF Names, Freed

(* A thread changed in place. *)
LEMMA NewThread ==
  ASSUME NEW f \in [Names -> Threads], NEW t \in Names, NEW T \in Threads
  PROVE  /\ [f EXCEPT ![t] = T] \in [Names -> Threads]
         /\ [f EXCEPT ![t] = T][t] = T
         /\ \A u \in Names \ {t} : [f EXCEPT ![t] = T][u] = f[u]
OBVIOUS

LEMMA ThreadTypes ==
  /\ NoThread \in Threads
  /\ \A b \in Buffers : \A T \in Started(b) :
       /\ T \in Threads /\ T.buffer = b /\ T.own /\ T.at \in {"start", "failed"}
<1>1. NoThread \in Threads
  BY RemoteAssumption DEF RemoteAssumption, NoThread, Threads
<1>2. ASSUME NEW b \in Buffers, NEW s \in {"start", "failed"}
      PROVE  [at |-> s, buffer |-> b, size |-> 0, server |-> NoServer, own |-> TRUE] \in Threads
  <2>1. b \in 0 .. MaxBuffers
    BY RemoteAssumption DEF RemoteAssumption, Buffers
  <2> QED BY <2>1 DEF Threads
<1>3. ASSUME NEW b \in Buffers, NEW T \in Started(b)
      PROVE  T \in Threads /\ T.buffer = b /\ T.own /\ T.at \in {"start", "failed"}
  <2>1. PICK s \in {"start", "failed"} :
           T = [at |-> s, buffer |-> b, size |-> 0, server |-> NoServer, own |-> TRUE]
    BY DEF Started
  <2>2. T \in Threads
    BY <1>2, <2>1
  <2>3. T.buffer = b /\ T.at = s
    BY <2>1
  <2>4. T.own
    BY <2>1
  <2> QED BY <2>2, <2>3, <2>4
<1> QED BY <1>1, <1>3

-----------------------------------------------------------------------------
(* What each action does to the invariant. *)

(* A command is queued: it is meant for the server there is. *)
LEMMA PushFacts ==
  ASSUME RemoteInv, NEW long \in BOOLEAN, Push(long), specialAuthRemote
  PROVE  /\ Consecutive(remoteCommandList', buffers')
         /\ buffers' = buffers + 1 /\ buffers \in Nat /\ buffers + 1 \in Buffers
         /\ overlong' \in SUBSET Buffers /\ overlong \subseteq overlong'
         /\ askedOf' \in [Buffers -> Servers \cup {NoServer}]
         /\ askedOf'[buffers + 1] = remoteCommand
         /\ \A b \in 1 .. buffers : askedOf'[b] = askedOf[b]
         /\ ToSet(remoteCommandList') = ToSet(remoteCommandList) \cup {buffers + 1}
         /\ remoteCommandList' # <<>>
         /\ remoteCommandList # <<>> => Head(remoteCommandList') = Head(remoteCommandList)
<1>1. /\ buffers' = buffers + 1 /\ buffers < MaxBuffers
      /\ remoteCommandList' = Append(remoteCommandList, buffers + 1)
      /\ overlong' = IF long THEN overlong \cup {buffers + 1} ELSE overlong
      /\ askedOf' = [askedOf EXCEPT ![buffers + 1] = remoteCommand]
  BY DEF Push
<1>2. buffers \in Nat /\ buffers + 1 \in Buffers /\ 1 .. buffers \subseteq Buffers
  BY <1>1, RemoteAssumption DEF RemoteAssumption, RemoteInv, RemoteTypeOK, Buffers
<1>3. Consecutive(remoteCommandList, buffers)
  BY InvFacts
<1>4. Consecutive(remoteCommandList', buffers')
  BY <1>1, <1>3, QueuePush
<1>5. overlong' \in SUBSET Buffers /\ overlong \subseteq overlong'
  BY <1>1, <1>2 DEF RemoteInv, RemoteTypeOK
<1>6. askedOf \in [Buffers -> Servers \cup {NoServer}] /\ remoteCommand \in Servers \cup {NoServer}
  BY DEF RemoteInv, RemoteTypeOK
<1>7. /\ askedOf' \in [Buffers -> Servers \cup {NoServer}]
      /\ askedOf'[buffers + 1] = remoteCommand
      /\ \A b \in 1 .. buffers : askedOf'[b] = askedOf[b]
  BY <1>1, <1>2, <1>6
<1>8. /\ Len(remoteCommandList) \in Nat /\ Len(remoteCommandList') = Len(remoteCommandList) + 1
      /\ Len(remoteCommandList) <= buffers
  BY <1>1, <1>2, <1>3, AppendProperties, LenProperties DEF Consecutive
<1>9. /\ ToSet(remoteCommandList) = buffers - Len(remoteCommandList) + 1 .. buffers
      /\ ToSet(remoteCommandList') = buffers' - Len(remoteCommandList') + 1 .. buffers'
      /\ remoteCommandList' # <<>> => Head(remoteCommandList') = buffers' - Len(remoteCommandList') + 1
      /\ remoteCommandList # <<>> => Head(remoteCommandList) = buffers - Len(remoteCommandList) + 1
  BY <1>3, <1>4, QueueElements
<1>10. remoteCommandList' # <<>>
  BY <1>8, EmptySeq
<1>11. ToSet(remoteCommandList') = ToSet(remoteCommandList) \cup {buffers + 1}
  BY <1>1, <1>2, <1>8, <1>9
<1>12. remoteCommandList # <<>> => Head(remoteCommandList') = Head(remoteCommandList)
  BY <1>1, <1>2, <1>8, <1>9, <1>10
<1> QED BY <1>1, <1>2, <1>4, <1>5, <1>7, <1>10, <1>11, <1>12

LEMMA CommandKeeps ==
  ASSUME RemoteInv, NEW long \in BOOLEAN, AccountCommand(long)
  PROVE  RemoteInv'
<1>1. /\ Push(long) /\ specialAuthRemote
      /\ UNCHANGED <<threads, results, remoteAuthUpdating, remoteAuthLoggingIn,
                     specialAuthorisation, remoteCommand, carried, pc, reported, fault,
                     outrun>>
  BY DEF AccountCommand, threadVars, flagVars, toggleVars
<1>2. /\ Consecutive(remoteCommandList', buffers')
      /\ buffers' = buffers + 1 /\ buffers \in Nat /\ buffers + 1 \in Buffers
      /\ overlong' \in SUBSET Buffers /\ overlong \subseteq overlong'
      /\ askedOf' \in [Buffers -> Servers \cup {NoServer}]
      /\ askedOf'[buffers + 1] = remoteCommand
      /\ \A b \in 1 .. buffers : askedOf'[b] = askedOf[b]
      /\ ToSet(remoteCommandList') = ToSet(remoteCommandList) \cup {buffers + 1}
      /\ remoteCommandList' # <<>>
      /\ remoteCommandList # <<>> => Head(remoteCommandList') = Head(remoteCommandList)
  BY <1>1, PushFacts
<1>3. /\ ToSet(remoteCommandList) \subseteq 1 .. buffers
      /\ \A t \in Names : threads[t].at # "none" => threads[t].buffer \in 1 .. buffers
  BY InvFacts
<1>4. RemoteTypeOK' /\ QueueConsecutive'
  BY <1>1, <1>2 DEF RemoteInv, RemoteTypeOK, QueueConsecutive, Consecutive
<1>5. ThreadOnHead'
  <2>1. 1 .. buffers \subseteq 1 .. buffers'
    BY <1>2
  <2> QED BY <1>1, <1>2, <2>1 DEF RemoteInv, ThreadOnHead
<1>6. MeantForThis'
  BY <1>1, <1>2, <1>3 DEF RemoteInv, MeantForThis, specialAuthRemote, Freed
<1>7. SentAsGiven'
  BY <1>1, <1>2, <1>3 DEF RemoteInv, SentAsGiven
<1>8. FaultExplained'
  BY <1>1, <1>2 DEF RemoteInv, FaultExplained
<1> QED BY <1>4, <1>5, <1>6, <1>7, <1>8 DEF RemoteInv

(* Logging in is switched: what is under way counts as carried. *)
LEMMA ToggleKeeps ==
  ASSUME RemoteInv, NEW server \in Servers \cup {NoServer}, authToggle(server)
  PROVE  RemoteInv'
<1>1. /\ UNCHANGED <<remoteCommandList, buffers, overlong, askedOf, threads, results,
                     remoteAuthUpdating, remoteAuthLoggingIn, pc, reported, fault, outrun>>
      /\ specialAuthorisation' \in BOOLEAN
      /\ remoteCommand' \in Servers \cup {NoServer}
      /\ carried' = IF remoteCommand' # remoteCommand THEN carried \cup UnderWay ELSE carried
  BY DEF authToggle, queueVars, threadVars, flagVars
<1>2. UnderWay \subseteq Buffers
  <2>1. 1 .. buffers \subseteq Buffers
    BY RemoteAssumption DEF RemoteAssumption, RemoteInv, RemoteTypeOK, Buffers
  <2> QED BY <2>1, InvFacts DEF UnderWay
<1>3. carried \subseteq carried' /\ carried' \in SUBSET Buffers
  BY <1>1, <1>2 DEF RemoteInv, RemoteTypeOK
<1>4. RemoteTypeOK' /\ QueueConsecutive' /\ ThreadOnHead'
  BY <1>1, <1>3 DEF RemoteInv, RemoteTypeOK, QueueConsecutive, ThreadOnHead
<1>5. MeantForThis'
  <2>1. CASE remoteCommand' = remoteCommand
    BY <1>1, <2>1 DEF RemoteInv, MeantForThis, specialAuthRemote, Freed
  <2>2. CASE remoteCommand' # remoteCommand
    <3>1. ToSet(remoteCommandList) \subseteq carried'
      BY <1>1, <2>2 DEF UnderWay
    <3>2. \A t \in Names : threads[t].at # "none" => threads[t].buffer \in carried'
      BY <1>1, <2>2 DEF UnderWay
    <3> QED BY <1>1, <3>1, <3>2 DEF RemoteInv, MeantForThis, Freed
  <2> QED BY <2>1, <2>2
<1>6. SentAsGiven' /\ FaultExplained'
  BY <1>1, <1>3 DEF RemoteInv, SentAsGiven, FaultExplained
<1> QED BY <1>4, <1>5, <1>6 DEF RemoteInv

(* A step of a thread t to the record T: the conjuncts it may disturb. *)
LEMMA ThreadKeeps ==
  ASSUME RemoteInv, NEW t \in Names, NEW T \in Threads,
         threads[t].at # "none", T.at # "none", T.buffer = threads[t].buffer,
         threads' = [threads EXCEPT ![t] = T],
         results' \in [Names -> BOOLEAN],
         UNCHANGED <<queueVars, flagVars, toggleVars, pc, reported, outrun, fault>>,
         T.at # "start",
         T.at = "sized" =>
           /\ T.own \/ (t = "login" /\ T.buffer \in outrun)
           /\ T.buffer \notin carried =>
                specialAuthRemote /\ askedOf[T.buffer] = remoteCommand
                  /\ T.size = UrlLength[remoteCommand],
         T.at \in {"wait", "done"} =>
           /\ T.own \/ (t = "login" /\ T.buffer \in outrun)
           /\ T.server = askedOf[T.buffer] \/ T.buffer \in carried
  PROVE  RemoteInv'
<1>1. /\ threads' \in [Names -> Threads]
      /\ threads'[t] = T
      /\ \A u \in Names \ {t} : threads'[u] = threads[u]
  BY NewThread DEF RemoteInv, RemoteTypeOK
<1>2. UNCHANGED <<remoteCommandList, buffers, overlong, askedOf, remoteAuthUpdating,
                  remoteAuthLoggingIn, specialAuthorisation, remoteCommand, carried>>
  BY DEF queueVars, flagVars, toggleVars
<1>3. RemoteTypeOK' /\ QueueConsecutive'
  BY <1>1, <1>2 DEF RemoteInv, RemoteTypeOK, QueueConsecutive
<1>4. \A u \in Names : threads'[u].buffer = threads[u].buffer
                       /\ (threads'[u].at = "none" <=> threads[u].at = "none")
  BY <1>1
<1>5. ThreadOnHead'
  BY <1>2, <1>4 DEF RemoteInv, ThreadOnHead, Names
<1>6. MeantForThis'
  <2>1. \A b \in ToSet(remoteCommandList)' \ carried' : askedOf'[b] = remoteCommand'
    BY <1>2 DEF RemoteInv, MeantForThis
  <2>2. ASSUME NEW u \in Names
        PROVE  LET U == threads'[u] IN
                 /\ U.at \in {"start", "sized"} /\ U.buffer \notin carried =>
                      specialAuthRemote /\ askedOf[U.buffer] = remoteCommand
                 /\ U.at = "sized" /\ U.buffer \notin carried => U.size = UrlLength[remoteCommand]
                 /\ U.at = "sized" => U.own \/ (u = "login" /\ U.buffer \in outrun)
    BY <1>1 DEF RemoteInv, MeantForThis
  <2>3. threads'["login"].at = "start" /\ Freed(threads'["login"].buffer) =>
          threads'["login"].buffer \in outrun
    BY <1>1, <1>4 DEF RemoteInv, MeantForThis, Names
  <2> QED BY <1>2, <2>1, <2>2, <2>3 DEF MeantForThis, specialAuthRemote, Freed
<1>7. SentAsGiven'
  <2>1. ASSUME NEW u \in Names
        PROVE  LET U == threads'[u] IN
                 U.at \in {"wait", "done"} =>
                   /\ U.own \/ (u = "login" /\ U.buffer \in outrun)
                   /\ U.server = askedOf[U.buffer] \/ U.buffer \in carried
    BY <1>1 DEF RemoteInv, SentAsGiven
  <2> QED BY <1>2, <2>1 DEF SentAsGiven
<1>8. FaultExplained'
  BY <1>2 DEF RemoteInv, FaultExplained
<1> QED BY <1>3, <1>5, <1>6, <1>7, <1>8 DEF RemoteInv

(* A thread that faults leaves everything else as it is. *)
LEMMA CrashKeeps ==
  ASSUME RemoteInv, NEW t \in Names, NEW what \in {"server", "command", "answer"},
         threads[t].at # "none", Crash(t, what), ThreadUnchanged,
         what = "server" => threads[t].buffer \in carried,
         what = "command" => threads[t].buffer \in outrun
  PROVE  RemoteInv'
<1>1. /\ UNCHANGED <<remoteCommandList, buffers, overlong, askedOf, remoteAuthUpdating, threads,
                     results, remoteAuthLoggingIn, specialAuthorisation, remoteCommand, carried,
                     pc, reported, outrun>>
      /\ fault' = <<what, threads[t].buffer>>
  BY DEF Crash, ThreadUnchanged, queueVars, threadVars, flagVars, toggleVars
<1>2. threads[t].buffer \in Buffers
  <2>1. 1 .. buffers \subseteq Buffers
    BY RemoteAssumption DEF RemoteAssumption, RemoteInv, RemoteTypeOK, Buffers
  <2> QED BY <2>1, InvFacts
<1>3. fault' \in Faults
  BY <1>1, <1>2 DEF Faults
<1>4. RemoteTypeOK' /\ QueueConsecutive' /\ ThreadOnHead'
  BY <1>1, <1>3 DEF RemoteInv, RemoteTypeOK, QueueConsecutive, ThreadOnHead
<1>5. MeantForThis' /\ SentAsGiven'
  BY <1>1 DEF RemoteInv, MeantForThis, SentAsGiven, specialAuthRemote, Freed
<1>6. FaultExplained'
  BY <1>1 DEF FaultExplained
<1> QED BY <1>4, <1>5, <1>6 DEF RemoteInv

LEMMA SizesKeeps ==
  ASSUME RemoteInv, NEW t \in Names, ThreadSizes(t)
  PROVE  RemoteInv'
<1>1. /\ threads[t].at = "start" /\ ThreadUnchanged
      /\ threads \in [Names -> Threads] /\ threads[t] \in Threads
  BY DEF ThreadSizes, RemoteInv, RemoteTypeOK
<1>2. t = "command" => ~Freed(threads[t].buffer)
  BY <1>1, InvFacts
<1>3. t = "login" /\ Freed(threads[t].buffer) => threads[t].buffer \in outrun
  BY <1>1 DEF RemoteInv, MeantForThis
<1>4. threads[t].buffer \notin carried => specialAuthRemote /\ askedOf[threads[t].buffer] = remoteCommand
  BY <1>1 DEF RemoteInv, MeantForThis
<1>5. CASE ~specialAuthRemote /\ Crash(t, "server")
  BY <1>1, <1>4, <1>5, CrashKeeps
<1>c. CASE Freed(threads[t].buffer) /\ Crash(t, "command")
  BY <1>1, <1>2, <1>3, <1>c, CrashKeeps DEF Names
<1>6. CASE /\ specialAuthRemote
           /\ \E own \in IF Freed(threads[t].buffer) THEN BOOLEAN ELSE {TRUE} :
                threads' = [threads EXCEPT ![t].at = "sized", ![t].own = own,
                                           ![t].size = UrlLength[remoteCommand]]
           /\ UNCHANGED <<results, fault>>
  <2>1. PICK own \in IF Freed(threads[t].buffer) THEN BOOLEAN ELSE {TRUE} :
                threads' = [threads EXCEPT ![t].at = "sized", ![t].own = own,
                                           ![t].size = UrlLength[remoteCommand]]
    BY <1>6
  <2> DEFINE T == [threads[t] EXCEPT !.at = "sized", !.own = own,
                                     !.size = UrlLength[remoteCommand]]
  <2>2. UrlLength[remoteCommand] \in Nat
    BY <1>6, RemoteAssumption DEF RemoteAssumption, specialAuthRemote, RemoteInv, RemoteTypeOK
  <2>3. T \in Threads
    BY <1>1, <2>2 DEF Threads
  <2>4. threads' = [threads EXCEPT ![t] = T]
    BY <1>1, <2>1
  <2>5. own \/ (t = "login" /\ threads[t].buffer \in outrun)
    BY <1>2, <1>3 DEF Names
  <2>6. /\ T.at = "sized" /\ T.buffer = threads[t].buffer /\ T.own = own
        /\ T.size = UrlLength[remoteCommand]
    BY <1>1 DEF Threads
  <2>7. results' \in [Names -> BOOLEAN]
    BY <1>6 DEF RemoteInv, RemoteTypeOK
  <2>8. UNCHANGED <<queueVars, flagVars, toggleVars, pc, reported, outrun, fault>>
    BY <1>1, <1>6 DEF ThreadUnchanged
  <2> HIDE DEF T
  <2> QED BY <1>1, <1>4, <1>6, <2>3, <2>4, <2>5, <2>6, <2>7, <2>8, ThreadKeeps
<1> QED BY <1>1, <1>5, <1>c, <1>6 DEF ThreadSizes

LEMMA CopiesKeeps ==
  ASSUME RemoteInv, NEW t \in Names, ThreadCopies(t)
  PROVE  RemoteInv'
<1>1. /\ threads[t].at = "sized" /\ ThreadUnchanged
      /\ threads \in [Names -> Threads] /\ threads[t] \in Threads
  BY DEF ThreadCopies, RemoteInv, RemoteTypeOK
<1>2. /\ threads[t].own \/ (t = "login" /\ threads[t].buffer \in outrun)
      /\ threads[t].buffer \notin carried =>
           /\ specialAuthRemote /\ askedOf[threads[t].buffer] = remoteCommand
           /\ threads[t].size = UrlLength[remoteCommand]
  BY <1>1 DEF RemoteInv, MeantForThis
<1>3. CASE Crash(t, "server") /\ (specialAuthRemote => UrlLength[remoteCommand] > threads[t].size)
  <2>1. ASSUME specialAuthRemote PROVE ~(UrlLength[remoteCommand] > UrlLength[remoteCommand])
    <3>1. UrlLength[remoteCommand] \in Nat
      BY <2>1, RemoteAssumption DEF RemoteAssumption, specialAuthRemote, RemoteInv, RemoteTypeOK
    <3> QED BY <3>1
  <2>2. threads[t].buffer \in carried
    BY <1>2, <1>3, <2>1
  <2> QED BY <1>1, <1>3, <2>2, CrashKeeps
<1>4. CASE /\ specialAuthRemote
           /\ threads' = [threads EXCEPT ![t].at = "wait", ![t].server = remoteCommand]
           /\ UNCHANGED <<results, fault>>
  <2> DEFINE T == [threads[t] EXCEPT !.at = "wait", !.server = remoteCommand]
  <2>1. T \in Threads
    BY <1>1 DEF Threads, RemoteInv, RemoteTypeOK
  <2>2. threads' = [threads EXCEPT ![t] = T]
    BY <1>1, <1>4
  <2>3. /\ T.at = "wait" /\ T.buffer = threads[t].buffer /\ T.own = threads[t].own
        /\ T.server = remoteCommand
    BY <1>1 DEF Threads
  <2>4. results' \in [Names -> BOOLEAN]
    BY <1>4 DEF RemoteInv, RemoteTypeOK
  <2>5. UNCHANGED <<queueVars, flagVars, toggleVars, pc, reported, outrun, fault>>
    BY <1>1, <1>4 DEF ThreadUnchanged
  <2> HIDE DEF T
  <2> QED BY <1>1, <1>2, <2>1, <2>2, <2>3, <2>4, <2>5, ThreadKeeps
<1> QED BY <1>3, <1>4 DEF ThreadCopies

LEMMA EndsKeeps ==
  ASSUME RemoteInv, NEW t \in Names, ThreadEnds(t), ~Crash(t, "answer")
  PROVE  RemoteInv'
<1>1. /\ threads[t].at = "wait" /\ ThreadUnchanged /\ UNCHANGED fault
      /\ threads \in [Names -> Threads] /\ threads[t] \in Threads
      /\ results \in [Names -> BOOLEAN]
      /\ \E ok \in BOOLEAN : results' = [results EXCEPT ![t] = ok]
      /\ threads' = [threads EXCEPT ![t].at = "done"]
  BY DEF ThreadEnds, ThreadGoes, RemoteInv, RemoteTypeOK
<1>2. /\ threads[t].own \/ (t = "login" /\ threads[t].buffer \in outrun)
      /\ threads[t].server = askedOf[threads[t].buffer] \/ threads[t].buffer \in carried
  BY <1>1 DEF RemoteInv, SentAsGiven
<1> DEFINE T == [threads[t] EXCEPT !.at = "done"]
<1>3. T \in Threads
  BY <1>1 DEF Threads
<1>4. threads' = [threads EXCEPT ![t] = T]
  BY <1>1
<1>5. /\ T.at = "done" /\ T.buffer = threads[t].buffer /\ T.own = threads[t].own
      /\ T.server = threads[t].server
  BY <1>1 DEF Threads
<1>6. results' \in [Names -> BOOLEAN]
  BY <1>1
<1>7. UNCHANGED <<queueVars, flagVars, toggleVars, pc, reported, outrun, fault>>
  BY <1>1 DEF ThreadUnchanged
<1> HIDE DEF T
<1> QED BY <1>1, <1>2, <1>3, <1>4, <1>5, <1>6, <1>7, ThreadKeeps

LEMMA StepKeeps ==
  ASSUME RemoteInv, NEW t \in Names, ThreadStep(t)
  PROVE  RemoteInv'
<1>1. CASE ThreadEnds(t) /\ Crash(t, "answer")
  BY <1>1, CrashKeeps DEF ThreadEnds
<1> QED BY <1>1, SizesKeeps, CopiesKeeps, EndsKeeps DEF ThreadStep

(* A login is checked: its command is queued and a thread made for it. *)
LEMMA LoginStartsKeeps ==
  ASSUME RemoteInv, LoginStarts, pc' = "report",
         UNCHANGED <<toggleVars, results, remoteAuthUpdating, reported, fault, outrun>>
  PROVE  RemoteInv'
<1>1. /\ specialAuthRemote /\ remoteAuthLoggingIn' = TRUE
      /\ \E long \in BOOLEAN : Push(long)
      /\ UNCHANGED <<specialAuthorisation, remoteCommand, carried>>
  BY DEF LoginStarts, toggleVars
<1>2. /\ Consecutive(remoteCommandList', buffers')
      /\ buffers' = buffers + 1 /\ buffers \in Nat /\ buffers + 1 \in Buffers
      /\ overlong' \in SUBSET Buffers /\ overlong \subseteq overlong'
      /\ askedOf' \in [Buffers -> Servers \cup {NoServer}]
      /\ askedOf'[buffers + 1] = remoteCommand
      /\ \A b \in 1 .. buffers : askedOf'[b] = askedOf[b]
      /\ ToSet(remoteCommandList') = ToSet(remoteCommandList) \cup {buffers + 1}
      /\ remoteCommandList' # <<>>
      /\ remoteCommandList # <<>> => Head(remoteCommandList') = Head(remoteCommandList)
  BY <1>1, PushFacts
<1>3. /\ ToSet(remoteCommandList) \subseteq 1 .. buffers
      /\ \A t \in Names : threads[t].at # "none" => threads[t].buffer \in 1 .. buffers
  BY InvFacts
<1>4. PICK new \in Started(buffers + 1) : threads' = [threads EXCEPT !["login"] = new]
  BY DEF LoginStarts
<1>5. new \in Threads /\ new.buffer = buffers + 1 /\ new.own /\ new.at \in {"start", "failed"}
  BY <1>2, <1>4, ThreadTypes
<1>6. /\ threads' \in [Names -> Threads] /\ threads'["login"] = new
      /\ threads'["command"] = threads["command"]
  BY <1>4, <1>5, NewThread DEF RemoteInv, RemoteTypeOK, Names
<1>7. RemoteTypeOK' /\ QueueConsecutive'
  BY <1>1, <1>2, <1>6 DEF RemoteInv, RemoteTypeOK, QueueConsecutive, Consecutive
<1>8. ThreadOnHead'
  <2>1. buffers + 1 \in 1 .. buffers'
    BY <1>2
  <2> QED BY <1>1, <1>2, <1>5, <1>6, <2>1 DEF RemoteInv, ThreadOnHead
<1>9. MeantForThis'
  <2>1. \A b \in ToSet(remoteCommandList)' \ carried' : askedOf'[b] = remoteCommand'
    BY <1>1, <1>2, <1>3 DEF RemoteInv, MeantForThis
  <2>2. LET U == threads["command"] IN
          /\ U.at \in {"start", "sized"} /\ U.buffer \notin carried' =>
               specialAuthRemote' /\ askedOf'[U.buffer] = remoteCommand'
          /\ U.at = "sized" /\ U.buffer \notin carried' => U.size = UrlLength[remoteCommand']
          /\ U.at = "sized" => U.own
    BY <1>1, <1>2, <1>3 DEF RemoteInv, MeantForThis, specialAuthRemote, Names
  <2>3. ~Freed(new.buffer)'
    BY <1>2, <1>5 DEF Freed
  <2> QED BY <1>1, <1>2, <1>5, <1>6, <2>1, <2>2, <2>3
           DEF MeantForThis, specialAuthRemote, Names, Freed
<1>10. SentAsGiven'
  <2>1. \A b \in 1 .. buffers : askedOf'[b] = askedOf[b]
    BY <1>2
  <2>2. LET U == threads["command"] IN
          U.at \in {"wait", "done"} => U.own /\ (U.server = askedOf'[U.buffer] \/ U.buffer \in carried)
    BY <1>3, <2>1 DEF RemoteInv, SentAsGiven, Names
  <2> QED BY <1>1, <1>5, <1>6, <2>2 DEF SentAsGiven, Names
<1>11. FaultExplained'
  BY <1>1, <1>2 DEF RemoteInv, FaultExplained
<1> QED BY <1>7, <1>8, <1>9, <1>10, <1>11 DEF RemoteInv

(* No login is started: a thread that ended is collected, or nothing.      *)
LEMMA LoginStartsNotKeeps ==
  ASSUME RemoteInv, LoginStartsNot, pc' = "report",
         UNCHANGED <<toggleVars, results, remoteAuthUpdating, reported, fault, outrun>>
  PROVE  RemoteInv'
<1>1. UNCHANGED <<specialAuthorisation, remoteCommand, carried, remoteCommandList, buffers,
                  overlong, askedOf>>
  BY DEF LoginStartsNot, toggleVars, queueVars
<1>2. CASE UNCHANGED <<threads, remoteAuthLoggingIn>>
  <2>1. RemoteTypeOK' /\ QueueConsecutive' /\ ThreadOnHead'
    BY <1>1, <1>2 DEF RemoteInv, RemoteTypeOK, QueueConsecutive, ThreadOnHead
  <2>2. MeantForThis' /\ SentAsGiven' /\ FaultExplained'
    BY <1>1, <1>2
    DEF RemoteInv, MeantForThis, SentAsGiven, FaultExplained, specialAuthRemote, Freed
  <2> QED BY <2>1, <2>2 DEF RemoteInv
<1>3. CASE /\ remoteAuthLoggingIn' = FALSE
           /\ threads' = [threads EXCEPT !["login"] = NoThread]
  <2>1. /\ threads' \in [Names -> Threads] /\ threads'["login"] = NoThread
        /\ threads'["command"] = threads["command"]
    BY <1>3, NewThread, ThreadTypes DEF RemoteInv, RemoteTypeOK, Names
  <2>2. NoThread.at = "none"
    BY DEF NoThread
  <2>3. RemoteTypeOK' /\ QueueConsecutive' /\ ThreadOnHead'
    BY <1>1, <1>3, <2>1, <2>2 DEF RemoteInv, RemoteTypeOK, QueueConsecutive, ThreadOnHead
  <2>4. MeantForThis' /\ SentAsGiven' /\ FaultExplained'
    BY <1>1, <2>1, <2>2
    DEF RemoteInv, MeantForThis, SentAsGiven, FaultExplained, specialAuthRemote, Freed, Names
  <2> QED BY <2>3, <2>4 DEF RemoteInv
<1> QED BY <1>2, <1>3 DEF LoginStartsNot

(* The head is reported and freed: a login thread that has not read it has *)
(* been outrun.                                                            *)
LEMMA ReportHeadKeeps ==
  ASSUME RemoteInv, ReportHead, pc' = "start",
         remoteAuthUpdating, threads["command"].at = "done",
         UNCHANGED <<toggleVars, buffers, overlong, askedOf, results, remoteAuthLoggingIn>>
  PROVE  RemoteInv'
<1> DEFINE head == Head(remoteCommandList)
<1>1. /\ reported' = <<head, results["command"]>>
      /\ remoteCommandList' = Tail(remoteCommandList)
      /\ threads' = [threads EXCEPT !["command"] = NoThread]
      /\ remoteAuthUpdating' = FALSE
      /\ outrun' = IF threads["login"].at = "start" /\ threads["login"].buffer = head
                     THEN outrun \cup {head} ELSE outrun
      /\ fault' = fault
      /\ UNCHANGED <<specialAuthorisation, remoteCommand, carried>>
  BY DEF ReportHead, toggleVars
<1>2. remoteCommandList # <<>> /\ Consecutive(remoteCommandList, buffers)
  BY InvFacts DEF RemoteInv, ThreadOnHead
<1>3. /\ Consecutive(remoteCommandList', buffers')
      /\ ToSet(remoteCommandList') = ToSet(remoteCommandList) \ {head}
  BY <1>1, <1>2, QueuePop
<1>4. head \in Buffers
  BY <1>2, HeadTailProperties, EmptySeq DEF Consecutive
<1> HIDE DEF head
<1>5. outrun' \in SUBSET Buffers /\ outrun \subseteq outrun'
  BY <1>1, <1>4 DEF RemoteInv, RemoteTypeOK
<1>6. /\ threads' \in [Names -> Threads] /\ threads'["command"] = NoThread
      /\ threads'["login"] = threads["login"]
  BY <1>1, NewThread, ThreadTypes DEF RemoteInv, RemoteTypeOK, Names
<1>7. NoThread.at = "none"
  BY DEF NoThread
<1>8. reported' \in (Buffers \X BOOLEAN) \cup {Nothing}
  BY <1>1, <1>4 DEF RemoteInv, RemoteTypeOK, Names
<1>9. RemoteTypeOK' /\ QueueConsecutive'
  BY <1>1, <1>3, <1>5, <1>6, <1>8 DEF RemoteInv, RemoteTypeOK, QueueConsecutive, Consecutive
<1>10. ThreadOnHead'
  BY <1>1, <1>6, <1>7 DEF RemoteInv, ThreadOnHead
<1>11. MeantForThis'
  <2>1. \A b \in ToSet(remoteCommandList)' \ carried' : askedOf'[b] = remoteCommand'
    BY <1>1, <1>3 DEF RemoteInv, MeantForThis
  <2>2. LET U == threads["login"] IN
          /\ U.at \in {"start", "sized"} /\ U.buffer \notin carried' =>
               specialAuthRemote' /\ askedOf'[U.buffer] = remoteCommand'
          /\ U.at = "sized" /\ U.buffer \notin carried' => U.size = UrlLength[remoteCommand']
          /\ U.at = "sized" => U.own \/ U.buffer \in outrun'
    BY <1>1, <1>5 DEF RemoteInv, MeantForThis, specialAuthRemote, Names
  <2>3. threads["login"].at = "start" /\ Freed(threads["login"].buffer)' =>
          threads["login"].buffer \in outrun'
    <3>1. CASE Freed(threads["login"].buffer)
      BY <1>5, <3>1 DEF RemoteInv, MeantForThis
    <3>2. CASE threads["login"].buffer = head
      BY <1>1, <3>2
    <3> QED BY <1>3, <1>6, <3>1, <3>2 DEF Freed
  <2> QED BY <1>6, <1>7, <2>1, <2>2, <2>3 DEF MeantForThis, Names, Freed
<1>12. SentAsGiven'
  <2>1. LET U == threads["login"] IN
          U.at \in {"wait", "done"} =>
            /\ U.own \/ U.buffer \in outrun'
            /\ U.server = askedOf'[U.buffer] \/ U.buffer \in carried'
    BY <1>1, <1>5 DEF RemoteInv, SentAsGiven, Names
  <2> QED BY <1>6, <1>7, <2>1 DEF SentAsGiven, Names
<1>13. FaultExplained'
  BY <1>1, <1>5 DEF RemoteInv, FaultExplained
<1> QED BY <1>9, <1>10, <1>11, <1>12, <1>13 DEF RemoteInv

LEMMA ReportKeeps ==
  ASSUME RemoteInv, ReportCommand
  PROVE  RemoteInv'
<1>1. /\ pc' = "start"
      /\ UNCHANGED <<toggleVars, buffers, overlong, askedOf, results, remoteAuthLoggingIn>>
      /\ UNCHANGED <<specialAuthorisation, remoteCommand, carried>>
  BY DEF ReportCommand, toggleVars
<1>2. CASE ReportHead /\ remoteAuthUpdating /\ threads["command"].at = "done"
  BY <1>1, <1>2, ReportHeadKeeps
<1>3. CASE /\ FaultExplained'
           /\ fault' \in Faults \cup {NoFault}
           /\ UNCHANGED <<threads, remoteCommandList, remoteAuthUpdating, reported, outrun>>
  <2>1. RemoteTypeOK' /\ QueueConsecutive' /\ ThreadOnHead'
    BY <1>1, <1>3 DEF RemoteInv, RemoteTypeOK, QueueConsecutive, ThreadOnHead
  <2>2. MeantForThis' /\ SentAsGiven'
    BY <1>1, <1>3 DEF RemoteInv, MeantForThis, SentAsGiven, specialAuthRemote, Freed
  <2> QED BY <1>3, <2>1, <2>2 DEF RemoteInv
<1>4. CASE ReportOverruns
  <2>1. fault' = <<"report", Head(remoteCommandList)>> /\ Head(remoteCommandList) \in overlong
    BY <1>4 DEF ReportOverruns
  <2>2. fault' \in Faults
    BY <2>1 DEF Faults, RemoteInv, RemoteTypeOK
  <2>3. FaultExplained'
    BY <2>1 DEF FaultExplained
  <2> QED BY <1>1, <1>3, <1>4, <2>2, <2>3 DEF ReportOverruns
<1>5. CASE UNCHANGED <<threads, remoteCommandList, remoteAuthUpdating, reported, outrun,
                       fault>>
  BY <1>1, <1>3, <1>5 DEF RemoteInv, RemoteTypeOK, FaultExplained
<1> QED BY <1>2, <1>4, <1>5 DEF ReportCommand

LEMMA StartKeeps ==
  ASSUME RemoteInv, StartCommand
  PROVE  RemoteInv'
<1>1. /\ pc' = "frame"
      /\ UNCHANGED <<remoteCommandList, buffers, overlong, askedOf, results,
                     specialAuthorisation, remoteCommand, carried, remoteAuthLoggingIn,
                     reported, fault, outrun>>
  BY DEF StartCommand, queueVars, toggleVars
<1>2. CASE UNCHANGED <<threads, remoteAuthUpdating>>
  <2>1. RemoteTypeOK' /\ QueueConsecutive' /\ ThreadOnHead'
    BY <1>1, <1>2 DEF RemoteInv, RemoteTypeOK, QueueConsecutive, ThreadOnHead
  <2>2. MeantForThis' /\ SentAsGiven' /\ FaultExplained'
    BY <1>1, <1>2
    DEF RemoteInv, MeantForThis, SentAsGiven, FaultExplained, specialAuthRemote, Freed
  <2> QED BY <2>1, <2>2 DEF RemoteInv
<1>3. CASE /\ specialAuthRemote /\ remoteCommandList # <<>> /\ ~remoteAuthUpdating
           /\ \E new \in Started(NextCommand) : threads' = [threads EXCEPT !["command"] = new]
           /\ remoteAuthUpdating' = TRUE
  <2>1. Consecutive(remoteCommandList, buffers)
    BY InvFacts
  <2>2. NextCommand \in Buffers /\ NextCommand \in ToSet(remoteCommandList)
    <3>1. /\ remoteCommandList \in Seq(Buffers) /\ Len(remoteCommandList) > 0
          /\ Head(remoteCommandList) = remoteCommandList[1]
          /\ DOMAIN remoteCommandList = 1 .. Len(remoteCommandList)
      BY <1>3, <2>1, HeadTailProperties, LenProperties, EmptySeq DEF Consecutive
    <3>2. 1 \in DOMAIN remoteCommandList
      BY <3>1, LenProperties
    <3> QED BY <3>1, <3>2, HeadTailProperties DEF NextCommand, ToSet
  <2>3. PICK new \in Started(NextCommand) : threads' = [threads EXCEPT !["command"] = new]
    BY <1>3
  <2>4. new \in Threads /\ new.buffer = NextCommand /\ new.own /\ new.at \in {"start", "failed"}
    BY <2>2, <2>3, ThreadTypes
  <2>5. /\ threads' \in [Names -> Threads] /\ threads'["command"] = new
        /\ threads'["login"] = threads["login"]
    BY <2>3, <2>4, NewThread DEF RemoteInv, RemoteTypeOK, Names
  <2>6. RemoteTypeOK' /\ QueueConsecutive'
    BY <1>1, <1>3, <2>5 DEF RemoteInv, RemoteTypeOK, QueueConsecutive
  <2>7. ThreadOnHead'
    BY <1>1, <1>3, <2>4, <2>5 DEF RemoteInv, ThreadOnHead, NextCommand
  <2>8. MeantForThis'
    <3>1. NextCommand \notin carried => askedOf[NextCommand] = remoteCommand
      BY <2>2 DEF RemoteInv, MeantForThis
    <3> QED BY <1>1, <1>3, <2>4, <2>5, <3>1
             DEF RemoteInv, MeantForThis, specialAuthRemote, Freed, Names
  <2>9. SentAsGiven' /\ FaultExplained'
    BY <1>1, <2>4, <2>5 DEF RemoteInv, SentAsGiven, FaultExplained, Names
  <2> QED BY <2>6, <2>7, <2>8, <2>9 DEF RemoteInv
<1> QED BY <1>2, <1>3 DEF StartCommand

-----------------------------------------------------------------------------
(* The invariant. *)

LEMMA InitInv == RemoteInit => RemoteInv
<1> SUFFICES ASSUME RemoteInit PROVE RemoteInv
  OBVIOUS
<1>1. NoThread \in Threads /\ NoThread.at = "none"
  BY ThreadTypes DEF NoThread
<1>2. threads = [t \in Names |-> NoThread] /\ \A t \in Names : threads[t].at = "none"
  BY <1>1 DEF RemoteInit
<1>3. remoteCommandList = <<>> /\ Len(remoteCommandList) = 0 /\ ToSet(remoteCommandList) = {}
  BY EmptySeq DEF RemoteInit, ToSet
<1>4. 0 \in 0 .. MaxBuffers
  BY RemoteAssumption DEF RemoteAssumption
<1>5. RemoteTypeOK
  BY <1>1, <1>4, EmptySeq DEF RemoteInit, RemoteTypeOK
<1>6. QueueConsecutive
  BY <1>3 DEF RemoteInit, QueueConsecutive
<1>7. ThreadOnHead
  BY <1>2 DEF RemoteInit, ThreadOnHead, Names
<1>8. MeantForThis
  BY <1>2, <1>3 DEF RemoteInit, MeantForThis, Names
<1>9. SentAsGiven
  BY <1>2 DEF RemoteInit, SentAsGiven
<1>10. FaultExplained
  BY DEF RemoteInit, FaultExplained, NoFault
<1> QED BY <1>5, <1>6, <1>7, <1>8, <1>9, <1>10 DEF RemoteInv

LEMMA StutterKeeps == RemoteInv /\ UNCHANGED remoteVars => RemoteInv'
<1> SUFFICES ASSUME RemoteInv, UNCHANGED remoteVars PROVE RemoteInv'
  OBVIOUS
<1>1. UNCHANGED <<remoteCommandList, buffers, overlong, askedOf, threads, results,
                  specialAuthorisation, remoteCommand, carried, remoteAuthUpdating,
                  remoteAuthLoggingIn, pc, reported, fault, outrun>>
  BY DEF remoteVars, queueVars, threadVars, flagVars, toggleVars
<1>2. RemoteTypeOK' /\ QueueConsecutive' /\ ThreadOnHead'
  BY <1>1 DEF RemoteInv, RemoteTypeOK, QueueConsecutive, ThreadOnHead
<1>3. MeantForThis' /\ SentAsGiven' /\ FaultExplained'
  BY <1>1 DEF RemoteInv, MeantForThis, SentAsGiven, FaultExplained, specialAuthRemote, Freed
<1> QED BY <1>2, <1>3 DEF RemoteInv

LEMMA NextKeeps == RemoteInv /\ [RemoteNext]_remoteVars => RemoteInv'
<1> SUFFICES ASSUME RemoteInv, RemoteNext \/ UNCHANGED remoteVars PROVE RemoteInv'
  OBVIOUS
<1>1. CASE \E long \in BOOLEAN : AccountCommand(long)
  BY <1>1, CommandKeeps
<1>2. CASE \E server \in Servers \cup {NoServer} : authToggle(server)
  BY <1>2, ToggleKeeps
<1>3. CASE authentificate
  BY <1>3, LoginStartsKeeps, LoginStartsNotKeeps DEF authentificate
<1>4. CASE ReportCommand
  BY <1>4, ReportKeeps
<1>5. CASE StartCommand
  BY <1>5, StartKeeps
<1>6. ASSUME NEW t \in Names, ThreadStep(t) PROVE RemoteInv'
  BY <1>6, StepKeeps
<1>7. CASE authRemoteCommand \/ authRemoteLogin
  BY <1>6, <1>7 DEF authRemoteCommand, authRemoteLogin, Names
<1>8. CASE UNCHANGED remoteVars
  BY <1>8, StutterKeeps
<1> QED BY <1>1, <1>2, <1>3, <1>4, <1>5, <1>7, <1>8 DEF RemoteNext, updateAuthDBProcess

(***************************************************************************)
(* The strengthened invariant: the queue holds the buffers allocated last, *)
(* the command thread reads its head, and what was not carried from one    *)
(* server to another is meant for the server there is.                     *)
(***************************************************************************)
THEOREM RemoteInvariant == RemoteSpec => []RemoteInv
<1> QED BY InitInv, NextKeeps, PTL DEF RemoteSpec

(***************************************************************************)
(* What a thread sends is the command it was made for, to the server the   *)
(* command was given for, but for the two exceptions SentAsGiven names,    *)
(* however many servers and commands there are (authRemoteCommand,         *)
(* authRemoteLogin).                                                       *)
(***************************************************************************)
THEOREM AlwaysSentAsGiven == RemoteSpec => []SentAsGiven
<1>1. RemoteInv => SentAsGiven
  BY DEF RemoteInv
<1> QED BY <1>1, RemoteInvariant, PTL

(***************************************************************************)
(* What the threads read of the main thread's goes wrong for the reasons   *)
(* that FaultExplained names: remoteCommand for a command that was under   *)
(* way when logging in was switched, a freed command for a login's whose   *)
(* report came before its thread.                                          *)
(***************************************************************************)
THEOREM AlwaysFaultExplained == RemoteSpec => []FaultExplained
<1>1. RemoteInv => FaultExplained
  BY DEF RemoteInv
<1> QED BY <1>1, RemoteInvariant, PTL

-----------------------------------------------------------------------------
(* The refinement: what each action is in RemoteCommands. *)

Running == IF remoteAuthUpdating THEN threads["command"].buffer ELSE Nothing
Outcome == IF threads["command"].at = "done" THEN results["command"] ELSE Nothing

(* The abstract variables, and that none of them is changed. *)
LEMMA Stutters ==
  ASSUME remoteCommandList' = remoteCommandList, Running' = Running, Outcome' = Outcome,
         reported' = reported
  PROVE  UNCHANGED R!rVars
BY DEF R!rVars, Running, Outcome

(* Outcomes and commands are not Nothing. *)
LEMMA RunningFacts ==
  ASSUME RemoteInv
  PROVE  /\ remoteAuthUpdating =>
              Running = Head(remoteCommandList) /\ Running \in Buffers /\ Running # Nothing
         /\ ~remoteAuthUpdating => Running = Nothing /\ Outcome = Nothing
         /\ threads["command"].at = "done" =>
              remoteAuthUpdating /\ Outcome = results["command"] /\ Outcome # Nothing
         /\ threads["command"].at # "done" => Outcome = Nothing
<1>1. \A b \in Buffers \cup BOOLEAN : b # Nothing
  BY RemoteAssumption DEF RemoteAssumption, Buffers
<1>2. /\ remoteAuthUpdating <=> threads["command"].at # "none"
      /\ remoteAuthUpdating => threads["command"].buffer = Head(remoteCommandList)
  BY DEF RemoteInv, ThreadOnHead
<1>3. remoteAuthUpdating => threads["command"].buffer \in Buffers
  <2>1. 1 .. buffers \subseteq Buffers
    BY RemoteAssumption DEF RemoteAssumption, RemoteInv, RemoteTypeOK, Buffers
  <2> QED BY <1>2, <2>1, InvFacts DEF Names
<1>4. results["command"] \in BOOLEAN
  BY DEF RemoteInv, RemoteTypeOK, Names
<1> QED BY <1>1, <1>2, <1>3, <1>4 DEF Running, Outcome

(* A step of the queue, with all else as it was. *)
LEMMA PushGives ==
  ASSUME RemoteInv, NEW long \in BOOLEAN, Push(long), specialAuthRemote,
         Running' = Running, Outcome' = Outcome, reported' = reported
  PROVE  R!RNext
<1>1. buffers + 1 \in Buffers /\ remoteCommandList' = Append(remoteCommandList, buffers + 1)
  BY PushFacts DEF Push
<1>2. R!Give(buffers + 1)
  BY <1>1 DEF R!Give, Running, Outcome
<1> QED BY <1>1, <1>2 DEF R!RNext

(* A thread that goes on without ending. *)
LEMMA ThreadStutters ==
  ASSUME RemoteInv, NEW t \in Names, threads[t].at \in {"start", "sized"},
         ThreadUnchanged, results' = results, NEW T \in Threads,
         threads' = [threads EXCEPT ![t] = T],
         T.buffer = threads[t].buffer, T.at # "done"
  PROVE  UNCHANGED R!rVars
<1>1. /\ threads'[t] = T /\ \A u \in Names \ {t} : threads'[u] = threads[u]
      /\ UNCHANGED <<remoteCommandList, reported, remoteAuthUpdating>>
  BY NewThread DEF RemoteInv, RemoteTypeOK, ThreadUnchanged, queueVars, flagVars
<1>2. Running' = Running
  BY <1>1 DEF Running, Names
<1>3. Outcome' = Outcome
  <2>1. CASE t = "command"
    BY <1>1, <2>1 DEF Outcome
  <2>2. CASE t # "command"
    <3>1. threads'["command"] = threads["command"]
      BY <1>1, <2>2 DEF Names
    <3> QED BY <3>1 DEF Outcome
  <2> QED BY <2>1, <2>2
<1> QED BY <1>1, <1>2, <1>3, Stutters

LEMMA ThreadRefines ==
  ASSUME RemoteInv, NEW t \in Names, ThreadStep(t)
  PROVE  [R!RNext]_(R!rVars)
<1>1. threads \in [Names -> Threads] /\ threads[t] \in Threads
      /\ results \in [Names -> BOOLEAN]
  BY DEF RemoteInv, RemoteTypeOK
<1>2. ASSUME NEW what, ThreadUnchanged, Crash(t, what) PROVE UNCHANGED R!rVars
  BY <1>2, Stutters
  DEF ThreadUnchanged, Crash, queueVars, threadVars, flagVars, Running, Outcome
<1>3. CASE ThreadSizes(t) /\ \A what : ~Crash(t, what)
  <2>1. PICK own \in BOOLEAN :
           threads' = [threads EXCEPT ![t].at = "sized", ![t].own = own,
                                      ![t].size = UrlLength[remoteCommand]]
    BY <1>3 DEF ThreadSizes
  <2> DEFINE T == [threads[t] EXCEPT !.at = "sized", !.own = own,
                                     !.size = UrlLength[remoteCommand]]
  <2>2. specialAuthRemote /\ results' = results /\ ThreadUnchanged /\ threads[t].at = "start"
    BY <1>3 DEF ThreadSizes
  <2>3. UrlLength[remoteCommand] \in Nat
    BY <2>2, RemoteAssumption DEF RemoteAssumption, specialAuthRemote, RemoteInv, RemoteTypeOK
  <2>4. T \in Threads
    BY <1>1, <2>3 DEF Threads
  <2>5. threads' = [threads EXCEPT ![t] = T]
    BY <1>1, <2>1
  <2>6. T.at = "sized" /\ T.buffer = threads[t].buffer
    BY <1>1 DEF Threads
  <2> HIDE DEF T
  <2> QED BY <2>2, <2>4, <2>5, <2>6, ThreadStutters
<1>4. CASE ThreadCopies(t) /\ \A what : ~Crash(t, what)
  <2> DEFINE T == [threads[t] EXCEPT !.at = "wait", !.server = remoteCommand]
  <2>1. /\ results' = results /\ ThreadUnchanged /\ threads[t].at = "sized"
        /\ threads' = [threads EXCEPT ![t].at = "wait", ![t].server = remoteCommand]
    BY <1>4 DEF ThreadCopies
  <2>2. T \in Threads
    BY <1>1 DEF Threads, RemoteInv, RemoteTypeOK
  <2>3. threads' = [threads EXCEPT ![t] = T]
    BY <1>1, <2>1
  <2>4. T.at = "wait" /\ T.buffer = threads[t].buffer
    BY <1>1 DEF Threads
  <2> HIDE DEF T
  <2> QED BY <2>1, <2>2, <2>3, <2>4, ThreadStutters
<1>5. CASE ThreadEnds(t) /\ \A what : ~Crash(t, what)
  <2> DEFINE T == [threads[t] EXCEPT !.at = "done"]
  <2>1. /\ ThreadUnchanged /\ threads[t].at = "wait"
        /\ threads' = [threads EXCEPT ![t].at = "done"]
    BY <1>5 DEF ThreadEnds, ThreadGoes
  <2>2. PICK ok \in BOOLEAN : results' = [results EXCEPT ![t] = ok]
    BY <1>5 DEF ThreadEnds
  <2>3. T \in Threads
    BY <1>1 DEF Threads
  <2>4. threads' = [threads EXCEPT ![t] = T]
    BY <1>1, <2>1
  <2>5. T.at = "done" /\ T.buffer = threads[t].buffer
    BY <1>1 DEF Threads
  <2> HIDE DEF T
  <2>6. /\ threads'[t] = T /\ \A u \in Names \ {t} : threads'[u] = threads[u]
        /\ UNCHANGED <<remoteCommandList, reported, remoteAuthUpdating>>
    BY <1>1, <2>1, <2>3, <2>4, NewThread DEF ThreadUnchanged, queueVars, flagVars
  <2>7. Running' = Running
    BY <2>5, <2>6 DEF Running, Names
  <2>8. CASE t = "command"
    <3>1. Running # Nothing /\ Outcome = Nothing
      BY <2>1, <2>8, RunningFacts DEF RemoteInv, ThreadOnHead
    <3>2. Outcome' \in BOOLEAN
      <4>1. results'["command"] \in BOOLEAN
        BY <1>1, <2>2 DEF Names
      <4>2. Outcome' = results'["command"]
        BY <2>5, <2>6, <2>8 DEF Outcome
      <4> QED BY <4>1, <4>2
    <3>3. R!Finish
      BY <2>6, <2>7, <3>1, <3>2 DEF R!Finish, Running, Outcome
    <3> QED BY <3>3 DEF R!RNext
  <2>9. CASE t # "command"
    <3>1. threads'["command"] = threads["command"] /\ results'["command"] = results["command"]
      BY <1>1, <2>2, <2>6, <2>9 DEF Names
    <3>2. Outcome' = Outcome
      BY <3>1 DEF Outcome
    <3> QED BY <2>6, <2>7, <3>2, Stutters
  <2> QED BY <2>8, <2>9
<1>6. ThreadUnchanged
  BY DEF ThreadStep, ThreadSizes, ThreadCopies, ThreadEnds
<1> QED BY <1>2, <1>3, <1>4, <1>5, <1>6 DEF ThreadStep

(* updateAuthDBProcess. *)
LEMMA AuthentificateRefines ==
  ASSUME RemoteInv, authentificate
  PROVE  [R!RNext]_(R!rVars)
<1>1. /\ UNCHANGED <<results, remoteAuthUpdating, reported>>
      /\ LoginStarts \/ LoginStartsNot
  BY DEF authentificate
<1>2. threads'["command"] = threads["command"]
  BY <1>1 DEF LoginStarts, LoginStartsNot, RemoteInv, RemoteTypeOK, Names
<1>3. Running' = Running
  BY <1>1, <1>2 DEF Running
<1>4. Outcome' = Outcome
  BY <1>1, <1>2 DEF Outcome
<1>5. CASE LoginStarts
  BY <1>1, <1>3, <1>4, <1>5, PushGives DEF LoginStarts
<1>6. CASE LoginStartsNot
  BY <1>1, <1>3, <1>4, <1>6, Stutters DEF LoginStartsNot, queueVars
<1> QED BY <1>1, <1>5, <1>6

LEMMA ReportRefines ==
  ASSUME RemoteInv, ReportCommand
  PROVE  [R!RNext]_(R!rVars)
<1>1. results' = results
  BY DEF ReportCommand
<1>2. CASE UNCHANGED <<threads, remoteCommandList, remoteAuthUpdating, reported>>
  BY <1>1, <1>2, Stutters DEF Running, Outcome
<1>3. CASE ReportHead /\ threads["command"].at = "done"
  <2>1. /\ Running = Head(remoteCommandList)
        /\ Outcome = results["command"] /\ Outcome # Nothing
    BY <1>3, RunningFacts
  <2>2. /\ reported' = <<Running, Outcome>>
        /\ remoteCommandList' = Tail(remoteCommandList)
        /\ threads' = [threads EXCEPT !["command"] = NoThread]
        /\ remoteAuthUpdating' = FALSE
    BY <1>3, <2>1 DEF ReportHead
  <2>3. threads'["command"].at = "none"
    BY <2>2 DEF RemoteInv, RemoteTypeOK, Names, NoThread
  <2>4. Running' = Nothing /\ Outcome' = Nothing
    BY <2>2, <2>3 DEF Running, Outcome
  <2>5. R!Report
    BY <2>1, <2>2, <2>4 DEF R!Report, Running, Outcome
  <2> QED BY <2>5 DEF R!RNext
<1> QED BY <1>2, <1>3 DEF ReportCommand, ReportOverruns

LEMMA StartRefines ==
  ASSUME RemoteInv, StartCommand
  PROVE  [R!RNext]_(R!rVars)
<1>1. UNCHANGED <<remoteCommandList, results, reported>>
  BY DEF StartCommand, queueVars
<1>2. CASE UNCHANGED <<threads, remoteAuthUpdating>>
  BY <1>1, <1>2, Stutters DEF Running, Outcome
<1>3. CASE /\ remoteCommandList # <<>> /\ ~remoteAuthUpdating
           /\ \E new \in Started(NextCommand) : threads' = [threads EXCEPT !["command"] = new]
           /\ remoteAuthUpdating' = TRUE
  <2>1. PICK s \in {"start", "failed"} : threads' = [threads EXCEPT !["command"] =
           [at |-> s, buffer |-> NextCommand, size |-> 0, server |-> NoServer, own |-> TRUE]]
    BY <1>3 DEF Started
  <2>2. threads'["command"].at = s /\ threads'["command"].buffer = NextCommand
    BY <2>1 DEF RemoteInv, RemoteTypeOK, Names
  <2>3. Running = Nothing /\ Outcome = Nothing
    BY <1>3, RunningFacts
  <2>4. Running' = Head(remoteCommandList) /\ Outcome' = Nothing
    BY <1>3, <2>2 DEF Running, Outcome, NextCommand
  <2>5. R!Begin
    BY <1>1, <1>3, <2>3, <2>4 DEF R!Begin, Running, Outcome
  <2> QED BY <2>5 DEF R!RNext
<1> QED BY <1>2, <1>3 DEF StartCommand

LEMMA InitRefines == RemoteInit => R!RInit
<1> SUFFICES ASSUME RemoteInit PROVE R!RInit
  OBVIOUS
<1>1. threads["command"].at = "none"
  BY DEF RemoteInit, NoThread, Names
<1> QED BY <1>1 DEF RemoteInit, R!RInit

LEMMA NextRefines == RemoteInv /\ [RemoteNext]_remoteVars => [R!RNext]_(R!rVars)
<1> SUFFICES ASSUME RemoteInv, RemoteNext \/ UNCHANGED remoteVars PROVE [R!RNext]_(R!rVars)
  OBVIOUS
<1>1. ASSUME NEW long \in BOOLEAN, AccountCommand(long) PROVE R!RNext
  <2>1. Push(long) /\ specialAuthRemote /\ reported' = reported
        /\ UNCHANGED <<threads, results, remoteAuthUpdating>>
    BY <1>1 DEF AccountCommand, threadVars, flagVars
  <2>2. Running' = Running /\ Outcome' = Outcome
    BY <2>1 DEF Running, Outcome
  <2> QED BY <2>1, <2>2, PushGives
<1>2. ASSUME NEW server \in Servers \cup {NoServer}, authToggle(server) PROVE UNCHANGED R!rVars
  <2>1. UNCHANGED <<remoteCommandList, reported, threads, results, remoteAuthUpdating>>
    BY <1>2 DEF authToggle, queueVars, threadVars, flagVars
  <2>2. Running' = Running /\ Outcome' = Outcome
    BY <2>1 DEF Running, Outcome
  <2> QED BY <2>1, <2>2, Stutters
<1>3. CASE updateAuthDBProcess
  BY <1>3, AuthentificateRefines, ReportRefines, StartRefines DEF updateAuthDBProcess
<1>4. CASE authRemoteCommand \/ authRemoteLogin
  BY <1>4, ThreadRefines DEF authRemoteCommand, authRemoteLogin, Names
<1>5. CASE UNCHANGED remoteVars
  <2>1. UNCHANGED <<remoteCommandList, reported, threads, results, remoteAuthUpdating>>
    BY <1>5 DEF remoteVars, queueVars, threadVars, flagVars
  <2>2. Running' = Running /\ Outcome' = Outcome
    BY <2>1 DEF Running, Outcome
  <2> QED BY <2>1, <2>2, Stutters
<1> QED BY <1>1, <1>2, <1>3, <1>4, <1>5 DEF RemoteNext

(***************************************************************************)
(* Commands are executed one at a time, in the order they were given, and  *)
(* each is reported once with its own outcome, whoever switches logging in *)
(* and however the login thread runs: the queue of updateAuthDBProcess     *)
(* implements RemoteCommands.                                              *)
(***************************************************************************)
THEOREM RemoteImplementsCommands == RemoteSpec => ImplementsRemoteCommands
<1> QED BY InitRefines, NextRefines, RemoteInvariant, PTL
        DEF RemoteSpec, ImplementsRemoteCommands, R!RSpec

-----------------------------------------------------------------------------
(***************************************************************************)
(* How far a command is from its report: its place in the queue and, for   *)
(* the head of it, where its thread and the main thread are.               *)
(***************************************************************************)
At == threads["command"].at
TakenOff == buffers - Len(remoteCommandList)

Stage ==
  IF ~remoteAuthUpdating
    THEN IF pc = "frame" THEN 13 ELSE IF pc = "report" THEN 12 ELSE 11
    ELSE IF At = "start" THEN 10 ELSE IF At = "sized" THEN 9 ELSE IF At = "wait" THEN 8
    ELSE IF pc = "start" THEN 7 ELSE IF pc = "frame" THEN 6 ELSE 5

Distance(b) == 16 * (b - TakenOff) + Stage

WaitsForReport(b) ==
  ~crashed /\ specialAuthRemote /\ At # "failed" /\ b \in ToSet(remoteCommandList)

(* The thread's steps bring every command nearer to its report, so do the  *)
(* steps of updateAuthDBProcess unless the thread is at work, and neither  *)
(* the login thread nor anybody who gives a command puts one back.         *)
ReportGetsNearer ==
  \A b \in Buffers : WaitsForReport(b) /\ WaitsForReport(b)' =>
    /\ Distance(b)' <= Distance(b)
    /\ \/ authRemoteCommand
       \/ updateAuthDBProcess /\ At \in {"none", "done"}
         => Distance(b)' < Distance(b)

LEMMA StageFacts ==
  ASSUME RemoteInv
  PROVE  /\ Stage \in 5 .. 13 /\ TakenOff \in Int
         /\ At \in {"none", "start", "sized", "wait", "done", "failed"}
         /\ remoteAuthUpdating <=> At # "none"
<1>1. TakenOff \in Int
  BY InvFacts, QueueElements, RemoteAssumption
     DEF RemoteAssumption, TakenOff, RemoteInv, RemoteTypeOK
<1>2. At \in {"none", "start", "sized", "wait", "done", "failed"}
  BY DEF At, RemoteInv, RemoteTypeOK, Names, Threads
<1>3. remoteAuthUpdating <=> At # "none"
  BY DEF At, RemoteInv, ThreadOnHead
<1>4. Stage \in 5 .. 13
  BY DEF Stage
<1> QED BY <1>1, <1>2, <1>3, <1>4

(* The distance of a command is counted in natural numbers: it can be      *)
(* shortened so many times only.                                           *)
ReportsCounted == \A b \in Buffers : WaitsForReport(b) => Distance(b) \in Nat

LEMMA DistanceCounted == RemoteInv => ReportsCounted
<1> SUFFICES ASSUME RemoteInv, NEW b \in Buffers, WaitsForReport(b) PROVE Distance(b) \in Nat
  BY DEF ReportsCounted
<1>1. /\ Len(remoteCommandList) \in Nat
      /\ ToSet(remoteCommandList) = buffers - Len(remoteCommandList) + 1 .. buffers
  BY InvFacts, QueueElements
<1>2. Stage \in 5 .. 13 /\ TakenOff \in Int
  BY StageFacts
<1>3. b \in TakenOff + 1 .. buffers
  BY <1>1 DEF WaitsForReport, TakenOff
<1>4. b - TakenOff \in Nat
  BY <1>2, <1>3 DEF Buffers
<1> HIDE DEF Buffers
<1> QED BY <1>2, <1>4 DEF Distance

LEMMA Places ==
  ASSUME NEW b \in Int, NEW t \in Int, NEW u \in Int, NEW s \in 5 .. 13, NEW r \in 5 .. 13
  PROVE  /\ u = t /\ r = s => 16 * (b - u) + r <= 16 * (b - t) + s
         /\ u = t /\ r < s => 16 * (b - u) + r < 16 * (b - t) + s
         /\ u = t + 1 => 16 * (b - u) + r < 16 * (b - t) + s
         /\ 16 * (b - u) + r < 16 * (b - t) + s => 16 * (b - u) + r <= 16 * (b - t) + s
  OBVIOUS

(* Distances are compared by stage, and by what has been taken off.        *)
LEMMA NearerBy ==
  ASSUME RemoteInv, RemoteInv', NEW b \in Buffers
  PROVE  /\ TakenOff' = TakenOff /\ Stage' = Stage => Distance(b)' <= Distance(b)
         /\ TakenOff' = TakenOff /\ Stage' < Stage => Distance(b)' < Distance(b)
         /\ TakenOff' = TakenOff + 1 /\ Stage' <= 13 => Distance(b)' < Distance(b)
         /\ Distance(b)' < Distance(b) => Distance(b)' <= Distance(b)
<1>1. Stage \in 5 .. 13 /\ TakenOff \in Int
  BY StageFacts
<1>2. Stage' \in 5 .. 13 /\ TakenOff' \in Int
  <2>1. Stage' \in 5 .. 13
    BY DEF Stage
  <2>2. buffers' \in Int /\ Len(remoteCommandList') \in Int
    BY RemoteAssumption, LenProperties DEF RemoteAssumption, RemoteInv, RemoteTypeOK
  <2> QED BY <2>1, <2>2 DEF TakenOff
<1>3. b \in Int
  BY DEF Buffers
<1>4. Distance(b) = 16 * (b - TakenOff) + Stage /\ Distance(b)' = 16 * (b - TakenOff') + Stage'
  BY DEF Distance
<1> QED BY <1>1, <1>2, <1>3, <1>4, Places

(* A command more at the end of the queue. *)
LEMMA PushDistance ==
  ASSUME RemoteInv, NEW long \in BOOLEAN, Push(long)
  PROVE  TakenOff' = TakenOff
<1>1. /\ remoteCommandList \in Seq(Buffers) /\ buffers \in Int
      /\ buffers + 1 \in Buffers
  BY RemoteAssumption DEF RemoteAssumption, RemoteInv, RemoteTypeOK, Push, Buffers
<1>2. Len(remoteCommandList') = Len(remoteCommandList) + 1 /\ Len(remoteCommandList) \in Nat
  BY <1>1, AppendProperties, LenProperties DEF Push
<1>3. buffers' = buffers + 1
  BY DEF Push
<1> QED BY <1>1, <1>2, <1>3 DEF TakenOff

(* An invalid access ends the process. *)
LEMMA FaultCrashes ==
  /\ \A t \in Names : \A what \in {"server", "command", "answer"} : Crash(t, what) => crashed'
  /\ ReportOverruns => crashed'
  BY DEF Crash, ReportOverruns, crashed, NoFault

LEMMA ThreadDistance ==
  ASSUME RemoteInv, RemoteInv', NEW b \in Buffers, WaitsForReport(b)', authRemoteCommand
  PROVE  Distance(b)' < Distance(b)
<1>1. /\ ~crashed' /\ ThreadUnchanged
  BY DEF WaitsForReport, authRemoteCommand, ThreadStep, ThreadSizes, ThreadCopies, ThreadEnds
<1>2. \/ At = "start" /\ At' = "sized"
      \/ At = "sized" /\ At' = "wait"
      \/ At = "wait" /\ At' = "done"
  <2>1. threads \in [Names -> Threads] /\ "command" \in Names /\ threads["command"] \in Threads
    BY DEF RemoteInv, RemoteTypeOK, Names
  <2>c. \A what \in {"server", "command", "answer"} : ~Crash("command", what)
    BY <1>1, <2>1, FaultCrashes
  <2>2. CASE ThreadSizes("command")
    <3>1. At = "start" /\ \E own \in BOOLEAN :
             threads' = [threads EXCEPT !["command"].at = "sized", !["command"].own = own,
                                        !["command"].size = UrlLength[remoteCommand]]
      BY <2>2, <2>c DEF ThreadSizes, At
    <3>2. At' = "sized"
      BY <2>1, <3>1 DEF At, Threads
    <3> QED BY <3>1, <3>2
  <2>3. CASE ThreadCopies("command")
    BY <2>1, <2>3, <2>c DEF ThreadCopies, At, Threads
  <2>4. CASE ThreadEnds("command")
    BY <2>1, <2>4, <2>c DEF ThreadEnds, ThreadGoes, At, Threads
  <2> QED BY <2>2, <2>3, <2>4 DEF authRemoteCommand, ThreadStep
<1>3. /\ UNCHANGED <<remoteCommandList, buffers, remoteAuthUpdating, pc>>
      /\ remoteAuthUpdating
  BY <1>1, <1>2, StageFacts DEF ThreadUnchanged, queueVars, flagVars
<1>4. TakenOff' = TakenOff
  BY <1>3 DEF TakenOff
<1>5. Stage' < Stage
  BY <1>2, <1>3 DEF Stage
<1> QED BY <1>4, <1>5, NearerBy

(* The three parts of updateAuthDBProcess. *)
LEMMA AuthentificateDistance ==
  ASSUME RemoteInv, RemoteInv', NEW b \in Buffers, At # "failed", authentificate
  PROVE  /\ Distance(b)' <= Distance(b)
         /\ At \in {"none", "done"} => Distance(b)' < Distance(b)
<1>1. /\ pc = "frame" /\ pc' = "report" /\ remoteAuthUpdating' = remoteAuthUpdating
      /\ LoginStarts \/ LoginStartsNot
  BY DEF authentificate
<1>2. At' = At
  BY <1>1 DEF LoginStarts, LoginStartsNot, RemoteInv, RemoteTypeOK, Names, At
<1>3. TakenOff' = TakenOff
  <2>1. CASE LoginStarts
    BY <2>1, PushDistance DEF LoginStarts
  <2>2. CASE LoginStartsNot
    BY <2>2 DEF LoginStartsNot, queueVars, TakenOff
  <2> QED BY <1>1, <2>1, <2>2
<1>4. IF At \in {"none", "done"} THEN Stage' < Stage ELSE Stage' = Stage
  BY <1>1, <1>2, StageFacts DEF Stage
<1> QED BY <1>3, <1>4, NearerBy

LEMMA ReportDistance ==
  ASSUME RemoteInv, RemoteInv', NEW b \in Buffers, At # "failed", specialAuthRemote, ~crashed',
         ReportCommand
  PROVE  /\ Distance(b)' <= Distance(b)
         /\ At \in {"none", "done"} => Distance(b)' < Distance(b)
<1>1. pc = "report" /\ pc' = "start" /\ buffers' = buffers
  BY DEF ReportCommand
<1>2. CASE At = "done"
  <2>1. remoteCommandList' = Tail(remoteCommandList)
    BY <1>2, StageFacts, FaultCrashes DEF ReportCommand, ReportHead, At
  <2>2. remoteCommandList # <<>> /\ remoteCommandList \in Seq(Buffers)
    BY <1>2, StageFacts DEF RemoteInv, RemoteTypeOK, ThreadOnHead
  <2>3. /\ Len(remoteCommandList') = Len(remoteCommandList) - 1
        /\ Len(remoteCommandList) \in Nat /\ buffers \in Int
    BY <2>1, <2>2, HeadTailProperties, LenProperties, RemoteAssumption
       DEF RemoteAssumption, RemoteInv, RemoteTypeOK
  <2>4. TakenOff' = TakenOff + 1
    BY <1>1, <2>3 DEF TakenOff
  <2>5. Stage' <= 13
    BY DEF Stage
  <2> QED BY <2>4, <2>5, NearerBy
<1>3. CASE At # "done"
  <2>1. UNCHANGED <<threads, remoteCommandList, remoteAuthUpdating>>
    BY <1>3 DEF ReportCommand, At
  <2>2. TakenOff' = TakenOff /\ At' = At
    BY <1>1, <2>1 DEF TakenOff, At
  <2>3. IF At = "none" THEN Stage' < Stage ELSE Stage' = Stage
    BY <1>1, <1>3, <2>1, <2>2, StageFacts DEF Stage
  <2> QED BY <1>3, <2>2, <2>3, NearerBy
<1> QED BY <1>2, <1>3

LEMMA StartDistance ==
  ASSUME RemoteInv, RemoteInv', NEW b \in Buffers, WaitsForReport(b), WaitsForReport(b)',
         StartCommand
  PROVE  /\ Distance(b)' <= Distance(b)
         /\ At \in {"none", "done"} => Distance(b)' < Distance(b)
<1>1. /\ pc = "start" /\ pc' = "frame" /\ UNCHANGED <<remoteCommandList, buffers>>
  BY DEF StartCommand, queueVars
<1>2. TakenOff' = TakenOff
  BY <1>1 DEF TakenOff
<1>3. CASE ~remoteAuthUpdating
  <2>1. remoteCommandList # <<>>
    BY DEF WaitsForReport, ToSet
  <2>2. PICK new \in Started(NextCommand) :
           threads' = [threads EXCEPT !["command"] = new] /\ remoteAuthUpdating' = TRUE
    BY <1>3, <2>1 DEF StartCommand, WaitsForReport
  <2>3. At' = new.at /\ new.at \in {"start", "failed"}
    BY <2>2 DEF Started, At, RemoteInv, RemoteTypeOK, Names
  <2>4. At' = "start"
    BY <2>3 DEF WaitsForReport
  <2>5. Stage' < Stage
    BY <1>1, <1>3, <2>2, <2>4 DEF Stage
  <2> QED BY <1>2, <2>5, NearerBy
<1>4. CASE remoteAuthUpdating
  <2>1. UNCHANGED <<threads, remoteAuthUpdating>>
    BY <1>4 DEF StartCommand
  <2>2. At' = At
    BY <2>1 DEF At
  <2>3. IF At = "done" THEN Stage' < Stage ELSE Stage' = Stage
    BY <1>1, <1>4, <2>1, <2>2, StageFacts DEF Stage, WaitsForReport
  <2>4. At # "none"
    BY <1>4, StageFacts
  <2> QED BY <1>2, <2>3, <2>4, NearerBy
<1> QED BY <1>3, <1>4

(* Commands given, logging in switched and the login thread. *)
LEMMA OtherDistance ==
  ASSUME RemoteInv, RemoteInv', NEW b \in Buffers,
         \/ \E long \in BOOLEAN : AccountCommand(long)
         \/ \E server \in Servers \cup {NoServer} : authToggle(server)
         \/ authRemoteLogin
  PROVE  Distance(b)' <= Distance(b)
<1>1. CASE \E long \in BOOLEAN : AccountCommand(long)
  <2>1. TakenOff' = TakenOff
    BY <1>1, PushDistance DEF AccountCommand
  <2>2. Stage' = Stage
    BY <1>1 DEF AccountCommand, threadVars, flagVars, Stage, At
  <2> QED BY <2>1, <2>2, NearerBy
<1>2. CASE \E server \in Servers \cup {NoServer} : authToggle(server)
  <2>1. TakenOff' = TakenOff /\ Stage' = Stage
    BY <1>2 DEF authToggle, queueVars, threadVars, flagVars, TakenOff, Stage, At
  <2> QED BY <2>1, NearerBy
<1>3. CASE authRemoteLogin
  <2>1. threads \in [Names -> Threads]
    BY DEF RemoteInv, RemoteTypeOK
  <2>2. threads'["command"] = threads["command"] /\ ThreadUnchanged
    BY <1>3, <2>1 DEF authRemoteLogin, ThreadStep, ThreadSizes, ThreadCopies, ThreadEnds,
       ThreadGoes, Crash, threadVars, Names
  <2>3. TakenOff' = TakenOff /\ Stage' = Stage
    BY <2>2 DEF ThreadUnchanged, queueVars, flagVars, TakenOff, Stage, At
  <2> QED BY <2>3, NearerBy
<1> QED BY <1>1, <1>2, <1>3

LEMMA ReportsNearer ==
  RemoteInv /\ RemoteInv' /\ [RemoteNext]_remoteVars => [ReportGetsNearer]_remoteVars
<1> SUFFICES ASSUME RemoteInv, RemoteInv', RemoteNext,
                    NEW b \in Buffers, WaitsForReport(b), WaitsForReport(b)'
             PROVE  /\ Distance(b)' <= Distance(b)
                    /\ \/ authRemoteCommand
                       \/ updateAuthDBProcess /\ At \in {"none", "done"}
                         => Distance(b)' < Distance(b)
  BY DEF ReportGetsNearer
<1>1. At # "failed" /\ specialAuthRemote /\ ~crashed /\ ~crashed'
  BY DEF WaitsForReport
<1>2. updateAuthDBProcess =>
        /\ Distance(b)' <= Distance(b)
        /\ At \in {"none", "done"} => Distance(b)' < Distance(b)
  BY <1>1, AuthentificateDistance, ReportDistance, StartDistance DEF updateAuthDBProcess
<1>3. authRemoteCommand => Distance(b)' < Distance(b)
  BY ThreadDistance
<1>4. Distance(b)' < Distance(b) => Distance(b)' <= Distance(b)
  BY NearerBy
<1> QED BY <1>1, <1>2, <1>3, <1>4, OtherDistance DEF RemoteNext

(***************************************************************************)
(* What EventuallyReported rests on, for any servers and any number of     *)
(* commands: as long as logging in stays switched on, each step of a       *)
(* command's thread brings all that wait nearer to their report, of which  *)
(* they are finitely many steps away, and so does each part of             *)
(* updateAuthDBProcess while that thread is not at work; no command given  *)
(* later, and no login, puts one back.                                     *)
(***************************************************************************)
THEOREM CommandsProgress == RemoteSpec => []ReportsCounted /\ [][ReportGetsNearer]_remoteVars
<1> QED BY RemoteInvariant, DistanceCounted, ReportsNearer, PTL DEF RemoteSpec

=============================================================================
