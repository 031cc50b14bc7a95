-------------------------- MODULE AuthSessionProofs --------------------------
(***************************************************************************)
(* Proofs about AuthSession for every set of players, logins and passwords *)
(* and every length of the queue of checks.                                *)
(***************************************************************************)
EXTENDS AuthSession, SequenceTheorems, TLAPS

(* What SessionInv says of one slot. *)
SlotInv(i) ==
  Sound(i) =>
    /\ authorisedState[i] = 3 <=> notLoggedIn[i] # NoPass
    /\ (authorisedState[i] = 3 /\ specialAuthRemote) <=> Queued(i)
    /\ \A m, n \in 1 .. Len(notLoggedInRemote) :
         notLoggedInRemote[m] = i /\ notLoggedInRemote[n] = i => m = n
    /\ authorisedState[i] \in 0 .. 4
    /\ authorisedState[i] \in 2 .. 4 <=> authorisedLogins[i] # NoLogin
    /\ authorisedState[i] = 4 =>
         i \in present /\ granted[i] \in {<<authorisedLogins[i], sent[i]>>, Stray}
    /\ i \notin present => authorisedState[i] \in 0 .. 1
    /\ notLoggedIn[i] # NoPass => notLoggedIn[i] = sent[i]
    /\ remoteAuthLoggingIn /\ command.player = i =>
         command = [player |-> i, login |-> authorisedLogins[i], pass |-> notLoggedIn[i]]

(* An invariant of all slots is one of each slot. *)
LEMMA BySlot ==
  SessionInv <=> /\ SessionTypeOK
                 /\ \A i \in Players : SlotInv(i)
                 /\ HeadIsAsker
                 /\ RequestIsCommand
                 /\ NoFaultUnlessOrphaned
  BY DEF SessionInv, SlotInv, OneCheckInState3, StateAndLoginAgree, AuthorisedByOwnCheck,
         ChecksAreCurrent

(* A slot leaves the queue at its head. *)
LEMMA QueueTail ==
  ASSUME NEW q \in Seq(Players), q # <<>>
  PROVE  /\ Tail(q) \in Seq(Players)
         /\ Head(q) \in Players
         /\ Len(q) \in Nat /\ Len(q) > 0
         /\ Len(Tail(q)) = Len(q) - 1
         /\ \A n \in 1 .. Len(Tail(q)) : Tail(q)[n] = q[n + 1]
         /\ Head(q) = q[1]
  BY HeadTailProperties, EmptySeq, LenProperties, ElementOfSeq, SMT

(* A slot joins the queue at its end. *)
LEMMA QueueAppend ==
  ASSUME NEW q \in Seq(Players), NEW i \in Players
  PROVE  /\ Append(q, i) \in Seq(Players)
         /\ Len(Append(q, i)) = Len(q) + 1
         /\ \A n \in 1 .. Len(q) : Append(q, i)[n] = q[n]
         /\ Append(q, i)[Len(q) + 1] = i
         /\ Head(Append(q, i)) = IF q = <<>> THEN i ELSE Head(q)
         /\ Append(q, i) # <<>>
<1>1. Len(q) \in Nat /\ (q = <<>> <=> Len(q) = 0)
  BY EmptySeq, LenProperties
<1>2. /\ Append(q, i) \in Seq(Players)
      /\ Len(Append(q, i)) = Len(q) + 1
      /\ \A n \in 1 .. Len(q) : Append(q, i)[n] = q[n]
      /\ Append(q, i)[Len(q) + 1] = i
      /\ Append(q, i) # <<>>
  BY <1>1, AppendProperties
<1>3. Head(Append(q, i)) = Append(q, i)[1]
  BY <1>2, QueueTail
<1>4. q # <<>> => Head(q) = q[1]
  BY QueueTail
<1>5. QED
  BY <1>1, <1>2, <1>3, <1>4

IInv ==
  /\ SessionTypeOK
  /\ \A i \in Players : SlotInv(i)
  /\ HeadIsAsker
  /\ RequestIsCommand
  /\ NoFaultUnlessOrphaned

-----------------------------------------------------------------------------
(* A step that leaves the checks and the thread alone keeps the invariant  *)
(* in a slot it does not change.                                           *)
LEMMA SlotFrame ==
  ASSUME NEW i \in Players, SlotInv(i),
         UNCHANGED <<notLoggedIn, notLoggedInRemote, remoteAuthLoggingIn, command>>,
         specialAuthRemote' = specialAuthRemote,
         authorisedState'[i] = authorisedState[i],
         authorisedLogins'[i] = authorisedLogins[i],
         granted'[i] = granted[i], sent'[i] = sent[i],
         i \in present' <=> i \in present,
         i \notin orphaned' => i \notin orphaned
  PROVE  SlotInv(i)'
  BY DEF SlotInv, Sound, Queued

(* Such a step keeps HeadIsAsker. *)
LEMMA HeadFrame ==
  ASSUME HeadIsAsker, UNCHANGED <<checkVars, threadVars>>
  PROVE  HeadIsAsker'
  BY DEF HeadIsAsker, checkVars, threadVars

(* And RequestIsCommand, if it leaves no check to nobody but those that are *)
(* already.                                                                *)
LEMMA RequestFrame ==
  ASSUME RequestIsCommand, UNCHANGED threadVars,
         loginThread = "stale" => command.player \notin orphaned \ orphaned'
  PROVE  RequestIsCommand'
  BY DEF RequestIsCommand, threadVars

(* A fault leaves everything as it was. *)
LEMMA AbortStep ==
  ASSUME IInv, NEW f \in Faults, Abort(f), f \in {"login", "pass", "server"} => orphaned # {}
  PROVE  IInv'
<1>1. /\ UNCHANGED <<toggleVars, checkVars, threadVars, slotVars, histVars>>
      /\ fault' = f
  BY DEF Abort
<1>2. SessionTypeOK' /\ HeadIsAsker' /\ NoFaultUnlessOrphaned' /\ RequestIsCommand'
  BY <1>1, RequestFrame DEF IInv, SessionTypeOK, HeadIsAsker, NoFaultUnlessOrphaned,
     toggleVars, checkVars, threadVars, slotVars, histVars
<1>3. ASSUME NEW j \in Players PROVE SlotInv(j)'
  BY <1>1, SlotFrame DEF IInv, toggleVars, checkVars, threadVars, slotVars, histVars
<1>4. QED
  BY <1>2, <1>3 DEF IInv

(* The slot a thread was started for stands at the head of the queue. *)
LEMMA AskerIsQueued ==
  ASSUME IInv, remoteAuthLoggingIn
  PROVE  command.player \in Players /\ Queued(command.player)
<1>1. /\ notLoggedInRemote \in Seq(Players) /\ notLoggedInRemote # <<>>
      /\ command.player = Head(notLoggedInRemote)
  BY DEF IInv, HeadIsAsker, SessionTypeOK
<1>2. /\ Head(notLoggedInRemote) \in Players /\ Head(notLoggedInRemote) = notLoggedInRemote[1]
      /\ 1 \in 1 .. Len(notLoggedInRemote)
  BY <1>1, QueueTail
<1>3. QED
  BY <1>1, <1>2 DEF Queued

(* Joining resets the slot; a sound slot was already empty or idle. *)
LEMMA JoinStep ==
  ASSUME IInv, NEW p \in Players, onPlayerJoin(p), ~crashed
  PROVE  IInv'
<1>1. SessionTypeOK'
  <2>1. SessionTypeOK /\ WelcomeFrames \in Nat
    BY SessionAssumption DEF IInv, SessionAssumption
  <2>2. /\ authorisedState' \in [Players -> 0 .. 255]
        /\ authorisedLogins' \in [Players -> Logins \cup {NoLogin}]
        /\ authSendWelcomeMsg' \in [Players -> -2 .. WelcomeFrames]
    <3>1. CASE specialAuthorisation
      <4>1. authorisedState' \in [Players -> 0 .. 255]
        <5>1. authorisedState' = [authorisedState EXCEPT ![p] = 0]
          BY <3>1 DEF onPlayerJoin
        <5>2. authorisedState \in [Players -> 0 .. 255] /\ 0 \in 0 .. 255
          BY <2>1 DEF SessionTypeOK
        <5>3. QED
          BY <5>1, <5>2
      <4>2. authorisedLogins' \in [Players -> Logins \cup {NoLogin}]
        BY <3>1, <2>1 DEF SessionTypeOK, onPlayerJoin
      <4>3. authSendWelcomeMsg' \in [Players -> -2 .. WelcomeFrames]
        BY <3>1, <2>1 DEF SessionTypeOK, onPlayerJoin
      <4>4. QED
        BY <4>1, <4>2, <4>3
    <3>2. CASE ~specialAuthorisation
      BY <3>2, <2>1 DEF SessionTypeOK, onPlayerJoin
    <3>3. QED
      BY <3>1, <3>2
  <2>3. /\ present' \in SUBSET Players
        /\ sent' \in [Players -> Passwords \cup {NoPass}]
        /\ granted' \in [Players -> Pairs \cup {Stray, NoCommand}]
        /\ orphaned' \in SUBSET Players
    BY <2>1 DEF SessionTypeOK, onPlayerJoin
  <2>4. QED
    BY <2>1, <2>2, <2>3 DEF SessionTypeOK, onPlayerJoin, toggleVars, checkVars, threadVars
<1>2. ASSUME NEW i \in Players PROVE SlotInv(i)'
  <2>1. CASE i # p
    BY <2>1, SlotFrame DEF IInv, SessionTypeOK, onPlayerJoin, toggleVars, checkVars, threadVars
  <2>2. CASE i = p /\ Pending(p)
    <3>0. orphaned' = orphaned
      BY <2>2 DEF onPlayerJoin
    <3>1. Sound(p)' => Sound(p)
      BY <3>0 DEF Sound
    <3>2. ~Sound(p)
      BY <2>2 DEF IInv, SlotInv, Pending, onPlayerJoin
    <3>3. QED
      BY <2>2, <3>1, <3>2 DEF SlotInv
  <2>3. CASE i = p /\ ~Pending(p)
    <3>1. UNCHANGED <<notLoggedIn, notLoggedInRemote, remoteAuthLoggingIn, command>>
      BY DEF onPlayerJoin, checkVars, threadVars
    <3>2. notLoggedIn'[p] = NoPass /\ ~Queued(p)'
      BY <2>3, <3>1 DEF Pending, Queued
    <3>3. ~(remoteAuthLoggingIn' /\ command'.player = p)
      BY <2>3, <3>1, QueueTail DEF IInv, HeadIsAsker, SessionTypeOK, Pending, Queued
    <3>4. CASE specialAuthorisation
      <4>1. authorisedState'[p] = 0 /\ authorisedLogins'[p] = NoLogin
        BY <3>4 DEF onPlayerJoin, IInv, SessionTypeOK
      <4>2. QED
        BY <2>3, <3>2, <3>3, <4>1 DEF SlotInv, Queued
    <3>5. CASE ~specialAuthorisation
      <4>1. /\ authorisedState'[p] = authorisedState[p]
            /\ authorisedLogins'[p] = authorisedLogins[p]
            /\ Sound(p)' => Sound(p)
        BY <3>5, <2>3 DEF onPlayerJoin, Sound
      <4>2. Sound(p) => authorisedState[p] \in 0 .. 1
        BY DEF onPlayerJoin, IInv, SlotInv
      <4>3. QED
        BY <2>3, <3>2, <3>3, <4>1, <4>2 DEF SlotInv, Queued, IInv
    <3>6. QED
      BY <3>4, <3>5
  <2>4. QED
    BY <2>1, <2>2, <2>3
<1>3. HeadIsAsker'
  BY HeadFrame DEF IInv, onPlayerJoin
<1>4. RequestIsCommand'
  <2>1. loginThread = "stale" => command.player \notin orphaned \ orphaned'
    BY AskerIsQueued DEF onPlayerJoin, Pending, IInv, HeadIsAsker
  <2>2. QED
    BY <2>1, RequestFrame DEF IInv, onPlayerJoin
<1>5. NoFaultUnlessOrphaned'
  BY DEF NoFaultUnlessOrphaned, onPlayerJoin, crashed
<1>6. QED
  BY <1>1, <1>2, <1>3, <1>4, <1>5 DEF IInv

(* Whoever leaves with a check under way makes his slot an orphaned one. *)
LEMMA LeaveStep ==
  ASSUME IInv, NEW p \in Players, onPlayerLeave(p), ~crashed
  PROVE  IInv'
<1>1. SessionTypeOK'
  <2> USE DEF IInv, SessionTypeOK
  <2>1. UNCHANGED <<toggleVars, checkVars, threadVars, authSendWelcomeMsg, fault>>
    BY DEF onPlayerLeave
  <2>2. /\ present' \in SUBSET Players
        /\ authorisedState' \in [Players -> 0 .. 255]
        /\ authorisedLogins' \in [Players -> Logins \cup {NoLogin}]
    BY DEF onPlayerLeave
  <2>3. /\ sent' \in [Players -> Passwords \cup {NoPass}]
        /\ granted' \in [Players -> Pairs \cup {Stray, NoCommand}]
        /\ orphaned' \in SUBSET Players
    BY DEF onPlayerLeave
  <2> QED
    BY <2>1, <2>2, <2>3 DEF toggleVars, checkVars, threadVars
<1>2. ASSUME NEW i \in Players PROVE SlotInv(i)'
  <2>1. CASE i # p
    BY <2>1, SlotFrame DEF IInv, SessionTypeOK, onPlayerLeave, toggleVars, checkVars, threadVars
  <2>2. CASE i = p /\ Pending(p)
    BY <2>2 DEF SlotInv, Sound, onPlayerLeave
  <2>3. CASE i = p /\ ~Pending(p)
    <3>1. UNCHANGED <<notLoggedIn, notLoggedInRemote, remoteAuthLoggingIn, command>>
      BY DEF onPlayerLeave, checkVars, threadVars
    <3>2. notLoggedIn'[p] = NoPass /\ ~Queued(p)'
      BY <2>3, <3>1 DEF Pending, Queued
    <3>3. ~(remoteAuthLoggingIn' /\ command'.player = p)
      BY <2>3, <3>1, QueueTail DEF IInv, HeadIsAsker, SessionTypeOK, Pending, Queued
    <3>4. authorisedState'[p] = 0 /\ authorisedLogins'[p] = NoLogin
      BY DEF onPlayerLeave, IInv, SessionTypeOK
    <3>5. QED
      BY <2>3, <3>2, <3>3, <3>4 DEF SlotInv, Queued
  <2>4. QED
    BY <2>1, <2>2, <2>3
<1>3. HeadIsAsker'
  BY HeadFrame DEF IInv, onPlayerLeave
<1>4. RequestIsCommand'
  BY RequestFrame DEF IInv, onPlayerLeave
<1>5. NoFaultUnlessOrphaned'
  BY DEF NoFaultUnlessOrphaned, onPlayerLeave, crashed
<1>6. QED
  BY <1>1, <1>2, <1>3, <1>4, <1>5 DEF IInv

(* The start of a game orphans every check there is. *)
LEMMA StartStep ==
  ASSUME IInv, onServerStart, ~crashed
  PROVE  IInv'
<1>1. SessionTypeOK'
  BY SessionAssumption DEF IInv, SessionTypeOK, onServerStart, toggleVars, checkVars, threadVars,
     SessionAssumption, PendingSlots
<1>2. ASSUME NEW i \in Players PROVE SlotInv(i)'
  <2>2. CASE Pending(i)
    BY <2>2 DEF SlotInv, Sound, onServerStart, PendingSlots
  <2>3. CASE ~Pending(i)
    <3>1. UNCHANGED <<notLoggedIn, notLoggedInRemote, remoteAuthLoggingIn, command>>
      BY DEF onServerStart, checkVars, threadVars
    <3>2. notLoggedIn'[i] = NoPass /\ ~Queued(i)'
      BY <2>3, <3>1 DEF Pending, Queued
    <3>3. ~(remoteAuthLoggingIn' /\ command'.player = i)
      BY <2>3, <3>1, QueueTail DEF IInv, HeadIsAsker, SessionTypeOK, Pending, Queued
    <3>4. authorisedState'[i] = 0 /\ authorisedLogins'[i] = NoLogin
      BY DEF onServerStart
    <3>5. QED
      BY <2>3, <3>2, <3>3, <3>4 DEF SlotInv, Queued
  <2>4. QED
    BY <2>2, <2>3
<1>3. HeadIsAsker'
  BY HeadFrame DEF IInv, onServerStart
<1>4. RequestIsCommand'
  BY RequestFrame DEF IInv, onServerStart
<1>5. NoFaultUnlessOrphaned'
  BY DEF NoFaultUnlessOrphaned, onServerStart, crashed
<1>6. QED
  BY <1>1, <1>2, <1>3, <1>4, <1>5 DEF IInv

-----------------------------------------------------------------------------
(* A thread carries no command of a sound slot that has no check. *)
LEMMA NoCommandOfIdle ==
  ASSUME IInv, NEW p \in Players, ~Queued(p)
  PROVE  ~(remoteAuthLoggingIn /\ command.player = p)
  BY QueueTail DEF IInv, HeadIsAsker, SessionTypeOK, Queued

(* In state 1 the slot has neither login nor check: giving a login starts *)
(* from nothing.                                                           *)
LEMMA LoginStep ==
  ASSUME IInv, NEW p \in Players, NEW login \in Logins, ChatLogin(p, login), ~crashed
  PROVE  IInv'
<1>0. /\ UNCHANGED <<toggleVars, checkVars, threadVars, present, fault, histVars>>
      /\ authorisedState[p] = 1 /\ p \in present
  BY DEF ChatLogin
<1>1. SessionTypeOK'
  <2>1. authorisedState' \in [Players -> 0 .. 255]
    <3>1. authorisedState' = [authorisedState EXCEPT ![p] = 2]
      BY DEF ChatLogin
    <3>2. authorisedState \in [Players -> 0 .. 255] /\ 2 \in 0 .. 255
      BY DEF IInv, SessionTypeOK
    <3>3. QED
      BY <3>1, <3>2
  <2>2. /\ authorisedLogins' \in [Players -> Logins \cup {NoLogin}]
        /\ authSendWelcomeMsg' \in [Players -> -2 .. WelcomeFrames]
    BY SessionAssumption DEF IInv, SessionTypeOK, ChatLogin, SessionAssumption
  <2>3. QED
    BY <1>0, <2>1, <2>2 DEF IInv, SessionTypeOK, toggleVars, checkVars, threadVars, histVars
<1>2. ASSUME NEW i \in Players PROVE SlotInv(i)'
  <2>1. CASE i # p
    BY <1>0, <2>1, SlotFrame DEF IInv, SessionTypeOK, ChatLogin, toggleVars, checkVars,
       threadVars, histVars
  <2>2. CASE i = p /\ Sound(p)
    <3>1. notLoggedIn[p] = NoPass /\ ~Queued(p) /\ p \in present
      BY <1>0, <2>2 DEF IInv, SlotInv
    <3>2. ~(remoteAuthLoggingIn /\ command.player = p)
      BY <3>1, NoCommandOfIdle
    <3>3. authorisedState'[p] = 2 /\ authorisedLogins'[p] # NoLogin
      BY SessionAssumption DEF ChatLogin, IInv, SessionTypeOK, SessionAssumption
    <3>4. QED
      BY <1>0, <2>2, <3>1, <3>2, <3>3 DEF SlotInv, Queued, toggleVars, checkVars, threadVars
  <2>3. CASE i = p /\ ~Sound(p)
    BY <1>0, <2>3 DEF SlotInv, Sound, histVars
  <2>4. QED
    BY <2>1, <2>2, <2>3
<1>3. HeadIsAsker'
  BY <1>0, HeadFrame DEF IInv
<1>4. RequestIsCommand'
  BY <1>0, RequestFrame DEF IInv, histVars
<1>5. NoFaultUnlessOrphaned'
  BY <1>0 DEF NoFaultUnlessOrphaned, crashed
<1>6. QED
  BY <1>1, <1>2, <1>3, <1>4, <1>5 DEF IInv

(* A password given in state 2 is the only check of its slot. *)
LEMMA PasswordStep ==
  ASSUME IInv, NEW p \in Players, NEW pass \in Passwords, ChatPassword(p, pass), ~crashed
  PROVE  IInv'
<1>0. /\ UNCHANGED <<toggleVars, threadVars, present, authorisedLogins, fault, granted, orphaned,
                     remoteAuthLoggingIn>>
      /\ authorisedState[p] = 2
      /\ notLoggedInRemote \in Seq(Players)
  BY DEF ChatPassword, authCheckDelayed, IInv, SessionTypeOK
<1>q. /\ notLoggedInRemote' \in Seq(Players)
      /\ \A i \in Players : i # p => (Queued(i)' <=> Queued(i))
      /\ Queued(p)' <=> Queued(p) \/ specialAuthRemote
  <2>1. CASE specialAuthRemote
    <3>1. notLoggedInRemote' = Append(notLoggedInRemote, p)
      BY <2>1 DEF ChatPassword, authCheckDelayed
    <3>2. QED
      BY <1>0, <2>1, <3>1, QueueAppend, LenProperties DEF Queued
  <2>2. CASE ~specialAuthRemote
    BY <1>0, <2>2 DEF ChatPassword, authCheckDelayed, Queued
  <2>3. QED
    BY <2>1, <2>2
<1>1. SessionTypeOK'
  <2>1. authorisedState' \in [Players -> 0 .. 255]
    <3>1. authorisedState' = [authorisedState EXCEPT ![p] = 3]
      BY DEF ChatPassword
    <3>2. authorisedState \in [Players -> 0 .. 255] /\ 3 \in 0 .. 255
      BY DEF IInv, SessionTypeOK
    <3>3. QED
      BY <3>1, <3>2
  <2>2. authSendWelcomeMsg' \in [Players -> -2 .. WelcomeFrames]
    BY SessionAssumption DEF IInv, SessionTypeOK, ChatPassword, SessionAssumption
  <2>3. /\ sent' \in [Players -> Passwords \cup {NoPass}]
        /\ notLoggedIn' \in [Players -> Passwords \cup {NoPass}]
    BY DEF IInv, SessionTypeOK, ChatPassword, authCheckDelayed
  <2>4. QED
    BY <1>0, <1>q, <2>1, <2>2, <2>3 DEF IInv, SessionTypeOK, toggleVars, threadVars
<1>2. ASSUME NEW i \in Players PROVE SlotInv(i)'
  <2>1. CASE ~Sound(i)
    BY <1>0, <2>1 DEF SlotInv, Sound
  <2>u. ASSUME Sound(i) PROVE \A m, n \in 1 .. Len(notLoggedInRemote') :
           notLoggedInRemote'[m] = i /\ notLoggedInRemote'[n] = i => m = n
    <3>1. i = p => ~Queued(p)
      BY <1>0, <2>u DEF IInv, SlotInv
    <3>2. \A m, n \in 1 .. Len(notLoggedInRemote) :
             notLoggedInRemote[m] = i /\ notLoggedInRemote[n] = i => m = n
      BY <2>u DEF IInv, SlotInv
    <3>3. CASE specialAuthRemote
      <4>1. notLoggedInRemote' = Append(notLoggedInRemote, p)
        BY <3>3 DEF ChatPassword, authCheckDelayed
      <4>2. QED
        BY <1>0, <3>1, <3>2, <4>1, QueueAppend, LenProperties DEF Queued
    <3>4. CASE ~specialAuthRemote
      BY <3>2, <3>4 DEF ChatPassword, authCheckDelayed
    <3>5. QED
      BY <3>3, <3>4
  <2>2. CASE i # p /\ Sound(i)
    <3>1. /\ authorisedState'[i] = authorisedState[i]
          /\ notLoggedIn'[i] = notLoggedIn[i]
          /\ sent'[i] = sent[i]
      BY <2>2 DEF ChatPassword, authCheckDelayed, IInv, SessionTypeOK
    <3>2. SlotInv(i)
      BY DEF IInv
    <3>3. QED
      BY <1>0, <1>q, <2>2, <2>u, <3>1, <3>2 DEF SlotInv, toggleVars, threadVars
  <2>3. CASE i = p /\ Sound(p)
    <3>1. notLoggedIn[p] = NoPass /\ ~Queued(p) /\ p \in present /\ authorisedLogins[p] # NoLogin
      BY <1>0, <2>3 DEF IInv, SlotInv
    <3>2. ~(remoteAuthLoggingIn /\ command.player = p)
      BY <3>1, NoCommandOfIdle
    <3>3. authorisedState'[p] = 3 /\ notLoggedIn'[p] = pass /\ sent'[p] = pass
      BY <3>1 DEF ChatPassword, authCheckDelayed, IInv, SessionTypeOK
    <3>4. pass # NoPass
      BY SessionAssumption DEF SessionAssumption
    <3>5. QED
      BY <1>0, <1>q, <2>3, <2>u, <3>1, <3>2, <3>3, <3>4 DEF SlotInv, toggleVars, threadVars
  <2>4. QED
    BY <2>1, <2>2, <2>3
<1>3. HeadIsAsker'
  <2>1. notLoggedInRemote # <<>> =>
           notLoggedInRemote' # <<>> /\ Head(notLoggedInRemote') = Head(notLoggedInRemote)
    BY <1>0, QueueAppend DEF ChatPassword, authCheckDelayed
  <2>2. QED
    BY <1>0, <2>1 DEF IInv, HeadIsAsker, threadVars
<1>4. RequestIsCommand'
  BY <1>0, RequestFrame DEF IInv, histVars
<1>5. NoFaultUnlessOrphaned'
  BY <1>0 DEF NoFaultUnlessOrphaned, crashed
<1>6. QED
  BY <1>1, <1>2, <1>3, <1>4, <1>5 DEF IInv

(* A message turns state 0 into 1 and nothing else. *)
LEMMA FrameStep ==
  ASSUME IInv, onEachFrame, ~crashed
  PROVE  IInv'
<1>0. /\ UNCHANGED <<toggleVars, checkVars, threadVars, present, authorisedLogins, fault, histVars>>
  BY DEF onEachFrame
<1>1. SessionTypeOK'
  <2>1. authorisedState' \in [Players -> 0 .. 255]
    BY DEF IInv, SessionTypeOK, onEachFrame
  <2>2. authSendWelcomeMsg' \in [Players -> -2 .. WelcomeFrames]
    BY SessionAssumption DEF IInv, SessionTypeOK, onEachFrame, SessionAssumption, MessageDue
  <2>3. QED
    BY <1>0, <2>1, <2>2 DEF IInv, SessionTypeOK, toggleVars, checkVars, threadVars, histVars
<1>2. ASSUME NEW i \in Players PROVE SlotInv(i)'
  <2>1. \/ authorisedState'[i] = authorisedState[i]
        \/ authorisedState[i] = 0 /\ authorisedState'[i] = 1
    BY DEF onEachFrame
  <2>2. Queued(i)' <=> Queued(i)
    BY <1>0 DEF Queued, checkVars
  <2>3. SlotInv(i)
    BY DEF IInv
  <2>4. QED
    BY <1>0, <2>1, <2>2, <2>3 DEF SlotInv, Sound, toggleVars, checkVars, threadVars, histVars
<1>3. HeadIsAsker'
  BY <1>0, HeadFrame DEF IInv
<1>4. RequestIsCommand'
  BY <1>0, RequestFrame DEF IInv, histVars
<1>5. NoFaultUnlessOrphaned'
  BY <1>0 DEF NoFaultUnlessOrphaned, crashed
<1>6. QED
  BY <1>1, <1>2, <1>3, <1>4, <1>5 DEF IInv

(* An answer leaves a byte. *)
LEMMA AnsweredByte ==
  ASSUME NEW state \in 0 .. 255, NEW yes
  PROVE  Answered(state, yes) \in 0 .. 255
  BY DEF Answered

(* Without a remote server: every password is checked, and the slot of     *)
(* each sound one is in state 3.                                           *)
LEMMA LocalStep ==
  ASSUME IInv, NEW ok \in [Players -> BOOLEAN], CheckLocally(ok), ~crashed
  PROVE  IInv'
<1> DEFINE S == {i \in Players : notLoggedIn[i] # NoPass}
           about == [i \in Players |-> <<authorisedLogins[i], notLoggedIn[i]>>]
           Give == /\ Apply(S, ok, about)
                   /\ notLoggedIn' = [i \in Players |-> NoPass]
                   /\ UNCHANGED <<toggleVars, threadVars, notLoggedInRemote,
                                  remoteAuthLoggingIn, present, fault, sent, orphaned>>
           Fault == FreesLiteral(S, ok) /\ Abort("login")
<1>0. ~specialAuthRemote /\ (Give \/ Fault)
  BY DEF CheckLocally
<1>1. CASE Give
  <2>1. SessionTypeOK'
    <3>1. authorisedState' \in [Players -> 0 .. 255]
      <4>1. \A i \in Players : authorisedState[i] \in 0 .. 255
        BY DEF IInv, SessionTypeOK
      <4>2. \A i \in Players : Answered(authorisedState[i], ok[i]) \in 0 .. 255
        BY <4>1, AnsweredByte
      <4>3. QED
        BY <1>1, <4>1, <4>2 DEF Apply
    <3>2. authorisedLogins' \in [Players -> Logins \cup {NoLogin}]
      BY <1>1 DEF IInv, SessionTypeOK, Apply
    <3>3. authSendWelcomeMsg' \in [Players -> -2 .. WelcomeFrames]
      BY <1>1, SessionAssumption DEF IInv, SessionTypeOK, Apply, SessionAssumption
    <3>4. granted' \in [Players -> Pairs \cup {Stray, NoCommand}]
      <4>1. \A i \in S : about[i] \in Pairs
        BY DEF IInv, SessionTypeOK, Pairs
      <4>2. granted' = [i \in Players |->
               IF i \in S /\ ok[i] /\ authorisedState[i] = 3 THEN about[i] ELSE granted[i]]
        BY <1>1 DEF Apply
      <4>3. QED
        BY <4>1, <4>2 DEF IInv, SessionTypeOK
    <3>5. notLoggedIn' \in [Players -> Passwords \cup {NoPass}]
      BY <1>1
    <3>6. QED
      BY <1>1, <3>1, <3>2, <3>3, <3>4, <3>5 DEF IInv, SessionTypeOK, toggleVars, threadVars
  <2>2. ASSUME NEW i \in Players, Sound(i) PROVE SlotInv(i)'
    <3>1. SlotInv(i) /\ (Queued(i)' <=> Queued(i)) /\ ~Queued(i)
      BY <1>0, <1>1, <2>2 DEF IInv, SlotInv, Queued
    <3>2. ~(remoteAuthLoggingIn /\ command.player = i)
      BY <3>1, NoCommandOfIdle
    <3>3. notLoggedIn'[i] = NoPass
      BY <1>1
    <3>4. CASE i \notin S
      <4>1. /\ authorisedState'[i] = authorisedState[i]
            /\ authorisedLogins'[i] = authorisedLogins[i]
            /\ granted'[i] = granted[i]
            /\ notLoggedIn[i] = NoPass
        BY <1>1, <3>4 DEF Apply
      <4>2. QED
        BY <1>1, <2>2, <3>1, <3>2, <3>3, <4>1 DEF SlotInv, toggleVars, threadVars
    <3>5. CASE i \in S
      <4>1. /\ authorisedState[i] = 3 /\ i \in present
            /\ authorisedLogins[i] # NoLogin /\ notLoggedIn[i] = sent[i]
        BY <2>2, <3>1, <3>5 DEF SlotInv
      <4>2. CASE ok[i]
        <5>1. /\ authorisedState'[i] = 4
              /\ authorisedLogins'[i] = authorisedLogins[i]
              /\ granted'[i] = <<authorisedLogins[i], sent[i]>>
          BY <1>1, <3>5, <4>1, <4>2 DEF Apply, Answered
        <5>2. QED
          BY <1>1, <2>2, <3>1, <3>2, <3>3, <4>1, <5>1 DEF SlotInv, toggleVars, threadVars
      <4>3. CASE ~ok[i]
        <5>1. authorisedState'[i] = 1 /\ authorisedLogins'[i] = NoLogin
          BY <1>1, <3>5, <4>1, <4>3 DEF Apply, Answered
        <5>2. QED
          BY <1>1, <2>2, <3>1, <3>2, <3>3, <4>1, <5>1 DEF SlotInv, toggleVars, threadVars
      <4>4. QED
        BY <4>2, <4>3
    <3>6. QED
      BY <3>4, <3>5
  <2>3. ASSUME NEW i \in Players, ~Sound(i) PROVE SlotInv(i)'
    BY <1>1, <2>3 DEF SlotInv, Sound
  <2>4. HeadIsAsker' /\ NoFaultUnlessOrphaned' /\ RequestIsCommand'
    BY <1>1, RequestFrame DEF IInv, HeadIsAsker, NoFaultUnlessOrphaned, threadVars
  <2>5. QED
    BY <2>1, <2>2, <2>3, <2>4 DEF IInv
<1>2. CASE Fault
  <2>1. PICK i \in S : authorisedLogins[i] = NoLogin
    BY <1>2 DEF FreesLiteral
  <2>2. ~Sound(i)
    BY <2>1 DEF IInv, SlotInv
  <2>3. QED
    BY <1>2, <2>2, AbortStep DEF Sound, Faults
<1>3. QED
  BY <1>0, <1>1, <1>2

(* The slot of a login thread that finds no server to ask, or another one, *)
(* lost its player when the server was switched off.                       *)
LEMMA NoServerNoPlayer ==
  ASSUME IInv, remoteAuthLoggingIn, ~specialAuthRemote \/ loginThread = "stale"
  PROVE  command.player \in orphaned
  BY AskerIsQueued DEF IInv, SlotInv, Sound, RequestIsCommand

(* The login thread only moves itself on. *)
LEMMA ThreadStep ==
  ASSUME IInv, authRemoteLogin, ~crashed
  PROVE  IInv'
<1>0. loginThread \in {"start", "stale", "wait"} /\ remoteAuthLoggingIn
  BY DEF authRemoteLogin, LoginThreadSend, LoginThreadAnswer, IInv, HeadIsAsker
<1>1. ASSUME UNCHANGED <<toggleVars, checkVars, command, slotVars, fault, histVars>>,
             SessionTypeOK', loginThread' # "none", RequestIsCommand'
      PROVE  IInv'
  <2>1. ASSUME NEW i \in Players PROVE SlotInv(i)'
    BY <1>1, SlotFrame DEF IInv, toggleVars, checkVars, slotVars, histVars
  <2>2. HeadIsAsker' /\ NoFaultUnlessOrphaned'
    BY <1>0, <1>1 DEF IInv, HeadIsAsker, NoFaultUnlessOrphaned, checkVars, histVars
  <2>3. QED
    BY <1>1, <2>1, <2>2 DEF IInv
<1>2. CASE LoginThreadSend
  <2>1. CASE ~Abort("server") /\ ~Abort("command")
    <3>1. /\ UNCHANGED <<toggleVars, checkVars, command, lastAuthResultCodeL, slotVars, fault,
                         histVars>>
          /\ loginThread' = "wait" /\ freed' = FALSE /\ request' \in Requested
      BY <1>2, <2>1 DEF LoginThreadSend
    <3>2. request' \in {<<command.login, command.pass>>, Stray}
      BY <3>1 DEF Requested
    <3>3. <<command.login, command.pass>> \in Pairs
      BY <1>0 DEF IInv, HeadIsAsker, Commands, Pairs
    <3>4. SessionTypeOK'
      BY <3>1, <3>2, <3>3 DEF IInv, SessionTypeOK, toggleVars, checkVars, slotVars, histVars
    <3>5. RequestIsCommand'
      BY <3>1, <3>2 DEF RequestIsCommand
    <3>6. QED
      BY <1>1, <3>1, <3>4, <3>5
  <2>2. CASE Abort("server")
    <3>1. loginThread = "stale" \/ ~specialAuthRemote
      BY <1>2, <2>2 DEF LoginThreadSend, Abort, crashed
    <3>2. orphaned # {}
      BY <1>0, <3>1, NoServerNoPlayer
    <3>3. QED
      BY <2>2, <3>2, AbortStep DEF Faults
  <2>3. CASE Abort("command")
    BY <2>3, AbortStep DEF Faults
  <2>4. QED
    BY <2>1, <2>2, <2>3
<1>3. CASE LoginThreadAnswer
  <2>1. CASE ~Abort("length")
    <3>1. /\ UNCHANGED <<toggleVars, checkVars, command, freed, request, slotVars, fault, histVars>>
          /\ loginThread = "wait" /\ loginThread' = "done" /\ lastAuthResultCodeL' \in BOOLEAN
      BY <1>3, <2>1 DEF LoginThreadAnswer
    <3>2. SessionTypeOK'
      BY <3>1 DEF IInv, SessionTypeOK, toggleVars, checkVars, slotVars, histVars
    <3>3. RequestIsCommand'
      BY <3>1 DEF IInv, RequestIsCommand
    <3>4. QED
      BY <1>1, <3>1, <3>2, <3>3
  <2>2. CASE Abort("length")
    BY <2>2, AbortStep DEF Faults
  <2>3. QED
    BY <2>1, <2>2
<1>4. QED
  BY <1>2, <1>3 DEF authRemoteLogin

(* A report deletes a buffer, which the thread has yet to read. *)
LEMMA ReportStep ==
  ASSUME IInv, ReportCommand, ~crashed
  PROVE  IInv'
<1>1. CASE Abort("length")
  BY <1>1, AbortStep DEF Faults
<1>2. CASE ~Abort("length")
  <2>1. /\ UNCHANGED <<toggleVars, checkVars, loginThread, command, request,
                       lastAuthResultCodeL, slotVars, fault, sent, granted, orphaned>>
        /\ loginThread \in {"start", "stale"} /\ freed' = TRUE
    BY <1>2 DEF ReportCommand
  <2>2. SessionTypeOK'
    BY <2>1 DEF IInv, SessionTypeOK, toggleVars, checkVars, slotVars
  <2>3. ASSUME NEW i \in Players PROVE SlotInv(i)'
    BY <2>1, SlotFrame DEF IInv, toggleVars, checkVars, slotVars
  <2>4. HeadIsAsker' /\ RequestIsCommand' /\ NoFaultUnlessOrphaned'
    BY <2>1 DEF IInv, HeadIsAsker, RequestIsCommand, NoFaultUnlessOrphaned, checkVars
  <2>5. QED
    BY <2>2, <2>3, <2>4 DEF IInv
<1>3. QED
  BY <1>1, <1>2

(* Switching the remote server off or on leaves every check to nobody. *)
LEMMA ToggleStep ==
  ASSUME IInv, NEW remote \in BOOLEAN, authToggle(remote), ~crashed
  PROVE  IInv'
<1>0. /\ UNCHANGED <<checkVars, command, freed, request, lastAuthResultCodeL, slotVars, fault,
                     sent, granted>>
      /\ loginThread' = IF loginThread = "start" THEN "stale" ELSE loginThread
  BY DEF authToggle
<1>1. SessionTypeOK'
  <2>1. /\ specialAuthorisation' \in BOOLEAN
        /\ specialAuthRemote' \in BOOLEAN
        /\ specialAuthRemote' => specialAuthorisation'
    BY DEF authToggle, IInv, SessionTypeOK
  <2>2. orphaned' \in SUBSET Players
    BY DEF authToggle, IInv, SessionTypeOK, PendingSlots
  <2>3. QED
    BY <1>0, <2>1, <2>2 DEF IInv, SessionTypeOK, checkVars, slotVars
<1>2. ASSUME NEW i \in Players PROVE SlotInv(i)'
  <2>1. CASE specialAuthRemote' = specialAuthRemote
    <3>1. orphaned' = orphaned
      BY <2>1 DEF authToggle
    <3>2. QED
      BY <1>0, <2>1, <3>1, SlotFrame DEF IInv, checkVars, slotVars
  <2>2. CASE specialAuthRemote' # specialAuthRemote /\ Pending(i)
    <3>1. i \in orphaned'
      BY <2>2 DEF authToggle, PendingSlots
    <3>2. QED
      BY <3>1 DEF SlotInv, Sound
  <2>3. CASE specialAuthRemote' # specialAuthRemote /\ ~Pending(i)
    <3>1. notLoggedIn[i] = NoPass /\ ~Queued(i)
      BY <2>3 DEF Pending
    <3>2. i \notin orphaned' => i \notin orphaned
      BY <2>3 DEF authToggle
    <3>3. SlotInv(i)
      BY DEF IInv
    <3>4. QED
      BY <1>0, <3>1, <3>2, <3>3 DEF SlotInv, Sound, Queued, checkVars, slotVars
  <2>4. QED
    BY <2>1, <2>2, <2>3
<1>3. HeadIsAsker'
  BY <1>0 DEF IInv, HeadIsAsker, checkVars
<1>4. RequestIsCommand'
  <2>1. loginThread = "start" => command.player \in orphaned'
    <3>1. CASE specialAuthRemote
      BY <3>1, AskerIsQueued DEF authToggle, IInv, HeadIsAsker, SessionTypeOK, Pending,
         PendingSlots
    <3>2. CASE ~specialAuthRemote
      BY <3>2, NoServerNoPlayer DEF authToggle, IInv, HeadIsAsker
    <3>3. QED
      BY <3>1, <3>2
  <2>2. orphaned \subseteq orphaned'
    BY DEF authToggle
  <2>3. QED
    BY <1>0, <2>1, <2>2 DEF IInv, RequestIsCommand
<1>5. NoFaultUnlessOrphaned'
  BY <1>0 DEF NoFaultUnlessOrphaned, crashed
<1>6. QED
  BY <1>1, <1>2, <1>3, <1>4, <1>5 DEF IInv

-----------------------------------------------------------------------------
QueuedIn(q, i) == \E n \in 1 .. Len(q) : q[n] = i
Once(q, i) == \A m, n \in 1 .. Len(q) : q[m] = i /\ q[n] = i => m = n

(* Taking the head of the queue removes a slot that stands in it once, and *)
(* no other.                                                               *)
LEMMA QueueOnce ==
  ASSUME NEW q \in Seq(Players), q # <<>>, NEW i \in Players, Once(q, i)
  PROVE  /\ Once(Tail(q), i)
         /\ i = Head(q) => ~QueuedIn(Tail(q), i)
         /\ i # Head(q) => (QueuedIn(Tail(q), i) <=> QueuedIn(q, i))
<1>1. /\ Len(q) \in Nat /\ Len(Tail(q)) = Len(q) - 1 /\ Head(q) = q[1] /\ Len(q) > 0
      /\ \A n \in 1 .. Len(Tail(q)) : Tail(q)[n] = q[n + 1]
  BY QueueTail
<1>2. \A n \in 1 .. Len(Tail(q)) : n + 1 \in 1 .. Len(q) /\ Tail(q)[n] = q[n + 1] /\ n + 1 # 1
  BY <1>1
<1>3. Once(Tail(q), i)
  BY <1>1, <1>2 DEF Once
<1>4. i = Head(q) => ~QueuedIn(Tail(q), i)
  BY <1>1, <1>2 DEF Once, QueuedIn
<1>5. i # Head(q) /\ QueuedIn(q, i) => QueuedIn(Tail(q), i)
  <2> SUFFICES ASSUME i # Head(q), NEW n \in 1 .. Len(q), q[n] = i
               PROVE  QueuedIn(Tail(q), i)
    BY DEF QueuedIn
  <2>1. n - 1 \in 1 .. Len(Tail(q)) /\ (n - 1) + 1 = n
    BY <1>1
  <2>2. Tail(q)[n - 1] = i
    BY <1>1, <2>1
  <2>3. QED
    BY <2>1, <2>2 DEF QueuedIn
<1>6. QueuedIn(Tail(q), i) => QueuedIn(q, i)
  BY <1>2 DEF QueuedIn
<1>7. QED
  BY <1>3, <1>4, <1>5, <1>6

(* What collecting an answer leaves in the queue. *)
LEMMA WaitingQueue ==
  ASSUME IInv
  PROVE  /\ Waiting \in Seq(Players)
         /\ Collected \in SUBSET Players
         /\ \A i \in Collected : Ended /\ i = Head(notLoggedInRemote) /\ Queued(i)
                                 /\ command.player = i /\ command \in Commands
         /\ \A i \in Players : Sound(i) =>
              /\ Once(Waiting, i)
              /\ i \in Collected => ~QueuedIn(Waiting, i)
              /\ i \notin Collected => (QueuedIn(Waiting, i) <=> Queued(i))
<1>1. /\ notLoggedInRemote \in Seq(Players)
      /\ \A i \in Players : Sound(i) => Once(notLoggedInRemote, i)
  BY DEF IInv, SessionTypeOK, SlotInv, Once
<1>2. CASE Ended
  <2>1. /\ notLoggedInRemote # <<>>
        /\ command \in Commands /\ command.player = Head(notLoggedInRemote)
    BY <1>2 DEF IInv, HeadIsAsker, Ended
  <2>2. Head(notLoggedInRemote) \in Players /\ Queued(Head(notLoggedInRemote))
    BY <1>1, <2>1, QueueTail DEF Queued
  <2>3. Waiting = Tail(notLoggedInRemote) /\ Collected = {Head(notLoggedInRemote)}
    BY <1>2 DEF Waiting, Collected
  <2>4. \A i \in Players : QueuedIn(notLoggedInRemote, i) <=> Queued(i)
    BY DEF QueuedIn, Queued
  <2>5. Tail(notLoggedInRemote) \in Seq(Players)
    BY <1>1, <2>1, QueueTail
  <2>6. \A i \in Players : Sound(i) =>
              /\ Once(Waiting, i)
              /\ i \in Collected => ~QueuedIn(Waiting, i)
              /\ i \notin Collected => (QueuedIn(Waiting, i) <=> Queued(i))
    BY <1>1, <2>1, <2>3, <2>4, QueueOnce
  <2>7. QED
    BY <1>2, <2>1, <2>2, <2>3, <2>5, <2>6
<1>3. CASE ~Ended
  BY <1>1, <1>3 DEF Waiting, Collected, QueuedIn, Queued
<1>4. QED
  BY <1>2, <1>3

(* With a remote server: the answer goes to the slot that asked, and the   *)
(* next command is that of the slot now at the head.                       *)
LEMMA RemoteStep ==
  ASSUME IInv, CheckRemotely, ~crashed
  PROVE  IInv'
<1> DEFINE about == [i \in Players |-> request]
           ok    == [i \in Players |-> lastAuthResultCodeL]
           start == Waiting # <<>> /\ ~Busy
           next  == Head(Waiting)
           Give  == /\ start => PassesLeft[next] # NoPass
                    /\ Apply(Collected, ok, about)
                    /\ notLoggedIn' = PassesLeft
                    /\ notLoggedInRemote' = Waiting
                    /\ remoteAuthLoggingIn' = (start \/ Busy)
                    /\ loginThread' \in IF start THEN {"start", "failed"}
                                       ELSE IF Ended THEN {"none"} ELSE {loginThread}
                    /\ command' = IF start
                         THEN [player |-> next, login |-> authorisedLogins'[next],
                               pass |-> PassesLeft[next]]
                         ELSE IF Ended THEN NoCommand ELSE command
                    /\ request' = IF Ended THEN NoCommand ELSE request
                    /\ lastAuthResultCodeL' = (lastAuthResultCodeL /\ ~Ended)
                    /\ UNCHANGED <<toggleVars, present, freed, fault, sent, orphaned>>
           FaultLogin == FreesLiteral(Collected, ok) /\ Abort("login")
           FaultPass == start /\ PassesLeft[next] = NoPass /\ Abort("pass")
<1>0. specialAuthRemote /\ (Give \/ FaultLogin \/ FaultPass)
  BY DEF CheckRemotely
<1>w. /\ Waiting \in Seq(Players)
      /\ Collected \in SUBSET Players
      /\ \A i \in Collected : Ended /\ i = Head(notLoggedInRemote) /\ Queued(i)
                              /\ command.player = i /\ command \in Commands
      /\ \A i \in Players : Sound(i) =>
           /\ Once(Waiting, i)
           /\ i \in Collected => ~QueuedIn(Waiting, i)
           /\ i \notin Collected => (QueuedIn(Waiting, i) <=> Queued(i))
  BY WaitingQueue
<1>n. start => next \in Players /\ QueuedIn(Waiting, next)
  BY <1>w, QueueTail DEF QueuedIn
<1>1. CASE Give
  <2>1. /\ UNCHANGED <<toggleVars, present, freed, fault, sent, orphaned>>
        /\ lastAuthResultCodeL' \in BOOLEAN
        /\ request' = IF Ended THEN NoCommand ELSE request
        /\ notLoggedInRemote' = Waiting
        /\ remoteAuthLoggingIn' = (start \/ Busy)
    BY <1>1
  <2>2. PassesLeft \in [Players -> Passwords \cup {NoPass}]
    BY DEF PassesLeft, IInv, SessionTypeOK
  <2>3. authorisedState' \in [Players -> 0 .. 255]
    <3>1. \A i \in Players : authorisedState[i] \in 0 .. 255
      BY DEF IInv, SessionTypeOK
    <3>2. \A i \in Players : Answered(authorisedState[i], ok[i]) \in 0 .. 255
      BY <3>1, AnsweredByte
    <3>3. QED
      BY <1>1, <3>1, <3>2 DEF Apply
  <2>4. authorisedLogins' \in [Players -> Logins \cup {NoLogin}]
    BY <1>1 DEF IInv, SessionTypeOK, Apply
  <2>5. command' \in Commands \cup {NoCommand}
    <3>1. CASE start
      <4>1. command' = [player |-> next, login |-> authorisedLogins'[next],
                        pass |-> PassesLeft[next]]
        BY <1>1, <3>1
      <4>2. PassesLeft[next] \in Passwords
        BY <1>1, <1>n, <2>2, <3>1
      <4>3. QED
        BY <1>n, <2>4, <3>1, <4>1, <4>2 DEF Commands
    <3>2. CASE ~start
      BY <1>1, <3>2 DEF IInv, SessionTypeOK
    <3>3. QED
      BY <3>1, <3>2
  <2>6. SessionTypeOK'
    <3>1. authSendWelcomeMsg' \in [Players -> -2 .. WelcomeFrames]
      BY <1>1, SessionAssumption DEF IInv, SessionTypeOK, Apply, SessionAssumption
    <3>2. granted' \in [Players -> Pairs \cup {Stray, NoCommand}]
      <4>1. \A i \in Collected : about[i] \in Pairs \cup {Stray}
        BY <1>w DEF Commands, Pairs, IInv, RequestIsCommand, Ended
      <4>2. granted' = [i \in Players |->
               IF i \in Collected /\ ok[i] /\ authorisedState[i] = 3 THEN about[i] ELSE granted[i]]
        BY <1>1 DEF Apply
      <4>3. QED
        BY <4>1, <4>2 DEF IInv, SessionTypeOK
    <3>3. loginThread' \in {"none", "start", "stale", "wait", "done", "failed"} /\ remoteAuthLoggingIn' \in BOOLEAN
      BY <1>1 DEF IInv, SessionTypeOK
    <3>4. QED
      BY <1>1, <1>w, <2>1, <2>2, <2>3, <2>4, <2>5, <3>1, <3>2, <3>3
         DEF IInv, SessionTypeOK, toggleVars
  <2>7. ASSUME NEW i \in Players, Sound(i) PROVE SlotInv(i)'
    <3>1. SlotInv(i)
      BY DEF IInv
    <3>2. Queued(i)' <=> QueuedIn(Waiting, i)
      BY <2>1 DEF Queued, QueuedIn
    <3>3. Once(Waiting, i) /\ Once(notLoggedInRemote', i)
      BY <1>w, <2>1, <2>7
    <3>4. notLoggedIn'[i] = PassesLeft[i]
      BY <1>1
    <3>5. CASE i \in Collected
      <4>1. Queued(i) /\ ~Queued(i)' /\ Ended /\ ~Busy
        BY <1>w, <2>7, <3>2, <3>5 DEF Busy
      <4>2. notLoggedIn'[i] = NoPass
        BY <3>4, <3>5 DEF PassesLeft
      <4>3. ~(remoteAuthLoggingIn' /\ command'.player = i)
        <5>1. remoteAuthLoggingIn' => start
          BY <2>1, <4>1
        <5>2. start => command'.player = next
          BY <1>1
        <5>3. start => next # i
          BY <1>n, <3>2, <4>1
        <5>4. QED
          BY <5>1, <5>2, <5>3
      <4>4. /\ authorisedState[i] = 3 /\ i \in present /\ authorisedLogins[i] # NoLogin
            /\ notLoggedIn[i] = sent[i]
        BY <2>7, <3>1, <4>1 DEF SlotInv
      <4>5. request \in {<<authorisedLogins[i], sent[i]>>, Stray}
        <5>1. remoteAuthLoggingIn /\ command.player = i
          BY <1>w, <3>5, <4>1 DEF Ended
        <5>2. command = [player |-> i, login |-> authorisedLogins[i], pass |-> notLoggedIn[i]]
          BY <2>7, <3>1, <5>1 DEF SlotInv
        <5>3. request \in {<<command.login, command.pass>>, Stray}
          BY <4>1 DEF Ended, IInv, RequestIsCommand
        <5>4. QED
          BY <4>4, <5>2, <5>3
      <4>6. CASE lastAuthResultCodeL
        <5>1. /\ authorisedState'[i] = 4
              /\ authorisedLogins'[i] = authorisedLogins[i]
              /\ granted'[i] \in {<<authorisedLogins[i], sent[i]>>, Stray}
          BY <1>1, <3>5, <4>4, <4>5, <4>6 DEF Apply, Answered
        <5>2. QED
          BY <2>1, <2>7, <3>3, <4>1, <4>2, <4>3, <4>4, <5>1 DEF SlotInv, Once, toggleVars
      <4>7. CASE ~lastAuthResultCodeL
        <5>1. authorisedState'[i] = 1 /\ authorisedLogins'[i] = NoLogin
          BY <1>1, <3>5, <4>4, <4>7 DEF Apply, Answered
        <5>2. QED
          BY <2>1, <2>7, <3>3, <4>1, <4>2, <4>3, <4>4, <5>1 DEF SlotInv, Once, toggleVars
      <4>8. QED
        BY <4>6, <4>7
    <3>6. CASE i \notin Collected
      <4>1. Queued(i)' <=> Queued(i)
        BY <1>w, <2>7, <3>2, <3>6
      <4>2. /\ authorisedState'[i] = authorisedState[i]
            /\ authorisedLogins'[i] = authorisedLogins[i]
            /\ granted'[i] = granted[i]
            /\ notLoggedIn'[i] = notLoggedIn[i]
        BY <1>1, <3>4, <3>6 DEF Apply, PassesLeft
      <4>3. ASSUME remoteAuthLoggingIn', command'.player = i
            PROVE  command' = [player |-> i, login |-> authorisedLogins'[i],
                               pass |-> notLoggedIn'[i]]
        <5>1. CASE start
          <6>1. command' = [player |-> next, login |-> authorisedLogins'[next],
                            pass |-> PassesLeft[next]]
            BY <1>1, <5>1
          <6>2. next = i
            BY <4>3, <6>1
          <6>3. QED
            BY <3>4, <6>1, <6>2
        <5>2. CASE ~start
          <6>1. Busy
            BY <2>1, <4>3, <5>2
          <6>2. remoteAuthLoggingIn /\ command' = command
            BY <1>1, <5>2, <6>1 DEF Busy
          <6>3. QED
            BY <2>7, <3>1, <4>2, <4>3, <6>2 DEF SlotInv
        <5>3. QED
          BY <5>1, <5>2
      <4>4. QED
        BY <2>1, <2>7, <3>1, <3>3, <4>1, <4>2, <4>3 DEF SlotInv, Once, toggleVars
    <3>7. QED
      BY <3>5, <3>6
  <2>8. ASSUME NEW i \in Players, ~Sound(i) PROVE SlotInv(i)'
    BY <2>1, <2>8 DEF SlotInv, Sound
  <2>9. HeadIsAsker'
    <3>1. CASE start
      <4>1. /\ remoteAuthLoggingIn' /\ loginThread' \in {"start", "failed"}
            /\ notLoggedInRemote' # <<>> /\ Head(notLoggedInRemote') = next
            /\ command' = [player |-> next, login |-> authorisedLogins'[next],
                           pass |-> PassesLeft[next]]
        BY <1>1, <3>1
      <4>2. PassesLeft[next] \in Passwords
        BY <1>1, <1>n, <2>2, <3>1
      <4>3. command' \in Commands
        BY <1>n, <2>4, <3>1, <4>1, <4>2 DEF Commands
      <4>4. QED
        BY <4>1, <4>3 DEF HeadIsAsker
    <3>2. CASE ~start /\ Ended
      BY <1>1, <3>2 DEF HeadIsAsker, Busy
    <3>3. CASE ~start /\ ~Ended
      <4>1. /\ remoteAuthLoggingIn' = remoteAuthLoggingIn
            /\ UNCHANGED <<loginThread, command, notLoggedInRemote>>
        BY <1>1, <3>3 DEF Busy, Waiting, IInv, SessionTypeOK
      <4>2. QED
        BY <4>1 DEF IInv, HeadIsAsker
    <3>4. QED
      BY <3>1, <3>2, <3>3
  <2>10. NoFaultUnlessOrphaned' /\ RequestIsCommand'
    <3>1. NoFaultUnlessOrphaned'
      BY <2>1 DEF NoFaultUnlessOrphaned, crashed
    <3>2. CASE Ended
      <4>1. freed' = FALSE /\ loginThread' \in {"none", "start", "failed"}
        BY <1>1, <2>1, <3>2 DEF Ended, IInv, SessionTypeOK, RequestIsCommand
      <4>2. QED
        BY <3>1, <4>1 DEF RequestIsCommand
    <3>3. CASE ~Ended /\ start
      <4>1. ~remoteAuthLoggingIn
        BY <3>3 DEF Busy
      <4>2. ~freed
        BY <4>1 DEF IInv, HeadIsAsker, RequestIsCommand
      <4>3. freed' = FALSE /\ loginThread' \in {"start", "failed"}
        BY <1>1, <2>1, <3>3, <4>2 DEF IInv, SessionTypeOK
      <4>4. QED
        BY <3>1, <4>3 DEF RequestIsCommand
    <3>4. CASE ~Ended /\ ~start
      <4>1. UNCHANGED <<loginThread, command, freed, request, orphaned>>
        BY <1>1, <2>1, <3>4
      <4>2. QED
        BY <3>1, <4>1 DEF IInv, RequestIsCommand
    <3>5. QED
      BY <3>2, <3>3, <3>4
  <2>11. QED
    BY <2>6, <2>7, <2>8, <2>9, <2>10 DEF IInv
<1>2. CASE FaultLogin
  <2>1. PICK i \in Collected : authorisedLogins[i] = NoLogin
    BY <1>2 DEF FreesLiteral
  <2>2. ~Sound(i)
    BY <1>w, <2>1 DEF IInv, SlotInv
  <2>3. QED
    BY <1>2, <2>2, AbortStep DEF Sound, Faults
<1>3. CASE FaultPass
  <2>1. ASSUME Sound(next) PROVE FALSE
    <3>1. next \in Players /\ next \notin Collected /\ Queued(next)
      BY <1>n, <1>w, <1>3, <2>1
    <3>2. notLoggedIn[next] = NoPass
      BY <1>3, <3>1 DEF PassesLeft
    <3>3. QED
      BY <1>0, <2>1, <3>1, <3>2 DEF IInv, SlotInv
  <2>2. QED
    BY <1>3, <2>1, AbortStep DEF Sound, Faults
<1>4. QED
  BY <1>0, <1>1, <1>2, <1>3

-----------------------------------------------------------------------------
(* The initial state satisfies the invariant: nobody is there, and nothing *)
(* is checked.                                                             *)
LEMMA SessionStart == SessionInit => IInv
<1> SUFFICES ASSUME SessionInit PROVE IInv
  OBVIOUS
<1>1. SessionTypeOK
  <2>1. notLoggedInRemote \in Seq(Players)
    BY EmptySeq DEF SessionInit
  <2>2. authSendWelcomeMsg \in [Players -> -2 .. WelcomeFrames]
    BY SessionAssumption DEF SessionInit, SessionAssumption
  <2>3. authorisedState \in [Players -> 0 .. 255]
    BY DEF SessionInit
  <2>4. QED
    BY <2>1, <2>2, <2>3 DEF SessionInit, SessionTypeOK
<1>2. ASSUME NEW i \in Players PROVE SlotInv(i)
  BY EmptySeq DEF SessionInit, SlotInv, Queued
<1>3. HeadIsAsker /\ RequestIsCommand /\ NoFaultUnlessOrphaned
  BY DEF SessionInit, HeadIsAsker, RequestIsCommand, NoFaultUnlessOrphaned
<1>4. QED
  BY <1>1, <1>2, <1>3 DEF IInv

(* Every step of the dialogue keeps the invariant. *)
LEMMA SessionStep == IInv /\ [SessionNext]_sessionVars => IInv'
<1> SUFFICES ASSUME IInv, [SessionNext]_sessionVars PROVE IInv'
  OBVIOUS
<1>1. CASE UNCHANGED sessionVars
  <2>1. UNCHANGED <<toggleVars, checkVars, threadVars, slotVars, fault, histVars>>
    BY <1>1 DEF sessionVars
  <2>2. SessionTypeOK' /\ HeadIsAsker' /\ RequestIsCommand' /\ NoFaultUnlessOrphaned'
    BY <2>1, RequestFrame DEF IInv, SessionTypeOK, HeadIsAsker, NoFaultUnlessOrphaned,
       toggleVars, checkVars, threadVars, slotVars, histVars
  <2>3. ASSUME NEW j \in Players PROVE SlotInv(j)'
    BY <2>1, SlotFrame DEF IInv, toggleVars, checkVars, threadVars, slotVars, histVars
  <2>4. QED
    BY <2>2, <2>3 DEF IInv
<1>2. ASSUME ~crashed, NEW i \in Players, Player(i) PROVE IInv'
  BY <1>2, JoinStep, LeaveStep, LoginStep, PasswordStep, AbortStep DEF Player, ChatShort, Faults
<1>3. ASSUME ~crashed, NEW ok \in [Players -> BOOLEAN], updateAuthDBProcess(ok) PROVE IInv'
  BY <1>3, LocalStep, RemoteStep, ReportStep DEF updateAuthDBProcess, authentificate
<1>4. ASSUME ~crashed, NEW remote \in BOOLEAN, authToggle(remote) PROVE IInv'
  BY <1>4, ToggleStep
<1>5. QED
  BY <1>1, <1>2, <1>3, <1>4, StartStep, FrameStep, ThreadStep DEF SessionNext

(***************************************************************************)
(* SessionInv holds in every reachable state: in a sound slot a check is   *)
(* one check, is about the player who is there, and is what authorises     *)
(* him; an answer goes to the slot that asked for it; and the process is   *)
(* ended by an invalid access only when a check has lost its player.       *)
(***************************************************************************)
THEOREM SessionInvariant == SessionSpec => []SessionInv
<1>1. SessionInit => IInv
  BY SessionStart
<1>2. IInv /\ [SessionNext]_sessionVars => IInv'
  BY SessionStep
<1>3. IInv => SessionInv
  BY BySlot DEF IInv
<1>4. QED
  BY <1>1, <1>2, <1>3, PTL DEF SessionSpec

(* Who is authorised in a sound slot gave, in this session, the login and  *)
(* the password that the positive answer was about, but for an answer to a *)
(* request that the login thread made of a command freed before it read it.*)
THEOREM AuthorisedOnOwnPassword == SessionSpec => []AuthorisedByOwnCheck
<1>1. SessionInv => AuthorisedByOwnCheck
  BY DEF SessionInv
<1>2. QED
  BY <1>1, SessionInvariant, PTL

(* The answer of a login thread is given to the slot that asked for it.    *)
THEOREM AnswerToAsker == SessionSpec => []HeadIsAsker
<1>1. SessionInv => HeadIsAsker
  BY DEF SessionInv
<1>2. QED
  BY <1>1, SessionInvariant, PTL

(* No password is missing, no literal deleted and no server asked that is  *)
(* not there or another one as long as no check loses its player, whatever *)
(* becomes of the command that the login thread shares with its queue.     *)
THEOREM FaultNeedsOrphan == SessionSpec => []NoFaultUnlessOrphaned
<1>1. SessionInv => NoFaultUnlessOrphaned
  BY DEF SessionInv
<1>2. QED
  BY <1>1, SessionInvariant, PTL

(* A check is under way exactly in state 3, and it is one check. *)
THEOREM CheckPerState3 == SessionSpec => []OneCheckInState3
<1>1. SessionInv => OneCheckInState3
  BY DEF SessionInv
<1>2. QED
  BY <1>1, SessionInvariant, PTL

(* The states are the documented ones, and a login is owned in 2 to 4 only. *)
THEOREM LoginOfState == SessionSpec => []StateAndLoginAgree
<1>1. SessionInv => StateAndLoginAgree
  BY DEF SessionInv
<1>2. QED
  BY <1>1, SessionInvariant, PTL

(* What waits to be checked was said by the player who is there. *)
THEOREM CheckOfPresent == SessionSpec => []ChecksAreCurrent
<1>1. SessionInv => ChecksAreCurrent
  BY DEF SessionInv
<1>2. QED
  BY <1>1, SessionInvariant, PTL

-----------------------------------------------------------------------------
(***************************************************************************)
(* How a slot may move (net.cpp 986-1050, authManager.cpp 331-362): it is  *)
(* emptied; the message that asks for a login turns 0 into 1; its player's *)
(* chat leads from 1 over 2 to 3, while logging in is required; and an     *)
(* answer, yes, about the login and the password that he gave (or about a  *)
(* command that had been freed), makes it 4, or, no, frees the login and   *)
(* makes it 1.  Nothing else moves it: 4 is left with the player only.     *)
(***************************************************************************)
Emptied(i) == authorisedState'[i] = 0 /\ (i \notin present \/ i \notin present')

Asked(i) == specialAuthorisation /\ authorisedState[i] = 0 /\ authorisedState'[i] = 1

Chatted(i) ==
  /\ specialAuthorisation /\ i \in present /\ i \in present'
  /\ authorisedState[i] \in {1, 2} /\ authorisedState'[i] = authorisedState[i] + 1

AnsweredYes(i) ==
  /\ i \in present /\ i \in present'
  /\ authorisedState[i] = 3 /\ authorisedState'[i] = 4
  /\ granted'[i] \in {<<authorisedLogins[i], sent[i]>>, Stray}
  /\ authorisedLogins'[i] = authorisedLogins[i] /\ sent'[i] = sent[i]

AnsweredNo(i) ==
  /\ i \in present /\ i \in present'
  /\ authorisedState[i] = 3 /\ authorisedState'[i] = 1
  /\ authorisedLogins'[i] = NoLogin

SlotMove(i) ==
  \/ authorisedState'[i] = authorisedState[i]
  \/ Emptied(i) \/ Asked(i) \/ Chatted(i) \/ AnsweredYes(i) \/ AnsweredNo(i)

SoundSlotsMove == \A i \in Players : Sound(i) => SlotMove(i)

(* Who comes and goes, and a game that is started, leave empty slots. *)
LEMMA EmptiedMove ==
  ASSUME IInv, NEW i \in Players,
         onServerStart \/ \E p \in Players : onPlayerJoin(p) \/ onPlayerLeave(p)
  PROVE  SlotMove(i)
<1>1. CASE onServerStart
  BY <1>1 DEF onServerStart, SlotMove, Emptied
<1>2. ASSUME NEW p \in Players, onPlayerJoin(p) PROVE SlotMove(i)
  BY <1>2 DEF onPlayerJoin, SlotMove, Emptied, IInv, SessionTypeOK
<1>3. ASSUME NEW p \in Players, onPlayerLeave(p) PROVE SlotMove(i)
  BY <1>3 DEF onPlayerLeave, SlotMove, Emptied, IInv, SessionTypeOK
<1>4. QED
  BY <1>1, <1>2, <1>3

(* Chat moves the slot of the player who chats, one state on. *)
LEMMA ChatMove ==
  ASSUME IInv, NEW i \in Players, NEW p \in Players,
         \/ \E login \in Logins : ChatLogin(p, login)
         \/ \E pass \in Passwords : ChatPassword(p, pass)
  PROVE  SlotMove(i)
<1>1. ASSUME NEW login \in Logins, ChatLogin(p, login) PROVE SlotMove(i)
  BY <1>1 DEF ChatLogin, SlotMove, Chatted, IInv, SessionTypeOK
<1>2. ASSUME NEW pass \in Passwords, ChatPassword(p, pass) PROVE SlotMove(i)
  BY <1>2 DEF ChatPassword, SlotMove, Chatted, IInv, SessionTypeOK
<1>3. QED
  BY <1>1, <1>2

(* The answer to a sound slot, about what its player said. *)
LEMMA AnswerMove ==
  ASSUME NEW i \in Players, i \in present, UNCHANGED <<present, sent>>,
         authorisedState[i] = 3,
         NEW S, i \in S, NEW ok, NEW about, Apply(S, ok, about),
         about[i] \in {<<authorisedLogins[i], sent[i]>>, Stray}
  PROVE  SlotMove(i)
<1>1. CASE ok[i]
  <2>1. authorisedState'[i] = 4
    BY <1>1 DEF Apply, Answered
  <2>2. /\ granted'[i] = about[i]
        /\ authorisedLogins'[i] = authorisedLogins[i]
    BY <1>1 DEF Apply
  <2>3. QED
    BY <2>1, <2>2 DEF SlotMove, AnsweredYes
<1>2. CASE ~ok[i]
  <2>1. authorisedState'[i] = 1 /\ authorisedLogins'[i] = NoLogin
    BY <1>2 DEF Apply, Answered
  <2>2. QED
    BY <2>1 DEF SlotMove, AnsweredNo
<1>3. QED
  BY <1>1, <1>2

(* Without a remote server: only a slot in state 3 has a password. *)
LEMMA LocalMove ==
  ASSUME IInv, NEW i \in Players, Sound(i),
         NEW ok \in [Players -> BOOLEAN], CheckLocally(ok)
  PROVE  SlotMove(i)
<1> DEFINE S == {j \in Players : notLoggedIn[j] # NoPass}
           about == [j \in Players |-> <<authorisedLogins[j], notLoggedIn[j]>>]
<1>1. \/ Apply(S, ok, about) /\ UNCHANGED <<present, sent>>
      \/ authorisedState' = authorisedState
  BY DEF CheckLocally, Abort, slotVars
<1>2. CASE authorisedState' = authorisedState
  BY <1>2 DEF SlotMove
<1>3. CASE Apply(S, ok, about) /\ UNCHANGED <<present, sent>> /\ i \notin S
  BY <1>3 DEF Apply, SlotMove
<1>4. CASE Apply(S, ok, about) /\ UNCHANGED <<present, sent>> /\ i \in S
  <2>1. SlotInv(i) /\ notLoggedIn[i] # NoPass
    BY <1>4 DEF IInv
  <2>2. authorisedState[i] = 3 /\ i \in present /\ notLoggedIn[i] = sent[i]
    BY <2>1 DEF SlotInv
  <2>3. about[i] \in {<<authorisedLogins[i], sent[i]>>, Stray}
    BY <2>2
  <2> HIDE DEF S, about
  <2>4. QED
    BY <1>4, <2>2, <2>3, AnswerMove
<1>5. QED
  BY <1>1, <1>2, <1>3, <1>4

(* With one: the slot that gets the answer asked for it. *)
LEMMA RemoteMove ==
  ASSUME IInv, NEW i \in Players, Sound(i), CheckRemotely
  PROVE  SlotMove(i)
<1> DEFINE about == [j \in Players |-> request]
           ok    == [j \in Players |-> lastAuthResultCodeL]
<1>1. \/ Apply(Collected, ok, about) /\ UNCHANGED <<present, sent>>
      \/ authorisedState' = authorisedState
  BY DEF CheckRemotely, Abort, slotVars
<1>2. CASE authorisedState' = authorisedState
  BY <1>2 DEF SlotMove
<1>3. CASE Apply(Collected, ok, about) /\ UNCHANGED <<present, sent>> /\ i \notin Collected
  BY <1>3 DEF Apply, SlotMove
<1>4. CASE Apply(Collected, ok, about) /\ UNCHANGED <<present, sent>> /\ i \in Collected
  <2>1. Queued(i) /\ command.player = i /\ remoteAuthLoggingIn /\ SlotInv(i)
    BY <1>4, WaitingQueue DEF Ended, IInv
  <2>2. /\ authorisedState[i] = 3 /\ i \in present /\ notLoggedIn[i] = sent[i]
        /\ command = [player |-> i, login |-> authorisedLogins[i], pass |-> notLoggedIn[i]]
    BY <2>1 DEF SlotInv
  <2>3. about[i] \in {<<authorisedLogins[i], sent[i]>>, Stray}
    <3>1. request \in {<<command.login, command.pass>>, Stray}
      BY <1>4 DEF Collected, Ended, IInv, RequestIsCommand
    <3>2. QED
      BY <2>2, <3>1
  <2> HIDE DEF ok, about
  <2>4. QED
    BY <1>4, <2>2, <2>3, AnswerMove
<1>5. QED
  BY <1>1, <1>2, <1>3, <1>4

LEMMA SlotsMove == IInv /\ [SessionNext]_sessionVars => SoundSlotsMove
<1> SUFFICES ASSUME IInv, [SessionNext]_sessionVars, NEW i \in Players, Sound(i)
             PROVE  SlotMove(i)
  BY DEF SoundSlotsMove
<1>1. CASE UNCHANGED sessionVars
  BY <1>1 DEF sessionVars, slotVars, SlotMove
<1>2. ASSUME NEW p \in Players, Player(p) PROVE SlotMove(i)
  BY <1>2, EmptiedMove, ChatMove DEF Player, ChatShort, Abort, slotVars, SlotMove
<1>3. CASE onServerStart
  BY <1>3, EmptiedMove
<1>4. CASE onEachFrame
  BY <1>4 DEF onEachFrame, SlotMove, Asked
<1>5. ASSUME NEW ok \in [Players -> BOOLEAN], updateAuthDBProcess(ok) PROVE SlotMove(i)
  <2>1. CASE authentificate(ok)
    BY <2>1, LocalMove, RemoteMove DEF authentificate
  <2>2. CASE ReportCommand
    BY <2>2 DEF ReportCommand, Abort, slotVars, SlotMove
  <2>3. QED
    BY <1>5, <2>1, <2>2 DEF updateAuthDBProcess
<1>6. CASE authRemoteLogin
  BY <1>6 DEF authRemoteLogin, LoginThreadSend, LoginThreadAnswer, Abort, slotVars, SlotMove
<1>7. ASSUME NEW remote \in BOOLEAN, authToggle(remote) PROVE SlotMove(i)
  BY <1>7 DEF authToggle, slotVars, SlotMove
<1>8. QED
  BY <1>1, <1>2, <1>3, <1>4, <1>5, <1>6, <1>7 DEF SessionNext

(***************************************************************************)
(* A sound slot moves in the documented ways only, whatever the other      *)
(* slots and the login thread do between two of its own steps: this is     *)
(* what module ServerPackets takes for granted of the dialogue.            *)
(***************************************************************************)
THEOREM SessionMoves == SessionSpec => [][SoundSlotsMove]_sessionVars
<1>1. SessionInit => IInv
  BY SessionStart
<1>2. IInv /\ [SessionNext]_sessionVars => IInv'
  BY SessionStep
<1>3. IInv /\ [SessionNext]_sessionVars => [SoundSlotsMove]_sessionVars
  BY SlotsMove
<1>4. QED
  BY <1>1, <1>2, <1>3, PTL DEF SessionSpec

-----------------------------------------------------------------------------
(***************************************************************************)
(* How far the check of a slot is from its answer, with a remote server:   *)
(* its place in the queue and, for the slot at its head, where the thread  *)
(* is.                                                                     *)
(***************************************************************************)
PlaceOf(q, i) == CHOOSE n \in 1 .. Len(q) : q[n] = i

Stage == IF loginThread = "none" THEN 4
         ELSE IF loginThread \in {"start", "stale"} THEN 3
         ELSE IF loginThread = "wait" THEN 2
         ELSE IF loginThread = "done" THEN 1
         ELSE 0

Distance(i) == 5 * PlaceOf(notLoggedInRemote, i) + Stage

WaitsForAnswer(i) ==
  ~crashed /\ Sound(i) /\ specialAuthRemote /\ authorisedState[i] = 3

(* The GUI hook has something to do: an answer to give, a thread to start. *)
CheckDue == Ended \/ (Waiting # <<>> /\ ~Busy)

(* While a slot waits, somebody can do something about it ... *)
SomebodyMoves ==
  \A i \in Players : WaitsForAnswer(i) =>
    CheckDue \/ loginThread \in {"start", "stale", "wait", "failed"}

(* ... whoever does brings it nearer to its answer, and nothing that       *)
(* anybody else does puts it back.                                         *)
AnswerGetsNearer ==
  \A i \in Players : WaitsForAnswer(i) /\ WaitsForAnswer(i)' =>
    /\ Distance(i)' <= Distance(i)
    /\ authRemoteLogin \/ (CheckDue /\ CheckRemotely) => Distance(i)' < Distance(i)

LEMMA PlaceOfQueued ==
  ASSUME NEW q \in Seq(Players), NEW i \in Players, QueuedIn(q, i)
  PROVE  /\ PlaceOf(q, i) \in 1 .. Len(q) /\ PlaceOf(q, i) \in Nat
         /\ q[PlaceOf(q, i)] = i
  BY LenProperties DEF PlaceOf, QueuedIn

(* Whoever stands in the queue once moves up when its head leaves, *)
LEMMA PlaceInTail ==
  ASSUME NEW q \in Seq(Players), q # <<>>, NEW i \in Players,
         Once(q, i), QueuedIn(Tail(q), i)
  PROVE  QueuedIn(q, i) /\ PlaceOf(Tail(q), i) = PlaceOf(q, i) - 1
<1>1. /\ Len(q) \in Nat /\ Len(Tail(q)) = Len(q) - 1 /\ Tail(q) \in Seq(Players)
      /\ \A n \in 1 .. Len(Tail(q)) : Tail(q)[n] = q[n + 1]
  BY QueueTail
<1>2. PICK m \in 1 .. Len(Tail(q)) : m = PlaceOf(Tail(q), i) /\ Tail(q)[m] = i
  BY <1>1, PlaceOfQueued
<1>3. m + 1 \in 1 .. Len(q) /\ q[m + 1] = i
  BY <1>1, <1>2
<1>4. QueuedIn(q, i)
  BY <1>3 DEF QueuedIn
<1>5. PICK k \in 1 .. Len(q) : k = PlaceOf(q, i) /\ q[k] = i
  BY <1>4, PlaceOfQueued
<1>6. k = m + 1
  BY <1>3, <1>5 DEF Once
<1>7. QED
  BY <1>1, <1>2, <1>4, <1>5, <1>6

(* and stays where he is when somebody joins it. *)
LEMMA PlaceInAppend ==
  ASSUME NEW q \in Seq(Players), NEW p \in Players, NEW i \in Players,
         QueuedIn(q, i), Once(Append(q, p), i)
  PROVE  PlaceOf(Append(q, p), i) = PlaceOf(q, i)
<1>1. /\ Len(q) \in Nat /\ Append(q, p) \in Seq(Players)
      /\ Len(Append(q, p)) = Len(q) + 1
      /\ \A n \in 1 .. Len(q) : Append(q, p)[n] = q[n]
  BY QueueAppend, LenProperties
<1>2. PICK m \in 1 .. Len(q) : m = PlaceOf(q, i) /\ q[m] = i
  BY PlaceOfQueued
<1>3. m \in 1 .. Len(Append(q, p)) /\ Append(q, p)[m] = i
  BY <1>1, <1>2
<1>4. QueuedIn(Append(q, p), i)
  BY <1>3 DEF QueuedIn
<1>5. PICK k \in 1 .. Len(Append(q, p)) : k = PlaceOf(Append(q, p), i) /\ Append(q, p)[k] = i
  BY <1>1, <1>4, PlaceOfQueued
<1>6. k = m
  BY <1>3, <1>5 DEF Once
<1>7. QED
  BY <1>2, <1>5, <1>6

LEMMA WaitingIsQueued ==
  ASSUME IInv, NEW i \in Players, WaitsForAnswer(i)
  PROVE  /\ notLoggedInRemote \in Seq(Players)
         /\ QueuedIn(notLoggedInRemote, i) /\ Once(notLoggedInRemote, i)
         /\ PlaceOf(notLoggedInRemote, i) \in Nat /\ Stage \in 0 .. 4
<1>1. /\ notLoggedInRemote \in Seq(Players)
      /\ QueuedIn(notLoggedInRemote, i) /\ Once(notLoggedInRemote, i)
  BY DEF IInv, SessionTypeOK, SlotInv, Queued, QueuedIn, Once, WaitsForAnswer
<1>2. Stage \in 0 .. 4
  BY DEF Stage
<1>3. QED
  BY <1>1, <1>2, PlaceOfQueued

(* The distance of a check is counted in natural numbers: it can be        *)
(* shortened so many times only.                                           *)
ChecksCounted == \A i \in Players : WaitsForAnswer(i) => Distance(i) \in Nat

LEMMA DistanceCounted == IInv => ChecksCounted
  BY WaitingIsQueued DEF ChecksCounted, Distance

LEMMA MoverExists == IInv => SomebodyMoves
<1> SUFFICES ASSUME IInv, NEW i \in Players, WaitsForAnswer(i), loginThread \in {"none", "done"}
             PROVE  CheckDue
  BY DEF SomebodyMoves, IInv, SessionTypeOK
<1>1. notLoggedInRemote # <<>>
  BY WaitingIsQueued, LenProperties DEF QueuedIn
<1>2. CASE loginThread = "none"
  BY <1>1, <1>2 DEF IInv, HeadIsAsker, CheckDue, Waiting, Busy, Ended
<1>3. CASE loginThread = "done"
  BY <1>3 DEF IInv, HeadIsAsker, CheckDue, Ended
<1>4. QED
  BY <1>2, <1>3

(* A step that leaves the queue and the thread alone. *)
LEMMA DistanceFrame ==
  ASSUME IInv, NEW i \in Players, WaitsForAnswer(i),
         UNCHANGED <<notLoggedInRemote, loginThread>>
  PROVE  Distance(i)' <= Distance(i)
<1>1. Distance(i)' = Distance(i)
  BY DEF Distance, PlaceOf, Stage
<1>2. Distance(i) \in Int
  BY WaitingIsQueued DEF Distance
<1>3. QED
  BY <1>1, <1>2

LEMMA DistanceOnChat ==
  ASSUME IInv, IInv', NEW i \in Players, WaitsForAnswer(i), WaitsForAnswer(i)',
         NEW p \in Players, NEW pass \in Passwords, ChatPassword(p, pass)
  PROVE  Distance(i)' <= Distance(i)
<1>1. /\ notLoggedInRemote' = Append(notLoggedInRemote, p)
      /\ loginThread' = loginThread
  BY DEF ChatPassword, authCheckDelayed, threadVars, WaitsForAnswer
<1>2. /\ notLoggedInRemote \in Seq(Players) /\ QueuedIn(notLoggedInRemote, i)
      /\ PlaceOf(notLoggedInRemote, i) \in Nat /\ Stage \in 0 .. 4
  BY WaitingIsQueued
<1>3. Once(notLoggedInRemote', i)
  BY DEF IInv, SlotInv, Once, WaitsForAnswer
<1>4. PlaceOf(notLoggedInRemote', i) = PlaceOf(notLoggedInRemote, i)
  BY <1>1, <1>2, <1>3, PlaceInAppend
<1>5. Stage' = Stage
  BY <1>1 DEF Stage
<1>6. Distance(i)' = Distance(i)
  BY <1>4, <1>5 DEF Distance
<1>7. Distance(i) \in Int
  BY <1>2 DEF Distance
<1>8. QED
  BY <1>6, <1>7

LEMMA DistanceOnThread ==
  ASSUME IInv, NEW i \in Players, WaitsForAnswer(i), WaitsForAnswer(i)', authRemoteLogin
  PROVE  Distance(i)' < Distance(i)
<1>1. notLoggedInRemote' = notLoggedInRemote
  BY DEF authRemoteLogin, LoginThreadSend, LoginThreadAnswer, Abort, checkVars
<1>2. Stage' < Stage
  BY DEF authRemoteLogin, LoginThreadSend, LoginThreadAnswer, Abort, Stage, WaitsForAnswer,
     crashed
<1>3. PlaceOf(notLoggedInRemote, i) \in Nat /\ Stage \in 0 .. 4
  BY WaitingIsQueued
<1>4. Distance(i)' = 5 * PlaceOf(notLoggedInRemote, i) + Stage'
  BY <1>1 DEF Distance
<1>5. Stage' \in 0 .. 4
  BY DEF Stage
<1>6. QED
  BY <1>2, <1>3, <1>4, <1>5 DEF Distance

LEMMA DistanceOnCheck ==
  ASSUME IInv, IInv', NEW i \in Players, WaitsForAnswer(i), WaitsForAnswer(i)', CheckRemotely
  PROVE  /\ Distance(i)' <= Distance(i)
         /\ CheckDue => Distance(i)' < Distance(i)
<1>1. /\ notLoggedInRemote' = Waiting
      /\ loginThread' \in IF Waiting # <<>> /\ ~Busy THEN {"start", "failed"}
                           ELSE IF Ended THEN {"none"} ELSE {loginThread}
  BY DEF CheckRemotely, Abort, WaitsForAnswer, crashed
<1>2. /\ notLoggedInRemote \in Seq(Players) /\ QueuedIn(notLoggedInRemote, i)
      /\ Once(notLoggedInRemote, i)
      /\ PlaceOf(notLoggedInRemote, i) \in Nat /\ Stage \in 0 .. 4
  BY WaitingIsQueued
<1>3. QueuedIn(Waiting, i)
  BY <1>1 DEF IInv, SlotInv, QueuedIn, Queued, WaitsForAnswer
<1>4. notLoggedInRemote # <<>>
  BY <1>2, LenProperties DEF QueuedIn
<1>5. Stage' \in 0 .. 4
  BY DEF Stage
<1>6. Distance(i)' = 5 * PlaceOf(Waiting, i) + Stage'
  BY <1>1 DEF Distance
<1>7. CASE Ended
  <2>1. Waiting = Tail(notLoggedInRemote) /\ Stage = 1 /\ ~Busy
    BY <1>7 DEF Waiting, Ended, Stage, Busy
  <2>2. PlaceOf(Waiting, i) = PlaceOf(notLoggedInRemote, i) - 1
    BY <1>2, <1>3, <1>4, <2>1, PlaceInTail
  <2>3. QED
    BY <1>2, <1>5, <1>6, <2>1, <2>2 DEF Distance
<1>8. CASE ~Ended /\ CheckDue
  <2>1. /\ Waiting = notLoggedInRemote /\ ~remoteAuthLoggingIn
        /\ loginThread' \in {"start", "failed"}
    BY <1>1, <1>8 DEF CheckDue, Waiting, Busy
  <2>2. Stage = 4 /\ Stage' <= 3
    BY <2>1 DEF IInv, HeadIsAsker, Stage
  <2>3. QED
    BY <1>2, <1>5, <1>6, <2>1, <2>2 DEF Distance
<1>9. CASE ~Ended /\ ~CheckDue
  <2>1. Waiting = notLoggedInRemote /\ loginThread' = loginThread
    BY <1>1, <1>9 DEF CheckDue, Waiting
  <2>2. Stage' = Stage
    BY <2>1 DEF Stage
  <2>3. QED
    BY <1>2, <1>6, <1>9, <2>1, <2>2 DEF Distance
<1>10. QED
  BY <1>7, <1>8, <1>9

LEMMA DistanceStep == IInv /\ IInv' /\ [SessionNext]_sessionVars => [AnswerGetsNearer]_sessionVars
<1> SUFFICES ASSUME IInv, IInv', SessionNext,
                    NEW i \in Players, WaitsForAnswer(i), WaitsForAnswer(i)'
             PROVE  /\ Distance(i)' <= Distance(i)
                    /\ authRemoteLogin \/ (CheckDue /\ CheckRemotely)
                          => Distance(i)' < Distance(i)
  BY DEF AnswerGetsNearer
<1>0. Distance(i)' < Distance(i) => Distance(i)' <= Distance(i)
  <2>1. Distance(i) \in Int
    BY WaitingIsQueued DEF Distance
  <2>2. Distance(i)' \in Int
    <3>1. PlaceOf(notLoggedInRemote', i) \in Nat /\ Stage' \in 0 .. 4
      <4>1. QueuedIn(notLoggedInRemote', i) /\ notLoggedInRemote' \in Seq(Players)
        BY DEF IInv, SessionTypeOK, SlotInv, Queued, QueuedIn, WaitsForAnswer
      <4>2. QED
        BY <4>1, PlaceOfQueued DEF Stage
    <3>2. QED
      BY <3>1 DEF Distance
  <2>3. QED
    BY <2>1, <2>2
<1>1. /\ authRemoteLogin => Distance(i)' < Distance(i)
      /\ CheckDue /\ CheckRemotely => Distance(i)' < Distance(i)
      /\ CheckRemotely => Distance(i)' <= Distance(i)
  BY DistanceOnThread, DistanceOnCheck
<1>2. ASSUME NEW p \in Players, Player(p) PROVE Distance(i)' <= Distance(i)
  <2>1. ASSUME NEW pass \in Passwords, ChatPassword(p, pass) PROVE Distance(i)' <= Distance(i)
    BY <2>1, DistanceOnChat
  <2>2. CASE \/ onPlayerJoin(p) \/ onPlayerLeave(p) \/ ChatShort(p)
             \/ \E login \in Logins : ChatLogin(p, login)
    <3>1. UNCHANGED <<notLoggedInRemote, loginThread>>
      BY <2>2 DEF onPlayerJoin, onPlayerLeave, ChatLogin, ChatShort, Abort, checkVars, threadVars
    <3>2. QED
      BY <3>1, DistanceFrame
  <2>3. QED
    BY <1>2, <2>1, <2>2 DEF Player
<1>3. ASSUME onServerStart \/ onEachFrame \/ ReportCommand
      PROVE  Distance(i)' <= Distance(i)
  <2>1. UNCHANGED <<notLoggedInRemote, loginThread>>
    BY <1>3 DEF onServerStart, onEachFrame, ReportCommand, Abort, checkVars, threadVars
  <2>2. QED
    BY <2>1, DistanceFrame
<1>4. ASSUME NEW ok \in [Players -> BOOLEAN], updateAuthDBProcess(ok)
      PROVE  CheckRemotely \/ ReportCommand
  BY <1>4 DEF updateAuthDBProcess, authentificate, CheckLocally, WaitsForAnswer
<1>t. \A remote \in BOOLEAN : ~authToggle(remote)
  BY DEF authToggle, WaitsForAnswer, IInv, SessionTypeOK
<1>5. QED
  BY <1>0, <1>1, <1>2, <1>3, <1>4, <1>t DEF SessionNext, WaitsForAnswer

(***************************************************************************)
(* What CheckAnswered rests on, for any number of slots: while the check   *)
(* of a sound slot waits for a remote server, the GUI hook or the login    *)
(* thread has something to do; each of their steps brings it nearer to its *)
(* answer, of which it is finitely many steps away; and nothing that       *)
(* others do, players who join the queue or leave their slots included,    *)
(* puts it back.                                                           *)
(***************************************************************************)
THEOREM ChecksProgress ==
  SessionSpec => [](ChecksCounted /\ SomebodyMoves) /\ [][AnswerGetsNearer]_sessionVars
<1>1. SessionInit => IInv
  BY SessionStart
<1>2. IInv /\ [SessionNext]_sessionVars => IInv'
  BY SessionStep
<1>3. IInv => ChecksCounted /\ SomebodyMoves
  BY DistanceCounted, MoverExists
<1>4. IInv /\ IInv' /\ [SessionNext]_sessionVars => [AnswerGetsNearer]_sessionVars
  BY DistanceStep
<1>5. QED
  BY <1>1, <1>2, <1>3, <1>4, PTL DEF SessionSpec

-----------------------------------------------------------------------------
(***************************************************************************)
(* How far a newcomer is from being asked for a login: the frames that are *)
(* left of the countdown.  As long as he stays and is in state 0 it runs,  *)
(* and runs out in no other way than by asking him.                        *)
(***************************************************************************)
Counting(i) == authorisedState[i] = 0 /\ authSendWelcomeMsg[i] > 0

NewcomerGetsNearer ==
  \A i \in present \cap present' : Counting(i) /\ authorisedState'[i] = 0 =>
    /\ Counting(i)' /\ authSendWelcomeMsg'[i] <= authSendWelcomeMsg[i]
    /\ onEachFrame => authSendWelcomeMsg'[i] < authSendWelcomeMsg[i]

(* What the steps that are not frames do to him: nothing, or they answer   *)
(* him, and then he is no longer in state 0.                               *)
LEMMA CountdownKept ==
  ASSUME SessionTypeOK, NEW i \in Players, i \in present, i \in present',
         Counting(i), authorisedState'[i] = 0, SessionNext, ~onEachFrame
  PROVE  authSendWelcomeMsg'[i] = authSendWelcomeMsg[i]
<1>1. /\ authorisedState \in [Players -> 0 .. 255]
      /\ authSendWelcomeMsg \in [Players -> -2 .. WelcomeFrames]
      /\ authorisedState[i] = 0
  BY DEF SessionTypeOK, Counting
<1>2. ASSUME NEW p \in Players, Player(p) PROVE authSendWelcomeMsg'[i] = authSendWelcomeMsg[i]
  <2>1. CASE onPlayerJoin(p)
    BY <1>1, <2>1 DEF onPlayerJoin
  <2>2. CASE onPlayerLeave(p)
    BY <2>2 DEF onPlayerLeave
  <2>3. ASSUME NEW login \in Logins, ChatLogin(p, login)
        PROVE  authSendWelcomeMsg'[i] = authSendWelcomeMsg[i]
    BY <1>1, <2>3 DEF ChatLogin
  <2>c. CASE ChatShort(p)
    BY <2>c DEF ChatShort, Abort, slotVars
  <2>4. ASSUME NEW pass \in Passwords, ChatPassword(p, pass)
        PROVE  authSendWelcomeMsg'[i] = authSendWelcomeMsg[i]
    BY <1>1, <2>4 DEF ChatPassword
  <2>5. QED
    BY <1>2, <2>1, <2>2, <2>3, <2>4, <2>c DEF Player
<1>3. ~onServerStart
  BY DEF onServerStart
<1>4. ASSUME NEW S, NEW ok, NEW about, Apply(S, ok, about)
      PROVE  authSendWelcomeMsg'[i] = authSendWelcomeMsg[i]
  <2>1. i \notin S
    <3>1. CASE i \in S /\ ok[i]
      BY <1>1, <1>4, <3>1 DEF Apply, Answered
    <3>2. CASE i \in S /\ ~ok[i]
      BY <1>1, <1>4, <3>2 DEF Apply, Answered
    <3>3. QED
      BY <3>1, <3>2
  <2>2. QED
    BY <1>4, <2>1 DEF Apply
<1>5. ASSUME NEW ok \in [Players -> BOOLEAN], updateAuthDBProcess(ok)
      PROVE  authSendWelcomeMsg'[i] = authSendWelcomeMsg[i]
  <2>1. ASSUME NEW f, Abort(f) PROVE authSendWelcomeMsg'[i] = authSendWelcomeMsg[i]
    BY <2>1 DEF Abort, slotVars
  <2>2. CASE CheckLocally(ok)
    BY <1>4, <2>1, <2>2 DEF CheckLocally
  <2>3. CASE CheckRemotely
    BY <1>4, <2>1, <2>3 DEF CheckRemotely
  <2>4. CASE ReportCommand
    BY <2>1, <2>4 DEF ReportCommand, slotVars
  <2>5. QED
    BY <1>5, <2>2, <2>3, <2>4 DEF updateAuthDBProcess, authentificate
<1>6. authRemoteLogin => authSendWelcomeMsg' = authSendWelcomeMsg
  BY DEF authRemoteLogin, LoginThreadSend, LoginThreadAnswer, Abort, slotVars
<1>7. \A remote \in BOOLEAN : authToggle(remote) => authSendWelcomeMsg' = authSendWelcomeMsg
  BY DEF authToggle, slotVars
<1>8. UNCHANGED sessionVars => authSendWelcomeMsg' = authSendWelcomeMsg
  BY DEF sessionVars, slotVars
<1>9. QED
  BY <1>2, <1>3, <1>5, <1>6, <1>7, <1>8 DEF SessionNext

(* A frame counts down by one, and asks at one. *)
LEMMA CountdownRuns ==
  ASSUME SessionTypeOK, NEW i \in Players, Counting(i), authorisedState'[i] = 0, onEachFrame
  PROVE  authSendWelcomeMsg'[i] > 0 /\ authSendWelcomeMsg'[i] < authSendWelcomeMsg[i]
<1>1. /\ authSendWelcomeMsg[i] \in -2 .. WelcomeFrames /\ WelcomeFrames \in Int
      /\ authSendWelcomeMsg[i] > 0
  BY SessionAssumption DEF SessionTypeOK, Counting, SessionAssumption
<1>2. ~MessageDue(i)
  BY DEF onEachFrame, Counting
<1>3. authSendWelcomeMsg[i] > 1 /\ authSendWelcomeMsg'[i] = authSendWelcomeMsg[i] - 1
  BY <1>1, <1>2 DEF MessageDue, onEachFrame
<1>4. QED
  BY <1>1, <1>3

(***************************************************************************)
(* What NewcomerPrompted rests on, for any number of slots and frames: the *)
(* countdown of a player who joined while logging in is required is never  *)
(* stopped, set back or lost, by what is left of an earlier player of his  *)
(* slot either (a check that is answered to him moves him out of state 0), *)
(* and each frame shortens it (util.cpp, 980-1004).                        *)
(***************************************************************************)
THEOREM NewcomersProgress == SessionSpec => [][NewcomerGetsNearer]_sessionVars
<1>1. ASSUME IInv, [SessionNext]_sessionVars PROVE [NewcomerGetsNearer]_sessionVars
  <2>1. SUFFICES ASSUME SessionNext, NEW i \in Players, i \in present, i \in present',
                        Counting(i), authorisedState'[i] = 0
                 PROVE  /\ Counting(i)' /\ authSendWelcomeMsg'[i] <= authSendWelcomeMsg[i]
                        /\ onEachFrame => authSendWelcomeMsg'[i] < authSendWelcomeMsg[i]
    BY <1>1 DEF NewcomerGetsNearer, IInv, SessionTypeOK
  <2>2. SessionTypeOK /\ authSendWelcomeMsg[i] \in Int /\ authSendWelcomeMsg[i] > 0
    <3>1. SessionTypeOK /\ authSendWelcomeMsg[i] > 0
      BY <1>1, <2>1 DEF IInv, Counting
    <3>2. authSendWelcomeMsg[i] \in -2 .. WelcomeFrames
      BY <3>1 DEF SessionTypeOK
    <3>3. QED
      BY <3>1, <3>2, SessionAssumption DEF SessionAssumption
  <2>3. CASE onEachFrame
    <3>1. authSendWelcomeMsg'[i] > 0 /\ authSendWelcomeMsg'[i] < authSendWelcomeMsg[i]
      BY <2>1, <2>2, <2>3, CountdownRuns
    <3>2. authSendWelcomeMsg'[i] \in Int
      BY <2>2, <2>3 DEF onEachFrame
    <3>3. QED
      BY <2>1, <2>2, <3>1, <3>2 DEF Counting
  <2>4. CASE ~onEachFrame
    <3>1. authSendWelcomeMsg'[i] = authSendWelcomeMsg[i]
      BY <2>1, <2>2, <2>4, CountdownKept
    <3>2. QED
      BY <2>1, <2>2, <2>4, <3>1 DEF Counting
  <2>5. QED
    BY <2>3, <2>4
<1>2. SessionInit => IInv
  BY SessionStart
<1>3. IInv /\ [SessionNext]_sessionVars => IInv'
  BY SessionStep
<1>4. QED
  BY <1>1, <1>2, <1>3, PTL DEF SessionSpec

=============================================================================
