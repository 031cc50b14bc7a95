----------------------------- MODULE AuthSession -----------------------------
(***************************************************************************)
(* The login dialogue of the server, one slot per player index other than  *)
(* the host's: src/admin.cpp (join, leave, server start), src/net.cpp      *)
(* (chat packets), src/util.cpp (the message countdown of onEachFrame) and *)
(* src/authManager.cpp (authCheckDelayed, authentificate, authToggle, the  *)
(* thread authRemoteLogin).                                                *)
(*                                                                         *)
(* A slot goes 0 -> 1 (asked for a login) -> 2 (login given) -> 3 (both    *)
(* given, being checked) -> 4 (authorised), or from 3 back to 1.  Checks   *)
(* are kept by slot, not by player, and nothing withdraws them: the slot   *)
(* may have been left, or taken by somebody else, when the answer comes.   *)
(*                                                                         *)
(* The command of a remote check is a buffer that the login thread shares  *)
(* with the queue of remote commands (350), whose report deletes it (761), *)
(* and the thread reads remoteCommand twice, which authToggle sets: how    *)
(* the queue comes to that report is module AuthRemote's subject, here it  *)
(* may come at any time.                                                   *)
(***************************************************************************)
EXTENDS Integers, Sequences, FiniteSets

CONSTANTS
  Players,       \* player indices but 0x1F, the host's
  Logins,        \* what a player may type as his login
  Passwords,     \* and as his password
  NoLogin,       \* authorisedLogins[i] points to the literal ""
  NoPass,        \* notLoggedIn has no entry
  NoCommand,     \* the login thread has no command
  Stray,         \* what a thread asks that has read its command when it was freed
  WelcomeFrames, \* frames between joining and the first message (30 in the code)
  MaxQueue,      \* bound on notLoggedInRemote
  MaxOrphans     \* bound on the slots whose checks lost their player

ASSUME SessionAssumption ==
  /\ WelcomeFrames \in Nat \ {0}
  /\ MaxQueue \in Nat \ {0}
  /\ MaxOrphans \in Nat
  /\ NoLogin \notin Logins
  /\ NoPass \notin Passwords

(***************************************************************************)
(* The invalid accesses that may end the process: delete [] of a literal   *)
(* login, strlen of a missing password, remoteCommand read as NULL or into *)
(* too small a buffer, a command read after it was freed; and "length": an *)
(* answer that was never written (webserver.cpp 488), a report longer than *)
(* its buffer, new char[] of a negative length for a short chat.           *)
(***************************************************************************)
Faults == {"login", "pass", "server", "command", "length"}

VARIABLES
  specialAuthorisation,  \* logging in is required
  specialAuthRemote,     \* and is checked by another server; remoteCommand # NULL
  present,               \* players on the server
  authorisedState,       \* byte
  authorisedLogins,
  authSendWelcomeMsg,    \* signed char
  notLoggedIn,           \* map: the password to check, by slot
  notLoggedInRemote,     \* queue of slots to check remotely
  remoteAuthLoggingIn,   \* a login thread was started and not yet collected
  loginThread,           \* "none", "start", "stale" (as "start", but remoteCommand
                         \* is another one since), "wait", "done"; "failed" if not made
  command,               \* the command given to that thread
  freed,                 \* its buffer is deleted and the thread has yet to read it
  request,               \* what the thread asks
  lastAuthResultCodeL,   \* TRUE for 200, until that has been collected
  fault,                 \* the invalid access that ended the process, or "none"
  sent,                  \* history: the password given in this session
  granted,               \* history: what the answer that authorised him was about
  orphaned               \* history: slots with a check nobody waits for

toggleVars == <<specialAuthorisation, specialAuthRemote>>
checkVars  == <<notLoggedIn, notLoggedInRemote, remoteAuthLoggingIn>>
threadVars == <<loginThread, command, freed, request, lastAuthResultCodeL>>
slotVars   == <<present, authorisedState, authorisedLogins, authSendWelcomeMsg>>
histVars   == <<sent, granted, orphaned>>
sessionVars ==
  <<toggleVars, checkVars, threadVars, slotVars, fault, histVars>>

crashed == fault # "none"

Pairs == (Logins \cup {NoLogin}) \X Passwords
Commands == [player : Players, login : Logins \cup {NoLogin}, pass : Passwords]

SessionTypeOK ==
  /\ specialAuthorisation \in BOOLEAN
  /\ specialAuthRemote \in BOOLEAN
  /\ specialAuthRemote => specialAuthorisation
  /\ present \in SUBSET Players
  /\ authorisedState \in [Players -> 0 .. 255]
  /\ authorisedLogins \in [Players -> Logins \cup {NoLogin}]
  /\ authSendWelcomeMsg \in [Players -> -2 .. WelcomeFrames]
  /\ notLoggedIn \in [Players -> Passwords \cup {NoPass}]
  /\ notLoggedInRemote \in Seq(Players)
  /\ remoteAuthLoggingIn \in BOOLEAN
  /\ loginThread \in {"none", "start", "stale", "wait", "done", "failed"}
  /\ command \in Commands \cup {NoCommand}
  /\ freed \in BOOLEAN
  /\ request \in Pairs \cup {Stray, NoCommand}
  /\ lastAuthResultCodeL \in BOOLEAN
  /\ fault \in Faults \cup {"none"}
  /\ sent \in [Players -> Passwords \cup {NoPass}]
  /\ granted \in [Players -> Pairs \cup {Stray, NoCommand}]
  /\ orphaned \in SUBSET Players

SessionInit ==
  /\ specialAuthorisation = FALSE
  /\ specialAuthRemote = FALSE
  /\ present = {}
  /\ authorisedState = [i \in Players |-> 0]
  /\ authorisedLogins = [i \in Players |-> NoLogin]
  /\ authSendWelcomeMsg = [i \in Players |-> 0]
  /\ notLoggedIn = [i \in Players |-> NoPass]
  /\ notLoggedInRemote = <<>>
  /\ remoteAuthLoggingIn = FALSE
  /\ loginThread = "none"
  /\ command = NoCommand
  /\ freed = FALSE
  /\ request = NoCommand
  /\ lastAuthResultCodeL = FALSE
  /\ fault = "none"
  /\ sent = [i \in Players |-> NoPass]
  /\ granted = [i \in Players |-> NoCommand]
  /\ orphaned = {}

(* A check of slot i is somewhere between authCheckDelayed and its answer. *)
Queued(i) == \E n \in 1 .. Len(notLoggedInRemote) : notLoggedInRemote[n] = i
Pending(i) == notLoggedIn[i] # NoPass \/ Queued(i)
PendingSlots == {i \in Players : Pending(i)}

(* The process is ended. *)
Abort(f) ==
  fault' = f /\ UNCHANGED <<toggleVars, checkVars, threadVars, slotVars, histVars>>

-----------------------------------------------------------------------------
(* Players come and go (admin.cpp). *)

onPlayerJoin(i) ==
  /\ i \notin present
  /\ present' = present \cup {i}
  /\ IF specialAuthorisation
       THEN /\ authorisedState' = [authorisedState EXCEPT ![i] = 0]
            /\ authorisedLogins' = [authorisedLogins EXCEPT ![i] = NoLogin]
            /\ authSendWelcomeMsg' = [authSendWelcomeMsg EXCEPT ![i] = WelcomeFrames]
       ELSE UNCHANGED <<authorisedState, authorisedLogins, authSendWelcomeMsg>>
  /\ sent' = [sent EXCEPT ![i] = NoPass]
  /\ granted' = [granted EXCEPT ![i] = NoCommand]
  /\ orphaned' = IF Pending(i) \/ ~specialAuthorisation
                   THEN orphaned ELSE orphaned \ {i}
  /\ UNCHANGED <<toggleVars, checkVars, threadVars, fault>>

(* Mutant: leaving does not reset the state. *)
LeaveKeepsState(i) ==
  /\ i \in present
  /\ present' = present \ {i}
  /\ authorisedLogins' = [authorisedLogins EXCEPT ![i] = NoLogin]
  /\ sent' = [sent EXCEPT ![i] = NoPass]
  /\ granted' = [granted EXCEPT ![i] = NoCommand]
  /\ orphaned' = IF Pending(i) THEN orphaned \cup {i} ELSE orphaned
  /\ UNCHANGED <<toggleVars, checkVars, threadVars, authorisedState, authSendWelcomeMsg,
                 fault>>

(* Mutant: leaving withdraws the checks of the slot, but not its thread. *)
LeaveWithdrawsCheck(i) ==
  /\ i \in present
  /\ present' = present \ {i}
  /\ authorisedState' = [authorisedState EXCEPT ![i] = 0]
  /\ authorisedLogins' = [authorisedLogins EXCEPT ![i] = NoLogin]
  /\ notLoggedIn' = [notLoggedIn EXCEPT ![i] = NoPass]
  /\ notLoggedInRemote' = SelectSeq(notLoggedInRemote, LAMBDA j : j # i)
  /\ sent' = [sent EXCEPT ![i] = NoPass]
  /\ granted' = [granted EXCEPT ![i] = NoCommand]
  /\ UNCHANGED <<toggleVars, remoteAuthLoggingIn, threadVars, authSendWelcomeMsg, fault,
                 orphaned>>

(* Leaving resets the slot, but neither its countdown nor its checks. *)
onPlayerLeave(i) ==
  /\ i \in present
  /\ present' = present \ {i}
  /\ authorisedState' = [authorisedState EXCEPT ![i] = 0]
  /\ authorisedLogins' = [authorisedLogins EXCEPT ![i] = NoLogin]
  /\ sent' = [sent EXCEPT ![i] = NoPass]
  /\ granted' = [granted EXCEPT ![i] = NoCommand]
  /\ orphaned' = IF Pending(i) THEN orphaned \cup {i} ELSE orphaned
  /\ UNCHANGED <<toggleVars, checkVars, threadVars, authSendWelcomeMsg, fault>>

(* A game is started: every slot is reset, the checks again are not. *)
onServerStart ==
  /\ present' = {}
  /\ authorisedState' = [i \in Players |-> 0]
  /\ authorisedLogins' = [i \in Players |-> NoLogin]
  /\ authSendWelcomeMsg' = [i \in Players |-> 0]
  /\ sent' = [i \in Players |-> NoPass]
  /\ granted' = [i \in Players |-> NoCommand]
  /\ orphaned' = orphaned \cup PendingSlots
  /\ UNCHANGED <<toggleVars, checkVars, threadVars, fault>>

-----------------------------------------------------------------------------
(***************************************************************************)
(* Chat of a player who is not authorised (net.cpp, packets A8 and BB with *)
(* the prefix //auth).  In states 0 and 3 it is dropped, and above 3 it is *)
(* chat.                                                                   *)
(***************************************************************************)
ChatLogin(i, login) ==
  /\ specialAuthorisation
  /\ i \in present
  /\ authorisedState[i] = 1
  /\ authorisedLogins' = [authorisedLogins EXCEPT ![i] = login]
  /\ authorisedState' = [authorisedState EXCEPT ![i] = 2]
  /\ authSendWelcomeMsg' = [authSendWelcomeMsg EXCEPT ![i] = -1]
  /\ UNCHANGED <<toggleVars, checkVars, threadVars, present, fault, histVars>>

(* map::insert keeps an entry that is already there. *)
authCheckDelayed(i, pass) ==
  /\ notLoggedIn' = IF notLoggedIn[i] = NoPass
                      THEN [notLoggedIn EXCEPT ![i] = pass] ELSE notLoggedIn
  /\ notLoggedInRemote' = IF specialAuthRemote
                            THEN Append(notLoggedInRemote, i) ELSE notLoggedInRemote
  /\ UNCHANGED remoteAuthLoggingIn

ChatPassword(i, pass) ==
  /\ specialAuthorisation
  /\ i \in present
  /\ authorisedState[i] = 2
  /\ Len(notLoggedInRemote) < MaxQueue
  /\ authorisedState' = [authorisedState EXCEPT ![i] = 3]
  /\ authSendWelcomeMsg' = [authSendWelcomeMsg EXCEPT ![i] = -1]
  /\ authCheckDelayed(i, pass)
  /\ sent' = [sent EXCEPT ![i] = pass]
  /\ UNCHANGED <<toggleVars, threadVars, present, authorisedLogins, fault, granted, orphaned>>

(* A text shorter than "//auth " that starts like it: there is no room for *)
(* what is left of it.                                                     *)
ChatShort(i) ==
  /\ specialAuthorisation
  /\ i \in present
  /\ authorisedState[i] \in {1, 2}
  /\ Abort("length")

(***************************************************************************)
(* onEachFrame: the countdown runs from 30 to 1 and then, as after every   *)
(* answer, the message of the slot's state is sent.  State 0 becomes 1.    *)
(***************************************************************************)
(* Mutant: the countdown does not send its message. *)
MessageAfterAnswerOnly(i) == authSendWelcomeMsg[i] < 0

MessageDue(i) == authSendWelcomeMsg[i] < 0 \/ authSendWelcomeMsg[i] = 1

onEachFrame ==
  /\ specialAuthorisation
  /\ authSendWelcomeMsg' = [i \in Players |->
       IF MessageDue(i) \/ authSendWelcomeMsg[i] = 0 THEN 0 ELSE authSendWelcomeMsg[i] - 1]
  /\ authorisedState' = [i \in Players |->
       IF MessageDue(i) /\ authorisedState[i] = 0 THEN 1 ELSE authorisedState[i]]
  /\ UNCHANGED <<toggleVars, checkVars, threadVars, present, authorisedLogins,
                 fault, histVars>>
-----------------------------------------------------------------------------
(* authentificate *)

(* Mutant: a refusal leads back to the password only. *)
AnsweredKeepsLogin(state, ok) == IF ok THEN (state + 1) % 256 ELSE (state + 255) % 256

(* authorisedState is a byte: it grows by one or loses two, whatever it is. *)
Answered(state, ok) == IF ok THEN (state + 1) % 256 ELSE (state + 254) % 256

(* The answers of the slots in S, ok[i] for slot i about the pair about[i]. *)
Apply(S, ok, about) ==
  /\ authorisedState' = [i \in Players |->
       IF i \in S THEN Answered(authorisedState[i], ok[i]) ELSE authorisedState[i]]
  /\ authorisedLogins' = [i \in Players |->
       IF i \in S /\ ~ok[i] THEN NoLogin ELSE authorisedLogins[i]]
  /\ authSendWelcomeMsg' = [i \in Players |->
       IF i \in S THEN -1 ELSE authSendWelcomeMsg[i]]
  /\ granted' = [i \in Players |->
       IF i \in S /\ ok[i] /\ authorisedState[i] = 3 THEN about[i] ELSE granted[i]]

(* An answer of no deletes the login of the slot, allocated or not. *)
FreesLiteral(S, ok) == \E i \in S : ~ok[i] /\ authorisedLogins[i] = NoLogin

(* Mutant: what was checked stays in notLoggedIn. *)
CheckWithoutClear(ok) ==
  LET S     == {i \in Players : notLoggedIn[i] # NoPass}
      about == [i \in Players |-> <<authorisedLogins[i], notLoggedIn[i]>>]
  IN  /\ ~specialAuthRemote
      /\ Apply(S, ok, about)
      /\ UNCHANGED <<toggleVars, threadVars, checkVars, present, fault, sent, orphaned>>

(***************************************************************************)
(* Without a remote server every password there is gets checked at once;   *)
(* ok[i] is what authLogin says of slot i (module AuthStore; here either). *)
(***************************************************************************)
CheckLocally(ok) ==
  LET S     == {i \in Players : notLoggedIn[i] # NoPass}
      about == [i \in Players |-> <<authorisedLogins[i], notLoggedIn[i]>>]
  IN  /\ ~specialAuthRemote
      /\ \/ /\ Apply(S, ok, about)
            /\ notLoggedIn' = [i \in Players |-> NoPass]
            /\ UNCHANGED <<toggleVars, threadVars, notLoggedInRemote, remoteAuthLoggingIn,
                           present, fault, sent, orphaned>>
         \/ FreesLiteral(S, ok) /\ Abort("login")

(***************************************************************************)
(* With one, the answer of the thread that has ended is given to the slot  *)
(* at the head of the queue, which leaves it; the next slot's command is   *)
(* built and its thread started.  The answer is about what the thread has  *)
(* asked.                                                                  *)
(***************************************************************************)
Ended == remoteAuthLoggingIn /\ loginThread = "done"
Collected == IF Ended THEN {Head(notLoggedInRemote)} ELSE {}

(* The passwords, the queue and the thread when the answer has been given. *)
PassesLeft == [i \in Players |-> IF i \in Collected THEN NoPass ELSE notLoggedIn[i]]
WaitingUnpopped == notLoggedInRemote  \* mutant: no pop
Waiting == IF Ended THEN Tail(notLoggedInRemote) ELSE notLoggedInRemote
BusyForEver == remoteAuthLoggingIn  \* mutant: no reset
Busy == remoteAuthLoggingIn /\ ~Ended

CheckRemotely ==
  LET about == [i \in Players |-> request]
      ok    == [i \in Players |-> lastAuthResultCodeL]
      start == Waiting # <<>> /\ ~Busy
      next  == Head(Waiting)
  IN  /\ specialAuthRemote
      /\ \/ /\ start => PassesLeft[next] # NoPass
            /\ Apply(Collected, ok, about)
            /\ notLoggedIn' = PassesLeft
            /\ notLoggedInRemote' = Waiting
            /\ remoteAuthLoggingIn' = (start \/ Busy)
            /\ loginThread' \in IF start THEN {"start", "failed"}
                               ELSE IF Ended THEN {"none"} ELSE {loginThread}
            /\ command' = IF start
                 THEN [player |-> next, login |-> authorisedLogins'[next],
                       pass |-> PassesLeft[next]]
                 ELSE IF Ended THEN NoCommand ELSE command
            /\ request' = IF Ended THEN NoCommand ELSE request
            /\ lastAuthResultCodeL' = (lastAuthResultCodeL /\ ~Ended)
            /\ UNCHANGED <<toggleVars, present, freed, fault, sent, orphaned>>
         \/ FreesLiteral(Collected, ok) /\ Abort("login")
         \/ start /\ PassesLeft[next] = NoPass /\ Abort("pass")

authentificate(ok) == CheckLocally(ok) \/ CheckRemotely

(***************************************************************************)
(* The rest of updateAuthDBProcess reports a remote command that has ended *)
(* and deletes its buffer; it may be that of a login thread which has not  *)
(* come to read it (authentificate leaves such a thread alone, so that the *)
(* report is a step of its own).  The command may be too long to report.   *)
(***************************************************************************)
ReportCommand ==
  /\ specialAuthRemote
  /\ \/ /\ loginThread \in {"start", "stale"}
        /\ freed' = TRUE
        /\ UNCHANGED <<toggleVars, checkVars, loginThread, command, request,
                       lastAuthResultCodeL, slotVars, fault, sent, granted, orphaned>>
     \/ Abort("length")

updateAuthDBProcess(ok) == authentificate(ok) \/ ReportCommand

-----------------------------------------------------------------------------
(***************************************************************************)
(* The login thread reads its command, measures the request and puts it    *)
(* together, and nobody sees when: what became of the command and of       *)
(* remoteCommand since the thread was started may have come before,        *)
(* between or after these reads.  A command that is still there is its own.*)
(***************************************************************************)
Requested ==
  {<<command.login, command.pass>>} \cup IF freed THEN {Stray} ELSE {}

LoginThreadSend ==
  /\ loginThread \in {"start", "stale"}
  /\ \/ /\ specialAuthRemote
        /\ loginThread' = "wait"
        /\ request' \in Requested
        /\ freed' = FALSE
        /\ UNCHANGED <<toggleVars, checkVars, command, lastAuthResultCodeL, slotVars, fault,
                       histVars>>
     \/ (loginThread = "stale" \/ ~specialAuthRemote) /\ Abort("server")
     \/ freed /\ Abort("command")

(* 200, or 0 when the host is unknown, unreachable or says something else; *)
(* httpGetInternal copies its answer also when there is none.              *)
LoginThreadAnswer ==
  /\ loginThread = "wait"
  /\ \/ /\ loginThread' = "done"
        /\ lastAuthResultCodeL' \in BOOLEAN
        /\ UNCHANGED <<toggleVars, checkVars, command, freed, request, slotVars, fault,
                       histVars>>
     \/ Abort("length")

authRemoteLogin == LoginThreadSend \/ LoginThreadAnswer

(* Switched off, or on with or without a remote server (remote). *)
authToggle(remote) ==
  /\ specialAuthorisation' = ~specialAuthorisation
  /\ specialAuthRemote' = (~specialAuthorisation /\ remote)
  /\ orphaned' = IF specialAuthRemote' # specialAuthRemote
                   THEN orphaned \cup PendingSlots ELSE orphaned
  /\ loginThread' = IF loginThread = "start" THEN "stale" ELSE loginThread
  /\ UNCHANGED <<checkVars, command, freed, request, lastAuthResultCodeL, slotVars, fault,
                 sent, granted>>

(* What the program does by itself, and what players and the operator do. *)
Player(i) ==
  \/ onPlayerJoin(i)
  \/ onPlayerLeave(i)
  \/ \E login \in Logins : ChatLogin(i, login)
  \/ \E pass \in Passwords : ChatPassword(i, pass)
  \/ ChatShort(i)

SessionNext ==
  \/ /\ ~crashed
     /\ \/ \E i \in Players : Player(i)
        \/ onServerStart
        \/ onEachFrame
        \/ \E ok \in [Players -> BOOLEAN] : updateAuthDBProcess(ok)
        \/ authRemoteLogin
        \/ \E remote \in BOOLEAN : authToggle(remote)
     /\ Cardinality(orphaned') <= MaxOrphans
  \/ crashed /\ UNCHANGED sessionVars

SessionSpec == SessionInit /\ [][SessionNext]_sessionVars

(***************************************************************************)
(* Players and the operator owe nothing.  The frame                        *)
(* and GUI hooks run on every iteration of the game's loop; the connection *)
(* of the login thread is assumed to end, answered or not.                 *)
(***************************************************************************)
SessionFairSpec ==
  /\ SessionSpec
  /\ WF_sessionVars(~crashed /\ onEachFrame)
  /\ WF_sessionVars(~crashed /\ \E ok \in [Players -> BOOLEAN] : authentificate(ok))
  /\ WF_sessionVars(~crashed /\ authRemoteLogin)

-----------------------------------------------------------------------------
(* A slot none of whose checks lost the player who asked for it. *)
Sound(i) == i \notin orphaned

(***************************************************************************)
(* In a sound slot a check is under way exactly in state 3, and it is one  *)
(* check: its password waits in notLoggedIn and, with a remote server, its *)
(* slot stands in the queue once (net.cpp 1029-1050, authManager 319-371). *)
(***************************************************************************)
OneCheckInState3 ==
  \A i \in Players : Sound(i) =>
    /\ authorisedState[i] = 3 <=> notLoggedIn[i] # NoPass
    /\ (authorisedState[i] = 3 /\ specialAuthRemote) <=> Queued(i)
    /\ \A m, n \in 1 .. Len(notLoggedInRemote) :
         notLoggedInRemote[m] = i /\ notLoggedInRemote[n] = i => m = n

(***************************************************************************)
(* A sound slot is in one of the five documented states (net.cpp 984-995)  *)
(* and owns an allocated login exactly while it has been given one, so     *)
(* that the delete [] of a refused login is a legal one.                   *)
(***************************************************************************)
StateAndLoginAgree ==
  \A i \in Players : Sound(i) =>
    /\ authorisedState[i] \in 0 .. 4
    /\ authorisedState[i] \in 2 .. 4 <=> authorisedLogins[i] # NoLogin

(***************************************************************************)
(* Who is authorised in a sound slot gave, in this session, the very login *)
(* and password that the positive answer was about; unless the buffer of   *)
(* his command was freed before the login thread came to read it, for then *)
(* the request may be about anything (authManager.cpp 179, 350, 761).      *)
(***************************************************************************)
AuthorisedByOwnCheck ==
  \A i \in Players : Sound(i) /\ authorisedState[i] = 4 =>
    /\ i \in present
    /\ granted[i] \in {<<authorisedLogins[i], sent[i]>>, Stray}

(***************************************************************************)
(* What makes that so: the password waiting in a sound slot, and the       *)
(* command a login thread carries for it, are those of the player who is   *)
(* there; and nobody is past state 1 in a slot that is empty.              *)
(***************************************************************************)
ChecksAreCurrent ==
  \A i \in Players : Sound(i) =>
    /\ i \notin present => authorisedState[i] \in 0 .. 1
    /\ notLoggedIn[i] # NoPass => notLoggedIn[i] = sent[i]
    /\ remoteAuthLoggingIn /\ command.player = i =>
         command = [player |-> i, login |-> authorisedLogins[i], pass |-> notLoggedIn[i]]

(***************************************************************************)
(* While a login thread exists the head of the queue is the slot whose     *)
(* command it carries: the answer is never given to the wrong slot, nor    *)
(* taken from an empty queue (authManager.cpp 325-339).                    *)
(***************************************************************************)
HeadIsAsker ==
  /\ remoteAuthLoggingIn <=> loginThread # "none"
  /\ remoteAuthLoggingIn =>
       /\ notLoggedInRemote # <<>>
       /\ command \in Commands /\ command.player = Head(notLoggedInRemote)

(***************************************************************************)
(* The accesses that go wrong when a check does not find its player again: *)
(* a missing password is measured, a literal login deleted, a request made *)
(* to no server or a changed one only after some check lost its player.    *)
(* (A command that was freed, a connection that fails, a report or a text  *)
(* of the wrong length end the process whatever became of the checks.)     *)
(***************************************************************************)
NoFaultUnlessOrphaned == fault \in {"login", "pass", "server"} => orphaned # {}

(***************************************************************************)
(* A thread asks what its command says, or what it took for its command;   *)
(* and if remoteCommand changes under it, so did the mode, which leaves    *)
(* the check of its slot to nobody.                                        *)
(***************************************************************************)
RequestIsCommand ==
  /\ freed => loginThread \in {"start", "stale"}
  /\ loginThread = "stale" => command.player \in orphaned
  /\ loginThread \in {"wait", "done"} =>
       request \in {<<command.login, command.pass>>, Stray}

SessionInv ==
  /\ SessionTypeOK
  /\ OneCheckInState3
  /\ StateAndLoginAgree
  /\ AuthorisedByOwnCheck
  /\ ChecksAreCurrent
  /\ HeadIsAsker
  /\ RequestIsCommand
  /\ NoFaultUnlessOrphaned

(***************************************************************************)
(* Every check of a sound slot is answered: its player does not wait in    *)
(* state 3, where his chat is dropped, for ever; unless the thread of a    *)
(* check could not be made, after which there are no checks any more (351).*)
(***************************************************************************)
CheckAnswered ==
  \A i \in Players :
    (Sound(i) /\ authorisedState[i] = 3) ~>
      (crashed \/ ~Sound(i) \/ authorisedState[i] # 3 \/ loginThread = "failed")

(***************************************************************************)
(* A player who joins while logging in is required is asked for a login,   *)
(* once the countdown ends (as long as it stays required).                 *)
(***************************************************************************)
NewcomerPrompted ==
  \A i \in Players :
    (i \in present /\ authSendWelcomeMsg[i] > 0) ~>
      (crashed \/ i \notin present \/ ~specialAuthorisation \/ authorisedState[i] # 0)

-----------------------------------------------------------------------------
(* What the source says of itself, and the code does not keep.             *)

(***************************************************************************)
(* The comment at admin.cpp 1176: a player who leaves is deauthorised.     *)
(* The answer to his check authorises whoever waits in his slot next (no   *)
(* freed command is needed for that).                                      *)
(***************************************************************************)
LeaveDeauthorises ==
  \A i \in Players : authorisedState[i] = 4 /\ granted[i] # Stray =>
    i \in present /\ granted[i] = <<authorisedLogins[i], sent[i]>>
=============================================================================
