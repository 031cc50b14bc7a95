----------------------------- MODULE AuthRemote -----------------------------
(***************************************************************************)
(* Commands to the server that keeps the accounts (src/authManager.cpp):   *)
(* the Lua functions queue them while specialAuthRemote is set, the thread *)
(* authRemoteCommand executes the one at the head of the queue, and        *)
(* updateAuthDBProcess, on the main thread, reports how it came out.       *)
(*                                                                         *)
(* A login check has a thread of its own, authRemoteLogin, but its command *)
(* goes into the same queue: it is sent twice, and the report of the one   *)
(* frees the buffer that the other may not have read yet.  Both threads    *)
(* read remoteCommand twice, which authToggle sets meanwhile.              *)
(*                                                                         *)
(* Buffers are numbered as they are allocated.  All go through the queue,  *)
(* and are freed when they leave it.                                       *)
(***************************************************************************)
EXTENDS Integers, SequencesExt

CONSTANTS
  Servers,      \* what remoteCommand may point to
  NoServer,     \* NULL
  UrlLength,    \* the length of the string there
  MaxBuffers,   \* bound on the buffers allocated
  Nothing       \* nothing was reported yet; no command

ASSUME RemoteAssumption ==
  /\ NoServer \notin Servers
  /\ UrlLength \in [Servers -> Nat]
  /\ MaxBuffers \in Nat
  /\ Nothing \notin 1 .. MaxBuffers
  /\ Nothing \notin BOOLEAN
  /\ Nothing \notin (1 .. MaxBuffers) \X BOOLEAN

VARIABLES
  specialAuthorisation,
  remoteCommand,        \* specialAuthRemote is set exactly while this is not NULL
  remoteCommandList,    \* queue of buffers
  buffers,              \* how many were allocated
  overlong,             \* buffers whose report is longer than buf, of 200 bytes
  remoteAuthUpdating,   \* a thread was started and its result not yet reported
  remoteAuthLoggingIn,  \* a login thread was, and not yet collected
  threads,              \* authRemoteCommand ("command") and authRemoteLogin ("login")
  results,              \* lastAuthResultCode, lastAuthResultCodeL: TRUE for 200
  pc,                   \* main thread: "frame", or in updateAuthDBProcess
  reported,             \* the last line about a command on the console
  fault,                \* what invalid access ended the process, and whose; or NoFault
  askedOf,              \* history: the server each command was meant for
  carried,              \* history: commands under way when remoteCommand was set
  outrun                \* history: login commands freed before their thread read them

queueVars  == <<remoteCommandList, buffers, overlong, askedOf>>
threadVars == <<threads, results>>
flagVars   == <<remoteAuthUpdating, remoteAuthLoggingIn>>
toggleVars == <<specialAuthorisation, remoteCommand, carried>>
remoteVars ==
  <<queueVars, threadVars, flagVars, toggleVars, pc, reported, fault, outrun>>

Buffers == 1 .. MaxBuffers
specialAuthRemote == remoteCommand # NoServer

Names == {"command", "login"}

(***************************************************************************)
(* The invalid accesses, of the thread or the report of a buffer's command:*)
(* remoteCommand read as NULL or into too small a buffer; the command read *)
(* after it was freed; an answer copied that was never written; a report   *)
(* longer than its buffer.                                                 *)
(***************************************************************************)
Faults == {"server", "command", "answer", "report"} \X Buffers
NoFault == <<"none", 0>>
crashed == fault # NoFault

(* "start" before the command is read, "sized" between the two reads of    *)
(* remoteCommand, "failed" where _beginthreadex made no thread.            *)
Threads == [at : {"none", "start", "sized", "wait", "done", "failed"},
            buffer : 0 .. MaxBuffers, size : Nat,
            server : Servers \cup {NoServer}, own : BOOLEAN]

NoThread == [at |-> "none", buffer |-> 0, size |-> 0, server |-> NoServer, own |-> TRUE]

RemoteTypeOK ==
  /\ specialAuthorisation \in BOOLEAN
  /\ remoteCommand \in Servers \cup {NoServer}
  /\ remoteCommandList \in Seq(Buffers)
  /\ buffers \in 0 .. MaxBuffers
  /\ overlong \in SUBSET Buffers
  /\ remoteAuthUpdating \in BOOLEAN
  /\ remoteAuthLoggingIn \in BOOLEAN
  /\ threads \in [Names -> Threads]
  /\ results \in [Names -> BOOLEAN]
  /\ pc \in {"frame", "report", "start"}
  /\ reported \in (Buffers \X BOOLEAN) \cup {Nothing}
  /\ fault \in Faults \cup {NoFault}
  /\ askedOf \in [Buffers -> Servers \cup {NoServer}]
  /\ carried \in SUBSET Buffers
  /\ outrun \in SUBSET Buffers

RemoteInit ==
  /\ specialAuthorisation = FALSE
  /\ remoteCommand = NoServer
  /\ remoteCommandList = <<>>
  /\ buffers = 0
  /\ overlong = {}
  /\ remoteAuthUpdating = FALSE
  /\ remoteAuthLoggingIn = FALSE
  /\ threads = [t \in Names |-> NoThread]
  /\ results = [t \in Names |-> FALSE]
  /\ pc = "frame"
  /\ reported = Nothing
  /\ fault = NoFault
  /\ askedOf = [b \in Buffers |-> NoServer]
  /\ carried = {}
  /\ outrun = {}

-----------------------------------------------------------------------------
(* The queue. *)

Freed(b) == b \notin ToSet(remoteCommandList)

(* remoteCommandList.push(new ...) *)
Push(long) ==
  /\ buffers < MaxBuffers
  /\ buffers' = buffers + 1
  /\ remoteCommandList' = Append(remoteCommandList, buffers + 1)
  /\ overlong' = IF long THEN overlong \cup {buffers + 1} ELSE overlong
  /\ askedOf' = [askedOf EXCEPT ![buffers + 1] = remoteCommand]

(***************************************************************************)
(* authRegister, authChangePass, authLogin, authLock and authDelete of the *)
(* Lua environment, with a remote server.  Their command may be long.      *)
(***************************************************************************)
AccountCommand(long) ==
  /\ pc = "frame" /\ specialAuthRemote
  /\ Push(long)
  /\ UNCHANGED <<threadVars, flagVars, toggleVars, pc, reported, fault, outrun>>

(* What the threads and the queue hold when remoteCommand is set. *)
UnderWay ==
  ToSet(remoteCommandList) \cup {threads[t].buffer : t \in {n \in Names : threads[n].at # "none"}}

(* Off, or on: with a server or without one (NoServer). *)
authToggle(server) ==
  /\ pc = "frame"
  /\ specialAuthorisation' = ~specialAuthorisation
  /\ remoteCommand' = IF specialAuthorisation THEN NoServer ELSE server
  /\ carried' = IF remoteCommand' # remoteCommand THEN carried \cup UnderWay ELSE carried
  /\ UNCHANGED <<queueVars, threadVars, flagVars, pc, reported, fault, outrun>>

-----------------------------------------------------------------------------
(* The threads. *)

(* _beginthreadex: the thread may not come to be. *)
Started(b) ==
  {[at |-> s, buffer |-> b, size |-> 0, server |-> NoServer, own |-> TRUE] :
     s \in {"start", "failed"}}

ThreadGoes(t, at) == threads' = [threads EXCEPT ![t].at = at]

ThreadUnchanged ==
  UNCHANGED <<queueVars, flagVars, toggleVars, pc, reported, outrun>>

Crash(t, what) == fault' = <<what, threads[t].buffer>> /\ UNCHANGED threadVars

(***************************************************************************)
(* The command is copied and room made for it: strlen(remoteCommand).  A   *)
(* buffer that was freed may still hold the command, hold another one or   *)
(* lie in no page at all.                                                  *)
(***************************************************************************)
ThreadSizes(t) ==
  /\ threads[t].at = "start"
  /\ \/ /\ specialAuthRemote
        /\ \E own \in IF Freed(threads[t].buffer) THEN BOOLEAN ELSE {TRUE} :
             threads' = [threads EXCEPT ![t].at = "sized", ![t].own = own,
                                        ![t].size = UrlLength[remoteCommand]]
        /\ UNCHANGED <<results, fault>>
     \/ ~specialAuthRemote /\ Crash(t, "server")
     \/ Freed(threads[t].buffer) /\ Crash(t, "command")
  /\ ThreadUnchanged

(* strcpy(resultCommand, remoteCommand): a longer string overruns the room. *)
ThreadCopies(t) ==
  /\ threads[t].at = "sized"
  /\ \/ /\ specialAuthRemote
        /\ threads' = [threads EXCEPT ![t].at = "wait", ![t].server = remoteCommand]
        /\ UNCHANGED <<results, fault>>
     \/ (specialAuthRemote => UrlLength[remoteCommand] > threads[t].size) /\ Crash(t, "server")
  /\ ThreadUnchanged

(* httpGetInternal returns: 200, or anything else.  If it got no answer    *)
(* it copies what its buffer happens to hold (module HttpGet).             *)
ThreadEnds(t) ==
  /\ threads[t].at = "wait"
  /\ \/ /\ ThreadGoes(t, "done")
        /\ \E ok \in BOOLEAN : results' = [results EXCEPT ![t] = ok]
        /\ UNCHANGED fault
     \/ Crash(t, "answer")
  /\ ThreadUnchanged

ThreadStep(t) == ThreadSizes(t) \/ ThreadCopies(t) \/ ThreadEnds(t)

authRemoteCommand == ThreadStep("command")
authRemoteLogin == ThreadStep("login")

-----------------------------------------------------------------------------
(* updateAuthDBProcess, once a frame: authentificate, report, start. *)

LoginEnded == threads["login"].at = "done"
LoginBusy == remoteAuthLoggingIn /\ ~LoginEnded

(* A login is checked (module AuthSession): the command, made of what the  *)
(* player typed, goes into the queue and to the login thread.              *)
LoginStarts ==
  /\ specialAuthRemote /\ ~LoginBusy
  /\ \E long \in BOOLEAN : Push(long)
  /\ remoteAuthLoggingIn' = TRUE
  /\ \E new \in Started(buffers + 1) : threads' = [threads EXCEPT !["login"] = new]

(* None waits for the login thread. *)
LoginStartsNot ==
  /\ IF specialAuthRemote /\ remoteAuthLoggingIn /\ LoginEnded
       THEN /\ remoteAuthLoggingIn' = FALSE
            /\ threads' = [threads EXCEPT !["login"] = NoThread]
       ELSE UNCHANGED <<threads, remoteAuthLoggingIn>>
  /\ UNCHANGED queueVars

authentificate ==
  /\ pc = "frame" /\ pc' = "report"
  /\ LoginStarts \/ LoginStartsNot
  /\ UNCHANGED <<toggleVars, results, remoteAuthUpdating, reported, fault, outrun>>

(* The report overruns buf. *)
ReportOverruns ==
  /\ Head(remoteCommandList) \in overlong
  /\ fault' = <<"report", Head(remoteCommandList)>>
  /\ UNCHANGED <<threads, remoteCommandList, remoteAuthUpdating, reported, outrun>>

(* Mutant: the flag is not reset. *)
ReportKeepsFlag ==
  /\ reported' = <<Head(remoteCommandList), results["command"]>>
  /\ remoteCommandList' = Tail(remoteCommandList)
  /\ threads' = [threads EXCEPT !["command"] = NoThread]
  /\ UNCHANGED <<remoteAuthUpdating, outrun, fault>>

(* The line is printed, the buffer freed, whoever has still to read it. *)
ReportHead ==
  /\ reported' = <<Head(remoteCommandList), results["command"]>>
  /\ remoteCommandList' = Tail(remoteCommandList)
  /\ threads' = [threads EXCEPT !["command"] = NoThread]
  /\ remoteAuthUpdating' = FALSE
  /\ outrun' = IF threads["login"].at = "start"
                  /\ threads["login"].buffer = Head(remoteCommandList)
                 THEN outrun \cup {Head(remoteCommandList)} ELSE outrun
  /\ UNCHANGED fault

(* Mutant: the thread is not waited for. *)
ReportUnwaited ==
  /\ pc = "report" /\ pc' = "start"
  /\ IF specialAuthRemote /\ remoteAuthUpdating
       THEN /\ reported' = <<Head(remoteCommandList), results["command"]>>
            /\ remoteCommandList' = Tail(remoteCommandList)
            /\ remoteAuthUpdating' = FALSE
            /\ UNCHANGED <<threads, outrun, fault>>
       ELSE UNCHANGED <<threads, remoteCommandList, remoteAuthUpdating, reported, outrun,
                        fault>>
  /\ UNCHANGED <<toggleVars, buffers, overlong, askedOf, results, remoteAuthLoggingIn>>

ReportCommand ==
  /\ pc = "report" /\ pc' = "start"
  /\ IF specialAuthRemote /\ remoteAuthUpdating /\ threads["command"].at = "done"
       THEN ReportHead \/ ReportOverruns
       ELSE UNCHANGED <<threads, remoteCommandList, remoteAuthUpdating, reported, outrun,
                        fault>>
  /\ UNCHANGED <<toggleVars, buffers, overlong, askedOf, results, remoteAuthLoggingIn>>

(* Mutant: the newest command is executed. *)
NewestCommand == Last(remoteCommandList)

NextCommand == Head(remoteCommandList)

StartCommand ==
  /\ pc = "start" /\ pc' = "frame"
  /\ IF specialAuthRemote /\ remoteCommandList # <<>> /\ ~remoteAuthUpdating
       THEN /\ \E new \in Started(NextCommand) :
                 threads' = [threads EXCEPT !["command"] = new]
            /\ remoteAuthUpdating' = TRUE
       ELSE UNCHANGED <<threads, remoteAuthUpdating>>
  /\ UNCHANGED <<queueVars, results, toggleVars, remoteAuthLoggingIn, reported, fault,
                 outrun>>

updateAuthDBProcess == authentificate \/ ReportCommand \/ StartCommand

-----------------------------------------------------------------------------
RemoteNext ==
  \/ /\ ~crashed
     /\ \/ \E long \in BOOLEAN : AccountCommand(long)
        \/ \E server \in Servers \cup {NoServer} : authToggle(server)
        \/ updateAuthDBProcess
        \/ authRemoteCommand
        \/ authRemoteLogin
  \/ crashed /\ UNCHANGED remoteVars

RemoteSpec == RemoteInit /\ [][RemoteNext]_remoteVars

(***************************************************************************)
(* updateAuthDBProcess is called on every iteration of the game's loop,    *)
(* and a connection comes to its end, answered or not.  The operator owes  *)
(* nothing.                                                                *)
(***************************************************************************)
RemoteFairSpec ==
  /\ RemoteSpec
  /\ WF_remoteVars(~crashed /\ updateAuthDBProcess)
  /\ WF_remoteVars(~crashed /\ authRemoteCommand)
  /\ WF_remoteVars(~crashed /\ authRemoteLogin)

-----------------------------------------------------------------------------
(***************************************************************************)
(* A thread that has put its request together carries its own command, to  *)
(* the server the command was meant for: unless the command's report freed *)
(* the buffer before a login thread read it (761), or logging in was       *)
(* switched while the command was under way (606).                         *)
(***************************************************************************)
SentAsGiven ==
  \A t \in Names : LET T == threads[t] IN
    T.at \in {"wait", "done"} =>
      /\ T.own \/ (t = "login" /\ T.buffer \in outrun)
      /\ T.server = askedOf[T.buffer] \/ T.buffer \in carried

(***************************************************************************)
(* What the threads read of the main thread's goes wrong for one reason    *)
(* each: remoteCommand is NULL, or too long, only for a command that was   *)
(* under way when logging in was switched; a command was freed only if it  *)
(* is a login's and its report came before its thread (761).  (A failed    *)
(* connection and a long report may end the process in any case.)          *)
(***************************************************************************)
FaultExplained ==
  \A b \in Buffers :
    /\ fault = <<"server", b>> => b \in carried
    /\ fault = <<"command", b>> => b \in outrun

(***************************************************************************)
(* The queue holds the buffers that were allocated last, in order.  The    *)
(* thread of a command reads the head, which is not freed before it has    *)
(* ended; a flag is set exactly while its thread is there.                 *)
(***************************************************************************)
QueueConsecutive ==
  /\ Len(remoteCommandList) <= buffers
  /\ \A j \in 1 .. Len(remoteCommandList) :
       remoteCommandList[j] = buffers - Len(remoteCommandList) + j

ThreadOnHead ==
  /\ remoteAuthUpdating <=> threads["command"].at # "none"
  /\ remoteAuthLoggingIn <=> threads["login"].at # "none"
  /\ remoteAuthUpdating =>
       /\ remoteCommandList # <<>>
       /\ threads["command"].buffer = Head(remoteCommandList)
  /\ remoteAuthLoggingIn => threads["login"].buffer \in 1 .. buffers

(* What has not been carried from one server to another is meant for this. *)
MeantForThis ==
  /\ \A b \in ToSet(remoteCommandList) \ carried : askedOf[b] = remoteCommand
  /\ \A t \in Names : LET T == threads[t] IN
       /\ T.at \in {"start", "sized"} /\ T.buffer \notin carried =>
            specialAuthRemote /\ askedOf[T.buffer] = remoteCommand
       /\ T.at = "sized" /\ T.buffer \notin carried => T.size = UrlLength[remoteCommand]
       /\ T.at = "sized" => T.own \/ (t = "login" /\ T.buffer \in outrun)
  /\ threads["login"].at = "start" /\ Freed(threads["login"].buffer) =>
       threads["login"].buffer \in outrun

RemoteInv ==
  /\ RemoteTypeOK
  /\ QueueConsecutive
  /\ ThreadOnHead
  /\ MeantForThis
  /\ SentAsGiven
  /\ FaultExplained

(***************************************************************************)
(* Every command given is executed and reported in the end, as long as the *)
(* same logging in stays switched on and its thread could be made.         *)
(***************************************************************************)
EventuallyReported ==
  \A b \in Buffers :
    b \in ToSet(remoteCommandList) ~>
      \/ b \notin ToSet(remoteCommandList)
      \/ crashed
      \/ ~specialAuthRemote
      \/ threads["command"].at = "failed"

(***************************************************************************)
(* The queue, its thread and the report implement the promise of           *)
(* RemoteCommands, also where logging in is switched off and on.           *)
(***************************************************************************)
R == INSTANCE RemoteCommands WITH
  Given   <- Buffers,
  waiting <- remoteCommandList,
  running <- IF remoteAuthUpdating THEN threads["command"].buffer ELSE Nothing,
  outcome <- IF threads["command"].at = "done" THEN results["command"] ELSE Nothing,
  said    <- reported

ImplementsRemoteCommands == R!RSpec
=============================================================================
