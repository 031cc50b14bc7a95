------------------------------- MODULE HttpGet --------------------------------
(***************************************************************************)
(* The HTTP client (src/Libs/webserver.cpp): Lua code asks for pages with  *)
(* httpGet, which keeps the table of a request in the registry and its     *)
(* reference in a queue.  On each update of the screen httpGetCallback     *)
(* answers the request whose thread has ended and starts a thread for the  *)
(* next one.  The thread is given a pointer into the uri of the table.     *)
(***************************************************************************)
EXTENDS Integers, SequencesExt

CONSTANTS
  Tables,      \* the tables Lua code has
  Uris,        \* strings
  Refs,        \* what luaL_ref may return; bounds the requests that are known
  NotString,   \* a uri that is no string
  NotTable,    \* an argument that is neither
  NoTable

(* What httpGetResult may hold: a page (that of a uri), or anything else.  *)
Junk == "junk"

ASSUME HttpAssumption ==
  /\ NotString \notin Uris /\ Junk \notin Uris
  /\ Tables \cap Uris = {} /\ NotTable \notin Tables \cup Uris
  /\ NoTable \notin Tables
  /\ Refs # {}

VARIABLES
  uri,                      \* the field of each table
  registry,                 \* the references luaL_ref has given, and their tables
  httpGetQueue,
  currentHttpGetReference,
  alreadyActive,
  thread,                   \* behind httpGetThreadH: "none", "running", "copying", "ended"
  given,                    \* the string the thread was given
  httpGetResult,
  pc,                       \* the main thread: "lua", "callback", "next"
  crashed,
  loose,                    \* that string may have been collected
  failed,                   \* history: the fetch has failed
  passedOver                \* history: the references left behind

requestVars == <<registry, httpGetQueue, currentHttpGetReference, alreadyActive, passedOver>>
threadVars  == <<thread, given, httpGetResult, loose, failed>>
httpVars    == <<uri, requestVars, threadVars, pc, crashed>>

HttpTypeOK ==
  /\ uri \in [Tables -> Uris \cup {NotString}]
  /\ registry \in [DOMAIN registry -> Tables] /\ DOMAIN registry \subseteq Refs
  /\ httpGetQueue \in Seq(Refs)
  /\ currentHttpGetReference \in Refs
  /\ alreadyActive \in BOOLEAN
  /\ thread \in {"none", "running", "copying", "ended"}
  /\ given \in Uris
  /\ httpGetResult \in Uris \cup {Junk}
  /\ pc \in {"lua", "callback", "next"}
  /\ crashed \in BOOLEAN /\ loose \in BOOLEAN /\ failed \in BOOLEAN
  /\ passedOver \in SUBSET Refs

HttpInit ==
  /\ uri \in [Tables -> Uris \cup {NotString}]
  /\ registry = <<>>
  /\ httpGetQueue = <<>>
  /\ currentHttpGetReference \in Refs
  /\ alreadyActive = FALSE
  /\ thread = "none"
  /\ given \in Uris
  /\ httpGetResult = Junk
  /\ pc = "lua"
  /\ crashed = FALSE /\ loose = FALSE /\ failed = FALSE
  /\ passedOver = {}

-----------------------------------------------------------------------------
(* Lua code, at any time but while httpGetCallback runs, or called by it.  *)

LuaRuns == pc \in {"lua", "callback"}

(* luaL_ref gives a reference that is not held. *)
Queue(t) ==
  \E ref \in Refs \ DOMAIN registry :
    /\ registry' = [r \in DOMAIN registry \cup {ref} |-> IF r = ref THEN t ELSE registry[r]]
    /\ httpGetQueue' = Append(httpGetQueue, ref)
    /\ UNCHANGED <<currentHttpGetReference, alreadyActive, passedOver>>

(* A string is put into a new table; other arguments are returned. *)
httpGet(arg) ==
  /\ LuaRuns
  /\ \/ arg \in Tables /\ Queue(arg) /\ UNCHANGED uri
     \/ /\ arg \in Uris
        /\ \E t \in Tables : /\ \A ref \in DOMAIN registry : registry[ref] # t
                             /\ uri' = [uri EXCEPT ![t] = arg]
                             /\ Queue(t)
  /\ UNCHANGED <<threadVars, pc, crashed>>

(* Lua code still has the table.  A string no table has may be collected.  *)
SetUri(t, u) ==
  /\ LuaRuns
  /\ uri' = [uri EXCEPT ![t] = u]
  /\ loose' = (loose \/ (thread = "running" /\ registry[currentHttpGetReference] = t /\ u # given))
  /\ UNCHANGED <<requestVars, thread, given, httpGetResult, failed, pc, crashed>>

-----------------------------------------------------------------------------
(* httpGetThread *)

(* The buffers are not initialised, so that after a failure anything is    *)
(* copied, and more of it than there is room for.                          *)
Fetch ==
  /\ thread = "running"
  /\ failed' \in BOOLEAN
  /\ crashed' \in {FALSE, failed' \/ loose}
  /\ thread' = "copying"
  /\ httpGetResult' = Junk
  /\ UNCHANGED <<uri, requestVars, given, loose, pc>>

Copied ==
  /\ thread = "copying"
  /\ thread' = "ended"
  /\ httpGetResult' \in IF failed \/ loose THEN Uris \cup {Junk} ELSE {given}
  /\ UNCHANGED <<uri, requestVars, given, loose, failed, pc, crashed>>

-----------------------------------------------------------------------------
(* httpGetCallback *)

(* Mutant: the thread is not waited for. *)
AnswerUnwaited ==
  /\ pc = "lua"
  /\ IF ~alreadyActive
       THEN pc' = "next" /\ UNCHANGED requestVars
       ELSE /\ pc' = "callback" /\ alreadyActive' = FALSE
            /\ UNCHANGED <<registry, httpGetQueue, currentHttpGetReference, passedOver>>
  /\ UNCHANGED <<uri, threadVars, crashed>>

Unref ==
  registry' = [r \in DOMAIN registry \ {currentHttpGetReference} |-> registry[r]]

(* Mutant: where there is no function to call the request stays active. *)
AnswerNobody ==
  /\ pc = "lua"
  /\ IF ~(alreadyActive /\ thread = "ended")
       THEN pc' = "next" /\ UNCHANGED requestVars
       ELSE /\ UNCHANGED <<httpGetQueue, currentHttpGetReference, passedOver>>
            /\ \/ pc' = "callback" /\ alreadyActive' = FALSE /\ UNCHANGED registry
               \/ pc' = "next" /\ UNCHANGED <<registry, alreadyActive>>
  /\ UNCHANGED <<uri, threadVars, crashed>>

(* The function is the callback of the table, onHttpGet, or there is none. *)
AnswerEnded ==
  /\ pc = "lua"
  /\ IF ~(alreadyActive /\ thread = "ended")
       THEN pc' = "next" /\ UNCHANGED requestVars
       ELSE /\ alreadyActive' = FALSE
            /\ UNCHANGED <<httpGetQueue, currentHttpGetReference, passedOver>>
            /\ \/ pc' = "callback" /\ UNCHANGED registry
               \/ pc' = "next" /\ Unref
  /\ UNCHANGED <<uri, threadVars, crashed>>

(* Mutant: the reference is kept. *)
ReturnKept ==
  /\ pc = "callback" /\ pc' = "next"
  /\ UNCHANGED <<uri, requestVars, threadVars, crashed>>

CallbackReturns ==
  /\ pc = "callback" /\ pc' = "next"
  /\ Unref
  /\ UNCHANGED <<uri, httpGetQueue, currentHttpGetReference, alreadyActive, passedOver,
                 threadVars, crashed>>

(* The head of the queue.  One without a string leaves its reference; a    *)
(* thread that cannot be made leaves no handle.                            *)
StartHead ==
  LET ref == Head(httpGetQueue)
      str == uri[registry[ref]]
  IN  /\ httpGetQueue' = Tail(httpGetQueue)
      /\ currentHttpGetReference' = ref
      /\ UNCHANGED <<registry, httpGetResult>>
      /\ \/ /\ str = NotString
            /\ passedOver' = passedOver \cup {ref}
            /\ UNCHANGED <<alreadyActive, thread, given, loose, failed>>
         \/ /\ str # NotString
            /\ alreadyActive' = TRUE
            /\ given' = str
            /\ thread' \in {"running", "none"}
            /\ loose' = FALSE /\ failed' = FALSE
            /\ UNCHANGED passedOver

(* Mutant: a request is started while another one is being served. *)
StartAnother ==
  /\ pc = "next" /\ pc' = "lua"
  /\ IF httpGetQueue # <<>> THEN StartHead ELSE UNCHANGED <<requestVars, threadVars>>
  /\ UNCHANGED <<uri, crashed>>

StartNext ==
  /\ pc = "next" /\ pc' = "lua"
  /\ IF httpGetQueue # <<>> /\ ~alreadyActive THEN StartHead
     ELSE UNCHANGED <<requestVars, threadVars>>
  /\ UNCHANGED <<uri, crashed>>

httpGetCallback == AnswerEnded \/ CallbackReturns \/ StartNext

httpGetThread == Fetch \/ Copied

HttpNext ==
  /\ ~crashed
  /\ \/ \E arg \in Tables \cup Uris \cup {NotTable} : httpGet(arg)
     \/ \E t \in Tables, u \in Uris \cup {NotString} : SetUri(t, u)
     \/ httpGetThread
     \/ httpGetCallback

HttpSpec == HttpInit /\ [][HttpNext]_httpVars

(* The screen is updated, functions return, and a fetch ends. *)
HttpFairSpec ==
  HttpSpec /\ WF_httpVars(~crashed /\ httpGetCallback) /\ WF_httpVars(~crashed /\ httpGetThread)

-----------------------------------------------------------------------------
InUse == alreadyActive \/ pc = "callback"

(***************************************************************************)
(* Every reference that is held is one of a request that waits, of the one *)
(* being served, or one left behind, and of only one of them: none is      *)
(* freed that is still needed, none is given out twice, and an answered    *)
(* request leaves none.                                                    *)
(***************************************************************************)
RefsAccounted ==
  LET current == IF InUse THEN {currentHttpGetReference} ELSE {}
  IN  /\ DOMAIN registry = ToSet(httpGetQueue) \cup current \cup passedOver
      /\ IsInjective(httpGetQueue)
      /\ ToSet(httpGetQueue) \cap (current \cup passedOver) = {}
      /\ current \cap passedOver = {}

(***************************************************************************)
(* A callback is called when the thread of its request is over, and with   *)
(* its page, unless the fetch has failed or the table was given another    *)
(* uri while its string was in use.                                        *)
(***************************************************************************)
OwnPage ==
  pc = "callback" =>
    thread = "ended" /\ (failed \/ loose \/ httpGetResult = given)

HttpInv == HttpTypeOK /\ RefsAccounted /\ OwnPage

(***************************************************************************)
(* Requests are served in the order they were made, one at a time.         *)
(***************************************************************************)
TablesOf(q, held) == [j \in DOMAIN q |-> held[q[j]]]

HR == INSTANCE HttpRequests WITH
  waiting   <- TablesOf(httpGetQueue, registry),
  fetching  <- IF alreadyActive THEN registry[currentHttpGetReference] ELSE NoTable,
  answering <- IF pc = "callback" THEN registry[currentHttpGetReference] ELSE NoTable

ImplementsHttpRequests == HR!HSpec

(***************************************************************************)
(* Every request is done with in the end, whatever its table has become,   *)
(* unless no thread could be made for it or one before it.                 *)
(***************************************************************************)
Stuck == crashed \/ (alreadyActive /\ thread = "none")

Open(ref) ==
  \/ ref \in ToSet(httpGetQueue)
  \/ InUse /\ currentHttpGetReference = ref

RequestServed == \A ref \in Refs : Open(ref) ~> ~Open(ref) \/ Stuck
=============================================================================
