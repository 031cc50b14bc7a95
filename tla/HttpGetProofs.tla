---------------------------- MODULE HttpGetProofs -----------------------------
(***************************************************************************)
(* Proofs about HttpGet for any number of tables, strings and references.  *)
(***************************************************************************)
EXTENDS HttpGet, SequenceTheorems, TLAPS

(* What an ended thread has left, and when a callback is called. *)
EndedHasPage == thread = "ended" => failed \/ loose \/ httpGetResult = given
CallbackInactive == pc = "callback" => ~alreadyActive

HttpIInv == HttpInv /\ EndedHasPage /\ CallbackInactive

-----------------------------------------------------------------------------
(* Queues of different elements. *)
LEMMA AppendFacts ==
  ASSUME NEW S, NEW q \in Seq(S), NEW x \in S
  PROVE  /\ Append(q, x) \in Seq(S)
         /\ ToSet(Append(q, x)) = ToSet(q) \cup {x}
         /\ IsInjective(q) /\ x \notin ToSet(q) => IsInjective(Append(q, x))
<1> DEFINE new == Append(q, x)
<1>1. /\ new \in Seq(S) /\ Len(new) = Len(q) + 1 /\ Len(q) \in Nat
      /\ \A j \in 1 .. Len(q) : new[j] = q[j]
      /\ new[Len(q) + 1] = x
  BY AppendProperties, LenProperties
<1>2. DOMAIN q = 1 .. Len(q) /\ DOMAIN new = 1 .. Len(q) + 1
  BY <1>1, LenProperties
<1> HIDE DEF new
<1>3. ToSet(q) = {q[j] : j \in 1 .. Len(q)} /\ ToSet(new) = {new[j] : j \in 1 .. Len(q) + 1}
  BY <1>2 DEF ToSet
<1>4. ToSet(new) = ToSet(q) \cup {x}
  <2>1. ASSUME NEW j \in 1 .. Len(q) + 1 PROVE new[j] \in ToSet(q) \cup {x}
    <3>1. CASE j = Len(q) + 1
      BY <1>1, <3>1
    <3>2. CASE j # Len(q) + 1
      BY <1>1, <1>3, <3>2
    <3> QED BY <3>1, <3>2
  <2>2. ASSUME NEW j \in 1 .. Len(q) PROVE q[j] \in ToSet(new)
    <3>1. q[j] = new[j] /\ j \in 1 .. Len(q) + 1
      BY <1>1
    <3> QED BY <1>3, <3>1
  <2>3. x \in ToSet(new)
    <3>1. x = new[Len(q) + 1] /\ Len(q) + 1 \in 1 .. Len(q) + 1
      BY <1>1
    <3> QED BY <1>3, <3>1
  <2> QED BY <1>3, <2>1, <2>2, <2>3
<1>5. ASSUME IsInjective(q), x \notin ToSet(q) PROVE IsInjective(new)
  <2> SUFFICES ASSUME NEW i \in 1 .. Len(q) + 1, NEW j \in 1 .. Len(q) + 1, new[i] = new[j]
               PROVE  i = j
    BY <1>2 DEF IsInjective
  <2>1. CASE i = Len(q) + 1 /\ j # Len(q) + 1
    <3>1. new[i] = x /\ new[j] = q[j] /\ q[j] \in ToSet(q)
      BY <1>1, <1>3, <2>1
    <3> QED BY <1>5, <3>1
  <2>2. CASE i # Len(q) + 1 /\ j = Len(q) + 1
    <3>1. new[j] = x /\ new[i] = q[i] /\ q[i] \in ToSet(q)
      BY <1>1, <1>3, <2>2
    <3> QED BY <1>5, <3>1
  <2>3. CASE i # Len(q) + 1 /\ j # Len(q) + 1
    <3>1. i \in 1 .. Len(q) /\ j \in 1 .. Len(q)
      BY <1>1, <2>3
    <3>2. q[i] = q[j]
      BY <1>1, <3>1
    <3> QED BY <1>2, <1>5, <3>1, <3>2 DEF IsInjective
  <2> QED BY <2>1, <2>2, <2>3
<1> QED BY <1>1, <1>4, <1>5 DEF new

LEMMA TailFacts ==
  ASSUME NEW S, NEW q \in Seq(S), q # <<>>
  PROVE  /\ Head(q) \in S /\ Head(q) \in ToSet(q) /\ Tail(q) \in Seq(S)
         /\ IsInjective(q) => IsInjective(Tail(q)) /\ ToSet(Tail(q)) = ToSet(q) \ {Head(q)}
<1> DEFINE new == Tail(q)
<1>1. /\ new \in Seq(S) /\ Len(q) \in Nat /\ Len(q) > 0 /\ Len(new) = Len(q) - 1
      /\ \A j \in 1 .. Len(q) - 1 : new[j] = q[j + 1]
      /\ Head(q) = q[1] /\ Head(q) \in S
  BY HeadTailProperties, LenProperties, EmptySeq
<1>2. DOMAIN q = 1 .. Len(q) /\ DOMAIN new = 1 .. Len(q) - 1
  BY <1>1, LenProperties
<1> HIDE DEF new
<1>3. ToSet(q) = {q[j] : j \in 1 .. Len(q)} /\ ToSet(new) = {new[j] : j \in 1 .. Len(q) - 1}
  BY <1>2 DEF ToSet
<1>4. Head(q) \in ToSet(q)
  BY <1>1, <1>3
<1>5. ASSUME IsInjective(q) PROVE IsInjective(new) /\ ToSet(new) = ToSet(q) \ {Head(q)}
  <2>1. \A i, j \in 1 .. Len(q) : q[i] = q[j] => i = j
    BY <1>2, <1>5 DEF IsInjective
  <2>2. IsInjective(new)
    <3> SUFFICES ASSUME NEW i \in 1 .. Len(q) - 1, NEW j \in 1 .. Len(q) - 1, new[i] = new[j]
                 PROVE  i = j
      BY <1>2 DEF IsInjective
    <3>1. q[i + 1] = q[j + 1] /\ i + 1 \in 1 .. Len(q) /\ j + 1 \in 1 .. Len(q)
      BY <1>1
    <3>2. i + 1 = j + 1
      BY <2>1, <3>1
    <3> QED BY <3>2
  <2>3. ASSUME NEW j \in 1 .. Len(q) - 1 PROVE new[j] \in ToSet(q) \ {Head(q)}
    <3>1. new[j] = q[j + 1] /\ j + 1 \in 1 .. Len(q) /\ 1 \in 1 .. Len(q) /\ j + 1 # 1
      BY <1>1
    <3>2. q[j + 1] # q[1]
      BY <2>1, <3>1
    <3> QED BY <1>1, <1>3, <3>1, <3>2
  <2>4. ASSUME NEW j \in 1 .. Len(q), q[j] # Head(q) PROVE q[j] \in ToSet(new)
    <3> DEFINE k == j - 1
    <3>1. k \in 1 .. Len(q) - 1 /\ k + 1 = j
      BY <1>1, <2>4
    <3> HIDE DEF k
    <3>2. new[k] = q[k + 1]
      BY <1>1, <3>1
    <3> QED BY <1>3, <3>1, <3>2
  <2> QED BY <1>3, <2>2, <2>3, <2>4
<1> QED BY <1>1, <1>4, <1>5 DEF new

-----------------------------------------------------------------------------
(* The references a request in service or left behind holds. *)
Current == IF InUse THEN {currentHttpGetReference} ELSE {}

LEMMA AccountedAs ==
  RefsAccounted <=>
    /\ DOMAIN registry = ToSet(httpGetQueue) \cup Current \cup passedOver
    /\ IsInjective(httpGetQueue)
    /\ ToSet(httpGetQueue) \cap (Current \cup passedOver) = {}
    /\ Current \cap passedOver = {}
BY DEF RefsAccounted, Current

(* What the assumption says of strings, tables and references. *)
LEMMA HttpFacts ==
  /\ NotString \notin Uris /\ Junk \notin Uris /\ NoTable \notin Tables
  /\ \A arg \in Tables : arg \notin Uris
BY HttpAssumption DEF HttpAssumption

(* A new request takes a reference nobody holds to the end of the queue. *)
LEMMA QueueKeeps ==
  ASSUME HttpTypeOK, RefsAccounted, NEW t \in Tables, Queue(t), UNCHANGED pc
  PROVE  /\ DOMAIN registry' \subseteq Refs /\ registry' \in [DOMAIN registry' -> Tables]
         /\ httpGetQueue' \in Seq(Refs)
         /\ RefsAccounted'
<1>1. PICK ref \in Refs \ DOMAIN registry :
        /\ registry' = [r \in DOMAIN registry \cup {ref} |-> IF r = ref THEN t ELSE registry[r]]
        /\ httpGetQueue' = Append(httpGetQueue, ref)
        /\ UNCHANGED <<currentHttpGetReference, alreadyActive, passedOver>>
  BY DEF Queue
<1>2. /\ httpGetQueue \in Seq(Refs) /\ IsInjective(httpGetQueue) /\ ref \notin ToSet(httpGetQueue)
      /\ DOMAIN registry = ToSet(httpGetQueue) \cup Current \cup passedOver
      /\ ToSet(httpGetQueue) \cap (Current \cup passedOver) = {}
      /\ Current \cap passedOver = {}
  BY <1>1, AccountedAs DEF HttpTypeOK
<1>3. /\ httpGetQueue' \in Seq(Refs) /\ IsInjective(httpGetQueue')
      /\ ToSet(httpGetQueue') = ToSet(httpGetQueue) \cup {ref}
  BY <1>1, <1>2, AppendFacts
<1>4. DOMAIN registry' = DOMAIN registry \cup {ref} /\ registry' \in [DOMAIN registry' -> Tables]
  BY <1>1 DEF HttpTypeOK
<1>5. Current' = Current /\ passedOver' = passedOver
  BY <1>1 DEF Current, InUse
<1>6. /\ DOMAIN registry' = ToSet(httpGetQueue') \cup Current' \cup passedOver'
      /\ ToSet(httpGetQueue') \cap (Current' \cup passedOver') = {}
      /\ Current' \cap passedOver' = {}
  BY <1>1, <1>2, <1>3, <1>4, <1>5
<1>7. RefsAccounted'
  BY <1>3, <1>6 DEF RefsAccounted, Current
<1> QED BY <1>1, <1>3, <1>4, <1>7 DEF HttpTypeOK

(* The head of the queue goes into service or is left behind. *)
LEMMA StartHeadKeeps ==
  ASSUME HttpTypeOK, RefsAccounted, pc = "next", pc' = "lua",
         httpGetQueue # <<>>, ~alreadyActive, StartHead
  PROVE  /\ httpGetQueue' \in Seq(Refs) /\ currentHttpGetReference' \in Refs
         /\ alreadyActive' \in BOOLEAN /\ passedOver' \in SUBSET Refs
         /\ registry' = registry
         /\ RefsAccounted'
<1> DEFINE ref == Head(httpGetQueue)
<1>1. /\ httpGetQueue \in Seq(Refs) /\ IsInjective(httpGetQueue) /\ Current = {}
      /\ DOMAIN registry = ToSet(httpGetQueue) \cup passedOver
      /\ ToSet(httpGetQueue) \cap passedOver = {}
      /\ passedOver \in SUBSET Refs
  BY AccountedAs DEF HttpTypeOK, Current, InUse
<1>2. /\ ref \in Refs /\ ref \in ToSet(httpGetQueue) /\ Tail(httpGetQueue) \in Seq(Refs)
      /\ IsInjective(Tail(httpGetQueue))
      /\ ToSet(Tail(httpGetQueue)) = ToSet(httpGetQueue) \ {ref}
  BY <1>1, TailFacts
<1> HIDE DEF ref
<1>3. /\ httpGetQueue' = Tail(httpGetQueue) /\ currentHttpGetReference' = ref
      /\ registry' = registry
      /\ \/ passedOver' = passedOver \cup {ref} /\ alreadyActive' = alreadyActive
         \/ passedOver' = passedOver /\ alreadyActive' = TRUE
  BY DEF StartHead, ref
<1>4. /\ DOMAIN registry' = ToSet(httpGetQueue') \cup Current' \cup passedOver'
      /\ ToSet(httpGetQueue') \cap (Current' \cup passedOver') = {}
      /\ Current' \cap passedOver' = {}
  <2>1. CASE passedOver' = passedOver \cup {ref} /\ alreadyActive' = alreadyActive
    <3>1. Current' = {}
      BY <2>1 DEF Current, InUse
    <3> QED BY <1>1, <1>2, <1>3, <2>1, <3>1
  <2>2. CASE passedOver' = passedOver /\ alreadyActive' = TRUE
    <3>1. Current' = {ref}
      BY <1>3, <2>2 DEF Current, InUse
    <3> QED BY <1>1, <1>2, <1>3, <2>2, <3>1
  <2> QED BY <1>3, <2>1, <2>2
<1>5. IsInjective(httpGetQueue')
  BY <1>2, <1>3
<1>6. RefsAccounted'
  BY <1>4, <1>5 DEF RefsAccounted, Current
<1> QED BY <1>1, <1>2, <1>3, <1>6 DEF HttpTypeOK

(* The reference of the request in service is freed. *)
LEMMA UnrefKeeps ==
  ASSUME HttpTypeOK, RefsAccounted, InUse, ~InUse', Unref,
         UNCHANGED <<httpGetQueue, passedOver>>
  PROVE  /\ DOMAIN registry' \subseteq Refs /\ registry' \in [DOMAIN registry' -> Tables]
         /\ RefsAccounted'
<1> DEFINE ref == currentHttpGetReference
<1>1. /\ IsInjective(httpGetQueue)
      /\ DOMAIN registry = ToSet(httpGetQueue) \cup {ref} \cup passedOver
      /\ ToSet(httpGetQueue) \cap ({ref} \cup passedOver) = {}
      /\ {ref} \cap passedOver = {}
  BY AccountedAs DEF Current
<1>2. DOMAIN registry' = DOMAIN registry \ {ref} /\ registry' \in [DOMAIN registry' -> Tables]
  BY DEF Unref, HttpTypeOK
<1>3. Current' = {}
  BY DEF Current
<1>4. /\ DOMAIN registry' = ToSet(httpGetQueue') \cup Current' \cup passedOver'
      /\ ToSet(httpGetQueue') \cap (Current' \cup passedOver') = {}
      /\ Current' \cap passedOver' = {} /\ IsInjective(httpGetQueue')
  BY <1>1, <1>2, <1>3
<1>5. RefsAccounted'
  BY <1>4 DEF RefsAccounted, Current
<1> QED BY <1>2, <1>5 DEF HttpTypeOK

-----------------------------------------------------------------------------
LEMMA InitKeeps == HttpInit => HttpIInv
<1> SUFFICES ASSUME HttpInit PROVE HttpIInv
  OBVIOUS
<1>1. DOMAIN registry = {} /\ registry \in [DOMAIN registry -> Tables]
  BY DEF HttpInit
<1>2. httpGetQueue \in Seq(Refs) /\ DOMAIN httpGetQueue = {} /\ ToSet(httpGetQueue) = {}
  BY DEF HttpInit, ToSet
<1>3. HttpTypeOK
  BY <1>1, <1>2 DEF HttpInit, HttpTypeOK
<1>4. IsInjective(httpGetQueue)
  BY <1>2 DEF IsInjective
<1>5. RefsAccounted
  BY <1>1, <1>2, <1>4 DEF HttpInit, RefsAccounted, InUse
<1>6. OwnPage /\ EndedHasPage /\ CallbackInactive
  BY DEF HttpInit, OwnPage, EndedHasPage, CallbackInactive
<1> QED BY <1>3, <1>5, <1>6 DEF HttpIInv, HttpInv

(* Lua code asks for a page. *)
LEMMA HttpGetKeeps ==
  ASSUME HttpIInv, NEW arg \in Tables \cup Uris \cup {NotTable}, httpGet(arg), UNCHANGED crashed
  PROVE  HttpIInv'
<1>1. HttpTypeOK /\ RefsAccounted
  BY DEF HttpIInv, HttpInv
<1>2. UNCHANGED <<threadVars, pc, crashed>>
  BY DEF httpGet
<1>3. PICK t \in Tables : Queue(t) /\ uri' \in {uri, [uri EXCEPT ![t] = arg]} /\
                         (uri' # uri => arg \in Uris)
  BY DEF httpGet
<1>4. uri' \in [Tables -> Uris \cup {NotString}]
  BY <1>1, <1>3 DEF HttpTypeOK
<1>5. /\ DOMAIN registry' \subseteq Refs /\ registry' \in [DOMAIN registry' -> Tables]
      /\ httpGetQueue' \in Seq(Refs)
      /\ RefsAccounted'
  BY <1>1, <1>2, <1>3, QueueKeeps
<1>6. UNCHANGED <<currentHttpGetReference, alreadyActive, passedOver>>
  BY <1>3 DEF Queue
<1>7. HttpTypeOK'
  BY <1>1, <1>2, <1>4, <1>5, <1>6 DEF HttpTypeOK, threadVars
<1>8. OwnPage' /\ EndedHasPage' /\ CallbackInactive'
  BY <1>2, <1>6
     DEF HttpIInv, HttpInv, OwnPage, EndedHasPage, CallbackInactive, threadVars
<1> QED BY <1>5, <1>7, <1>8 DEF HttpIInv, HttpInv

(* Lua code writes to a table it has, and the thread does its work. *)
LEMMA OtherKeeps ==
  ASSUME HttpIInv,
         \/ \E t \in Tables, u \in Uris \cup {NotString} : SetUri(t, u)
         \/ httpGetThread
  PROVE  HttpIInv'
<1>1. HttpTypeOK /\ RefsAccounted /\ OwnPage /\ EndedHasPage /\ CallbackInactive
  BY DEF HttpIInv, HttpInv
<1>2. /\ UNCHANGED <<requestVars, given, pc>>
      /\ uri' \in [Tables -> Uris \cup {NotString}]
  <2>1. CASE \E t \in Tables, u \in Uris \cup {NotString} : SetUri(t, u)
    BY <1>1, <2>1 DEF SetUri, HttpTypeOK
  <2>2. CASE httpGetThread
    BY <1>1, <2>2 DEF httpGetThread, Fetch, Copied, HttpTypeOK
  <2> QED BY <2>1, <2>2
<1>3. RefsAccounted'
  BY <1>1, <1>2 DEF RefsAccounted, InUse, requestVars
<1>4. /\ thread' \in {"none", "running", "copying", "ended"}
      /\ httpGetResult' \in Uris \cup {Junk}
      /\ crashed' \in BOOLEAN /\ loose' \in BOOLEAN /\ failed' \in BOOLEAN
  <2> USE <1>1 DEF HttpTypeOK
  <2>1. CASE \E t \in Tables, u \in Uris \cup {NotString} : SetUri(t, u)
    <3>1. loose' \in BOOLEAN
      BY <2>1, Zenon DEF SetUri
    <3> QED BY <2>1, <3>1 DEF SetUri
  <2>2. CASE Fetch
    <3>1. crashed' \in BOOLEAN
      BY <2>2 DEF Fetch
    <3> QED BY <2>2, <3>1 DEF Fetch
  <2>3. CASE Copied
    BY <2>3 DEF Copied
  <2> QED BY <2>1, <2>2, <2>3 DEF httpGetThread
<1>5. HttpTypeOK'
  BY <1>1, <1>2, <1>4 DEF HttpTypeOK, requestVars
<1>6. EndedHasPage'
  <2>1. CASE \E t \in Tables, u \in Uris \cup {NotString} : SetUri(t, u)
    <3>1. loose => loose'
      BY <2>1, Zenon DEF SetUri
    <3>2. UNCHANGED <<thread, given, httpGetResult, failed>>
      BY <2>1 DEF SetUri
    <3> QED BY <1>1, <3>1, <3>2 DEF EndedHasPage
  <2>2. CASE Fetch
    BY <2>2 DEF Fetch, EndedHasPage
  <2>3. CASE Copied
    BY <2>3 DEF Copied, EndedHasPage
  <2>4. CASE httpGetThread
    BY <2>2, <2>3, <2>4 DEF httpGetThread
  <2> QED BY <2>1, <2>4
<1>7. OwnPage' /\ CallbackInactive'
  BY <1>1, <1>2
     DEF SetUri, httpGetThread, Fetch, Copied, OwnPage, CallbackInactive, requestVars
<1> QED BY <1>3, <1>5, <1>6, <1>7 DEF HttpIInv, HttpInv

(* The answer is given when the thread has ended, its page in place. *)
LEMMA AnswerKeeps ==
  ASSUME HttpIInv, AnswerEnded
  PROVE  HttpIInv'
<1>1. /\ HttpTypeOK /\ RefsAccounted /\ EndedHasPage
      /\ pc = "lua" /\ UNCHANGED <<uri, threadVars, crashed>>
  BY DEF HttpIInv, HttpInv, AnswerEnded
<1>2. CASE ~(alreadyActive /\ thread = "ended")
  <2>1. pc' = "next" /\ UNCHANGED requestVars
    BY <1>2 DEF AnswerEnded
  <2> QED
    BY <1>1, <2>1 DEF HttpIInv, HttpInv, HttpTypeOK, RefsAccounted, InUse, OwnPage, EndedHasPage,
       CallbackInactive, requestVars, threadVars
<1>3. CASE alreadyActive /\ thread = "ended"
  <2>1. /\ alreadyActive' = FALSE
        /\ UNCHANGED <<httpGetQueue, currentHttpGetReference, passedOver>>
        /\ \/ pc' = "callback" /\ UNCHANGED registry
           \/ pc' = "next" /\ Unref
    BY <1>3 DEF AnswerEnded
  <2>2. CASE pc' = "callback" /\ UNCHANGED registry
    <3>1. InUse' = InUse
      BY <1>3, <2>2 DEF InUse
    <3>2. RefsAccounted'
      BY <1>1, <2>1, <2>2, <3>1 DEF RefsAccounted
    <3>3. HttpTypeOK' /\ OwnPage' /\ EndedHasPage' /\ CallbackInactive'
      BY <1>1, <1>3, <2>1, <2>2
         DEF HttpTypeOK, OwnPage, EndedHasPage, CallbackInactive, threadVars
    <3> QED BY <3>2, <3>3 DEF HttpIInv, HttpInv
  <2>3. CASE pc' = "next" /\ Unref
    <3>1. InUse /\ ~InUse'
      BY <1>3, <2>1, <2>3 DEF InUse
    <3>2. /\ DOMAIN registry' \subseteq Refs /\ registry' \in [DOMAIN registry' -> Tables]
          /\ RefsAccounted'
      BY <1>1, <2>1, <2>3, <3>1, UnrefKeeps
    <3>3. HttpTypeOK' /\ OwnPage' /\ EndedHasPage' /\ CallbackInactive'
      BY <1>1, <2>1, <2>3, <3>2
         DEF HttpTypeOK, OwnPage, EndedHasPage, CallbackInactive, threadVars
    <3> QED BY <3>2, <3>3 DEF HttpIInv, HttpInv
  <2> QED BY <2>1, <2>2, <2>3
<1> QED BY <1>2, <1>3

(* The callback returns. *)
LEMMA ReturnKeeps ==
  ASSUME HttpIInv, CallbackReturns
  PROVE  HttpIInv'
<1>1. /\ HttpTypeOK /\ RefsAccounted /\ EndedHasPage /\ CallbackInactive
      /\ pc = "callback" /\ pc' = "next" /\ Unref
      /\ UNCHANGED <<uri, httpGetQueue, currentHttpGetReference, alreadyActive, passedOver,
                     threadVars, crashed>>
  BY DEF HttpIInv, HttpInv, CallbackReturns
<1>2. InUse /\ ~InUse'
  BY <1>1 DEF InUse, CallbackInactive
<1>3. /\ DOMAIN registry' \subseteq Refs /\ registry' \in [DOMAIN registry' -> Tables]
      /\ RefsAccounted'
  BY <1>1, <1>2, UnrefKeeps
<1>4. HttpTypeOK' /\ OwnPage' /\ EndedHasPage' /\ CallbackInactive'
  BY <1>1, <1>3 DEF HttpTypeOK, OwnPage, EndedHasPage, CallbackInactive, threadVars
<1> QED BY <1>3, <1>4 DEF HttpIInv, HttpInv

(* The next request is started, if none is being served. *)
LEMMA StartKeeps ==
  ASSUME HttpIInv, StartNext
  PROVE  HttpIInv'
<1>1. /\ HttpTypeOK /\ RefsAccounted /\ EndedHasPage
      /\ pc = "next" /\ pc' = "lua" /\ UNCHANGED <<uri, crashed>>
  BY DEF HttpIInv, HttpInv, StartNext
<1>2. CASE httpGetQueue # <<>> /\ ~alreadyActive
  <2>1. StartHead
    BY <1>2 DEF StartNext
  <2>2. /\ httpGetQueue' \in Seq(Refs) /\ currentHttpGetReference' \in Refs
        /\ alreadyActive' \in BOOLEAN /\ passedOver' \in SUBSET Refs
        /\ registry' = registry
        /\ RefsAccounted'
    BY <1>1, <1>2, <2>1, StartHeadKeeps
  <2> DEFINE str == uri[registry[Head(httpGetQueue)]]
  <2>3. str \in Uris \cup {NotString}
    <3>1. Head(httpGetQueue) \in ToSet(httpGetQueue)
      BY <1>1, <1>2, TailFacts DEF HttpTypeOK
    <3>2. Head(httpGetQueue) \in DOMAIN registry
      BY <1>1, <3>1 DEF RefsAccounted
    <3> QED BY <1>1, <3>2 DEF HttpTypeOK
  <2> HIDE DEF str
  <2>4. /\ httpGetResult' = httpGetResult
        /\ \/ UNCHANGED <<thread, given, loose, failed>>
           \/ /\ str # NotString /\ given' = str /\ thread' \in {"running", "none"}
              /\ loose' = FALSE /\ failed' = FALSE
    BY <2>1 DEF StartHead, str
  <2>5. HttpTypeOK'
    BY <1>1, <2>2, <2>3, <2>4 DEF HttpTypeOK
  <2>6. OwnPage' /\ EndedHasPage' /\ CallbackInactive'
    BY <1>1, <2>4 DEF OwnPage, EndedHasPage, CallbackInactive
  <2> QED BY <2>2, <2>5, <2>6 DEF HttpIInv, HttpInv
<1>3. CASE ~(httpGetQueue # <<>> /\ ~alreadyActive)
  <2>1. UNCHANGED <<requestVars, threadVars>>
    BY <1>3 DEF StartNext
  <2> QED
    BY <1>1, <2>1 DEF HttpIInv, HttpInv, HttpTypeOK, RefsAccounted, InUse, OwnPage, EndedHasPage,
       CallbackInactive, requestVars, threadVars
<1> QED BY <1>2, <1>3

LEMMA StepKeeps == HttpIInv /\ [HttpNext]_httpVars => HttpIInv'
<1> SUFFICES ASSUME HttpIInv, [HttpNext]_httpVars PROVE HttpIInv'
  OBVIOUS
<1>1. ASSUME NEW arg \in Tables \cup Uris \cup {NotTable}, httpGet(arg) PROVE HttpIInv'
  <2>1. UNCHANGED crashed
    BY <1>1 DEF httpGet
  <2> QED BY <1>1, <2>1, HttpGetKeeps
<1>2. CASE \/ \E t \in Tables, u \in Uris \cup {NotString} : SetUri(t, u)
           \/ httpGetThread
  BY <1>2, OtherKeeps
<1>3. CASE httpGetCallback
  BY <1>3, AnswerKeeps, ReturnKeeps, StartKeeps DEF httpGetCallback
<1>4. CASE UNCHANGED httpVars
  BY <1>4 DEF httpVars, requestVars, threadVars, HttpIInv, HttpInv, HttpTypeOK, RefsAccounted,
     InUse, OwnPage, EndedHasPage, CallbackInactive
<1> QED BY <1>1, <1>2, <1>3, <1>4 DEF HttpNext

(***************************************************************************)
(* The invariants of the HTTP client hold together, with the two that make *)
(* them inductive (httpGet and httpGetCallback of webserver.cpp).          *)
(***************************************************************************)
THEOREM HttpInvariant == HttpSpec => []HttpIInv
BY InitKeeps, StepKeeps, PTL DEF HttpSpec

(* Every reference of httpGet is accounted for, whatever callbacks ask. *)
THEOREM AlwaysRefsAccounted == HttpSpec => []RefsAccounted
<1>1. HttpIInv => RefsAccounted
  BY DEF HttpIInv, HttpInv
<1> QED BY <1>1, HttpInvariant, PTL

(* A callback gets the page of its own request from httpGetResult. *)
THEOREM AlwaysOwnPage == HttpSpec => []OwnPage
<1>1. HttpIInv => OwnPage
  BY DEF HttpIInv, HttpInv
<1> QED BY <1>1, HttpInvariant, PTL

-----------------------------------------------------------------------------
(* The tables behind a queue of references. *)
LEMMA TablesOfType ==
  ASSUME NEW q \in Seq(Refs), NEW held,
         \A x \in ToSet(q) : held[x] \in Tables
  PROVE  /\ TablesOf(q, held) \in Seq(Tables) /\ Len(TablesOf(q, held)) = Len(q)
         /\ \A j \in 1 .. Len(q) : TablesOf(q, held)[j] = held[q[j]]
<1>1. DOMAIN q = 1 .. Len(q) /\ Len(q) \in Nat
  BY LenProperties
<1> DEFINE ts == TablesOf(q, held)
<1>2. ts = [j \in 1 .. Len(q) |-> held[q[j]]]
  BY <1>1 DEF TablesOf
<1>3. \A j \in 1 .. Len(q) : held[q[j]] \in Tables
  BY <1>1 DEF ToSet
<1>4. ts \in [1 .. Len(q) -> Tables]
  BY <1>2, <1>3
<1>5. ts \in Seq(Tables)
  BY <1>1, <1>4, SeqDef
<1>6. Len(ts) = Len(q)
  BY <1>1, <1>4, <1>5, LenProperties
<1> QED BY <1>2, <1>5, <1>6

(* The references of a queue lead to tables, and to the same ones later. *)
LeadTo(q, held, more) ==
  \A y \in ToSet(q) : held[y] \in Tables /\ more[y] = held[y]

(* A reference more is a table more. *)
LEMMA TablesOfAppend ==
  ASSUME NEW q \in Seq(Refs), NEW x \in Refs, NEW t \in Tables, NEW held, NEW more,
         LeadTo(q, held, more), more[x] = t
  PROVE  TablesOf(Append(q, x), more) = Append(TablesOf(q, held), t)
<1> DEFINE new == Append(q, x)
           ts  == TablesOf(q, held)
           us  == TablesOf(new, more)
           vs  == Append(ts, t)
<1>1. /\ new \in Seq(Refs) /\ Len(new) = Len(q) + 1 /\ Len(q) \in Nat
      /\ \A j \in 1 .. Len(q) : new[j] = q[j]
      /\ new[Len(q) + 1] = x
      /\ ToSet(new) = ToSet(q) \cup {x}
  BY AppendProperties, LenProperties, AppendFacts
<1>2. \A y \in ToSet(new) : more[y] \in Tables
  BY <1>1 DEF LeadTo
<1> USE DEF LeadTo
<1> HIDE DEF new
<1>3. /\ us \in Seq(Tables) /\ Len(us) = Len(q) + 1
      /\ \A j \in 1 .. Len(q) + 1 : us[j] = more[new[j]]
  BY <1>1, <1>2, TablesOfType
<1>4. /\ ts \in Seq(Tables) /\ Len(ts) = Len(q)
      /\ \A j \in 1 .. Len(q) : ts[j] = held[q[j]]
  BY TablesOfType
<1> HIDE DEF ts, us
<1>5. /\ vs \in Seq(Tables) /\ Len(vs) = Len(q) + 1
      /\ \A j \in 1 .. Len(q) : vs[j] = ts[j]
      /\ vs[Len(q) + 1] = t
  BY <1>4, AppendProperties
<1> HIDE DEF vs
<1>6. \A j \in 1 .. Len(q) : q[j] \in ToSet(q)
  BY LenProperties DEF ToSet
<1>7. ASSUME NEW j \in 1 .. Len(q) + 1 PROVE us[j] = vs[j]
  <2>1. CASE j = Len(q) + 1
    BY <1>1, <1>3, <1>5, <2>1
  <2>2. CASE j # Len(q) + 1
    <3>1. j \in 1 .. Len(q)
      BY <1>1, <2>2
    <3>2. us[j] = more[q[j]] /\ vs[j] = held[q[j]]
      BY <1>1, <1>3, <1>4, <1>5, <3>1
    <3> QED BY <1>6, <3>1, <3>2
  <2> QED BY <2>1, <2>2
<1>8. us = vs
  BY <1>3, <1>5, <1>7, SeqEqual
<1> QED BY <1>8 DEF us, vs, ts, new

(* One less at the head. *)
LEMMA TablesOfTail ==
  ASSUME NEW q \in Seq(Refs), q # <<>>, NEW held,
         \A y \in ToSet(q) : held[y] \in Tables
  PROVE  /\ TablesOf(q, held) # <<>>
         /\ Head(TablesOf(q, held)) = held[Head(q)]
         /\ TablesOf(Tail(q), held) = Tail(TablesOf(q, held))
<1> DEFINE new == Tail(q)
           ts  == TablesOf(q, held)
           us  == TablesOf(new, held)
           vs  == Tail(ts)
<1>1. /\ new \in Seq(Refs) /\ Len(q) \in Nat /\ Len(q) > 0 /\ Len(new) = Len(q) - 1
      /\ \A j \in 1 .. Len(q) - 1 : new[j] = q[j + 1]
      /\ Head(q) = q[1]
  BY HeadTailProperties, LenProperties, EmptySeq
<1>2. ToSet(new) \subseteq ToSet(q)
  <2>1. DOMAIN new = 1 .. Len(q) - 1 /\ DOMAIN q = 1 .. Len(q)
    BY <1>1, LenProperties
  <2> HIDE DEF new
  <2>2. ASSUME NEW j \in 1 .. Len(q) - 1 PROVE new[j] \in ToSet(q)
    <3>1. j + 1 \in 1 .. Len(q) /\ new[j] = q[j + 1]
      BY <1>1
    <3> QED BY <2>1, <3>1 DEF ToSet
  <2>3. ToSet(new) = {new[j] : j \in 1 .. Len(q) - 1}
    BY <2>1 DEF ToSet
  <2> QED BY <2>2, <2>3
<1> HIDE DEF new
<1>3. /\ us \in Seq(Tables) /\ Len(us) = Len(q) - 1
      /\ \A j \in 1 .. Len(q) - 1 : us[j] = held[new[j]]
  BY <1>1, <1>2, TablesOfType
<1>4. /\ ts \in Seq(Tables) /\ Len(ts) = Len(q)
      /\ \A j \in 1 .. Len(q) : ts[j] = held[q[j]]
  <2> HIDE DEF ts
  <2>1. \A x \in ToSet(q) : held[x] \in Tables
    OBVIOUS
  <2> QED BY <2>1, TablesOfType DEF ts
<1> HIDE DEF ts, us
<1>5. ts # <<>> /\ Head(ts) = ts[1]
  BY <1>1, <1>4, HeadTailProperties, EmptySeq
<1>6. /\ vs \in Seq(Tables) /\ Len(vs) = Len(q) - 1
      /\ \A j \in 1 .. Len(q) - 1 : vs[j] = ts[j + 1]
  BY <1>4, <1>5, HeadTailProperties
<1> HIDE DEF vs
<1>7. ASSUME NEW j \in 1 .. Len(q) - 1 PROVE us[j] = vs[j]
  <2>1. j + 1 \in 1 .. Len(q)
    BY <1>1
  <2> QED BY <1>1, <1>3, <1>4, <1>6, <2>1
<1>8. us = vs
  BY <1>1, <1>3, <1>6, <1>7, SeqEqual
<1>9. ts[1] = held[q[1]]
  BY <1>1, <1>4
<1> QED BY <1>1, <1>5, <1>8, <1>9 DEF us, vs, ts, new

(* A change of the registry that leaves the queue alone does not show. *)
LEMMA TablesOfSame ==
  ASSUME NEW q, NEW held, NEW less, \A y \in ToSet(q) : less[y] = held[y]
  PROVE  TablesOf(q, less) = TablesOf(q, held)
BY DEF TablesOf, ToSet

(* Where the registry has no reference to free it leads to the same tables. *)
LEMMA QueueHeld ==
  ASSUME HttpTypeOK, RefsAccounted
  PROVE  /\ httpGetQueue \in Seq(Refs)
         /\ \A y \in ToSet(httpGetQueue) : y \in DOMAIN registry /\ registry[y] \in Tables
         /\ InUse => /\ currentHttpGetReference \in DOMAIN registry
                     /\ registry[currentHttpGetReference] \in Tables
                     /\ currentHttpGetReference \notin ToSet(httpGetQueue)
BY AccountedAs DEF HttpTypeOK, Current

LEMMA HttpGetRefines ==
  ASSUME HttpIInv, NEW arg \in Tables \cup Uris \cup {NotTable}, httpGet(arg)
  PROVE  HR!HNext
<1>1. HttpTypeOK /\ RefsAccounted
  BY DEF HttpIInv, HttpInv
<1>2. PICK t \in Tables : Queue(t)
  BY DEF httpGet
<1>3. PICK ref \in Refs \ DOMAIN registry :
        /\ registry' = [r \in DOMAIN registry \cup {ref} |-> IF r = ref THEN t ELSE registry[r]]
        /\ httpGetQueue' = Append(httpGetQueue, ref)
        /\ UNCHANGED <<currentHttpGetReference, alreadyActive, passedOver>>
  BY <1>2 DEF Queue
<1>4. /\ \A r \in DOMAIN registry : registry'[r] = registry[r]
      /\ registry'[ref] = t
  BY <1>3
<1>5. TablesOf(httpGetQueue', registry') = Append(TablesOf(httpGetQueue, registry), t)
  <2> DEFINE q    == httpGetQueue
             more == registry'
  <2>1. /\ q \in Seq(Refs) /\ ref \in Refs
        /\ LeadTo(q, registry, more)
        /\ more[ref] = t
    BY <1>1, <1>4, QueueHeld DEF LeadTo
  <2> HIDE DEF q, more
  <2>3. TablesOf(Append(q, ref), more) = Append(TablesOf(q, registry), t)
    BY <2>1, TablesOfAppend
  <2> QED BY <1>3, <2>3 DEF q, more
<1>6. InUse => registry'[currentHttpGetReference'] = registry[currentHttpGetReference]
  BY <1>1, <1>3, <1>4, QueueHeld
<1>7. UNCHANGED <<alreadyActive, pc>>
  BY <1>3 DEF httpGet
<1>8. HR!Ask(t)
  BY <1>5, <1>6, <1>7 DEF HR!Ask, InUse
<1> QED BY <1>8 DEF HR!HNext

LEMMA OtherRefines ==
  ASSUME HttpIInv,
         \/ \E t \in Tables, u \in Uris \cup {NotString} : SetUri(t, u)
         \/ httpGetThread
  PROVE  UNCHANGED HR!hVars
<1>1. UNCHANGED <<requestVars, pc>>
  BY DEF SetUri, httpGetThread, Fetch, Copied
<1> QED BY <1>1 DEF requestVars, HR!hVars

(* Freeing the reference in service leaves the queue as it was. *)
LEMMA UnrefRefines ==
  ASSUME HttpTypeOK, RefsAccounted, InUse, Unref, UNCHANGED httpGetQueue
  PROVE  TablesOf(httpGetQueue, registry)' = TablesOf(httpGetQueue, registry)
<1> DEFINE less == registry'
<1>1. \A y \in ToSet(httpGetQueue) : less[y] = registry[y]
  BY QueueHeld DEF Unref
<1> HIDE DEF less
<1>2. TablesOf(httpGetQueue, less) = TablesOf(httpGetQueue, registry)
  BY <1>1, TablesOfSame
<1> QED BY <1>2 DEF less

LEMMA AnswerRefines ==
  ASSUME HttpIInv, AnswerEnded
  PROVE  HR!HNext \/ UNCHANGED HR!hVars
<1>1. HttpTypeOK /\ RefsAccounted /\ pc = "lua"
  BY DEF HttpIInv, HttpInv, AnswerEnded
<1>2. CASE ~(alreadyActive /\ thread = "ended")
  BY <1>1, <1>2 DEF AnswerEnded, requestVars, HR!hVars
<1>3. CASE alreadyActive /\ thread = "ended"
  <2>1. /\ alreadyActive' = FALSE
        /\ UNCHANGED <<httpGetQueue, currentHttpGetReference, passedOver>>
        /\ \/ pc' = "callback" /\ UNCHANGED registry
           \/ pc' = "next" /\ Unref
    BY <1>3 DEF AnswerEnded
  <2>2. InUse /\ registry[currentHttpGetReference] # NoTable
    BY <1>1, <1>3, QueueHeld, HttpFacts DEF InUse
  <2>3. TablesOf(httpGetQueue, registry)' = TablesOf(httpGetQueue, registry)
    BY <1>1, <2>1, <2>2, UnrefRefines
  <2>4. HR!Answer
    BY <1>1, <1>3, <2>1, <2>2, <2>3 DEF HR!Answer
  <2> QED BY <2>4 DEF HR!HNext
<1> QED BY <1>2, <1>3

LEMMA ReturnRefines ==
  ASSUME HttpIInv, CallbackReturns
  PROVE  HR!HNext
<1>1. /\ HttpTypeOK /\ RefsAccounted /\ ~alreadyActive
      /\ pc = "callback" /\ pc' = "next" /\ Unref
      /\ UNCHANGED <<httpGetQueue, alreadyActive>>
  BY DEF HttpIInv, HttpInv, CallbackInactive, CallbackReturns
<1>2. InUse /\ registry[currentHttpGetReference] # NoTable
  BY <1>1, QueueHeld, HttpFacts DEF InUse
<1>3. TablesOf(httpGetQueue, registry)' = TablesOf(httpGetQueue, registry)
  BY <1>1, <1>2, UnrefRefines
<1>4. HR!Return
  BY <1>1, <1>2, <1>3 DEF HR!Return
<1> QED BY <1>4 DEF HR!HNext

LEMMA StartRefines ==
  ASSUME HttpIInv, StartNext
  PROVE  HR!HNext \/ UNCHANGED HR!hVars
<1>1. HttpTypeOK /\ RefsAccounted /\ pc = "next" /\ pc' = "lua"
  BY DEF HttpIInv, HttpInv, StartNext
<1>2. CASE httpGetQueue # <<>> /\ ~alreadyActive
  <2> DEFINE q   == httpGetQueue
             ref == Head(httpGetQueue)
  <2>1. /\ httpGetQueue' = Tail(q) /\ currentHttpGetReference' = ref /\ registry' = registry
        /\ alreadyActive' \in {alreadyActive, TRUE}
    BY <1>2 DEF StartNext, StartHead
  <2>2. /\ TablesOf(q, registry) # <<>>
        /\ Head(TablesOf(q, registry)) = registry[ref]
        /\ TablesOf(Tail(q), registry) = Tail(TablesOf(q, registry))
    <3>1. q \in Seq(Refs) /\ \A y \in ToSet(q) : registry[y] \in Tables
      BY <1>1, QueueHeld
    <3> QED BY <1>2, <3>1, TablesOfTail
  <2>3. TablesOf(httpGetQueue, registry)' = Tail(TablesOf(q, registry))
    BY <2>1, <2>2
  <2>4. CASE alreadyActive'
    <3>1. HR!Take
      BY <1>1, <1>2, <2>1, <2>2, <2>3, <2>4 DEF HR!Take
    <3> QED BY <3>1 DEF HR!HNext
  <2>5. CASE ~alreadyActive'
    <3>1. HR!PassOver
      BY <1>1, <1>2, <2>1, <2>2, <2>3, <2>5 DEF HR!PassOver
    <3> QED BY <3>1 DEF HR!HNext
  <2> QED BY <2>4, <2>5
<1>3. CASE ~(httpGetQueue # <<>> /\ ~alreadyActive)
  BY <1>1, <1>3 DEF StartNext, requestVars, HR!hVars
<1> QED BY <1>2, <1>3

(***************************************************************************)
(* The queue of references, with the flag and the thread, serves the       *)
(* tables Lua code has given to httpGet one at a time and in order.        *)
(***************************************************************************)
THEOREM QueueImplementsRequests == HttpSpec => ImplementsHttpRequests
<1>1. HttpInit => HR!HInit
  BY DEF HttpInit, HR!HInit, TablesOf
<1>2. HttpIInv /\ [HttpNext]_httpVars => [HR!HNext]_HR!hVars
  <2> SUFFICES ASSUME HttpIInv, [HttpNext]_httpVars
               PROVE  HR!HNext \/ UNCHANGED HR!hVars
    OBVIOUS
  <2>1. ASSUME NEW arg \in Tables \cup Uris \cup {NotTable}, httpGet(arg) PROVE HR!HNext
    BY <2>1, HttpGetRefines
  <2>2. CASE \/ \E t \in Tables, u \in Uris \cup {NotString} : SetUri(t, u)
             \/ httpGetThread
    BY <2>2, OtherRefines
  <2>3. CASE httpGetCallback
    BY <2>3, AnswerRefines, ReturnRefines, StartRefines DEF httpGetCallback
  <2>4. CASE UNCHANGED httpVars
    BY <2>4 DEF httpVars, requestVars, HR!hVars
  <2> QED BY <2>1, <2>2, <2>3, <2>4 DEF HttpNext
<1> QED
  BY <1>1, <1>2, HttpInvariant, PTL DEF HttpSpec, ImplementsHttpRequests, HR!HSpec

-----------------------------------------------------------------------------
(***************************************************************************)
(* How far a request is from its end: its place in the queue, 0 for the    *)
(* one being served, and where the thread and the main thread are.         *)
(***************************************************************************)
At(q, ref) == CHOOSE n \in 1 .. Len(q) : q[n] = ref

Place(ref) ==
  IF InUse /\ currentHttpGetReference = ref THEN 0 ELSE At(httpGetQueue, ref)

Phase ==
  IF alreadyActive
    THEN IF thread = "running" THEN 7 ELSE IF thread = "copying" THEN 6
         ELSE IF pc = "next" THEN 5 ELSE 4
    ELSE IF pc = "next" THEN 2 ELSE 3

Distance(ref) == 8 * Place(ref) + Phase

Fetching == thread \in {"running", "copying"}

(* A thread that runs runs for the request being served. *)
FetchIsActive == Fetching => alreadyActive

(* What threads do brings every open request nearer to its end, so does    *)
(* httpGetCallback unless a fetch is under way, and nothing puts it back.  *)
PageGetsNearer ==
  \A ref \in Refs : Open(ref) /\ Open(ref)' /\ ~Stuck /\ ~Stuck' =>
    /\ Distance(ref)' <= Distance(ref)
    /\ httpGetThread \/ (httpGetCallback /\ ~Fetching) => Distance(ref)' < Distance(ref)

LEMMA FetchKeeps == FetchIsActive /\ [HttpNext]_httpVars => FetchIsActive'
<1> SUFFICES ASSUME FetchIsActive, [HttpNext]_httpVars PROVE FetchIsActive'
  OBVIOUS
<1> USE DEF FetchIsActive, Fetching
<1>1. ASSUME NEW arg \in Tables \cup Uris \cup {NotTable}, httpGet(arg) PROVE FetchIsActive'
  <2>1. /\ \E t \in Tables : Queue(t)
        /\ thread' = thread
    BY <1>1 DEF httpGet, threadVars
  <2>2. alreadyActive' = alreadyActive
    BY <2>1 DEF Queue
  <2> QED BY <2>1, <2>2
<1>2. ASSUME NEW t \in Tables, NEW u \in Uris \cup {NotString}, SetUri(t, u)
      PROVE  FetchIsActive'
  BY <1>2 DEF SetUri, requestVars
<1>3. CASE httpGetThread
  BY <1>3 DEF httpGetThread, Fetch, Copied, requestVars
<1>4. CASE AnswerEnded
  BY <1>4 DEF AnswerEnded, requestVars, threadVars
<1>5. CASE CallbackReturns
  BY <1>5 DEF CallbackReturns, threadVars
<1>6. CASE StartNext
  BY <1>6 DEF StartNext, StartHead, requestVars, threadVars
<1>7. CASE UNCHANGED httpVars
  BY <1>7 DEF httpVars, requestVars, threadVars
<1> QED BY <1>1, <1>2, <1>3, <1>4, <1>5, <1>6, <1>7 DEF HttpNext, httpGetCallback

LEMMA AtIsPlace ==
  ASSUME NEW q \in Seq(Refs), NEW ref \in ToSet(q)
  PROVE  At(q, ref) \in 1 .. Len(q) /\ q[At(q, ref)] = ref
<1>1. \E n \in 1 .. Len(q) : q[n] = ref
  BY LenProperties DEF ToSet
<1> QED BY <1>1 DEF At

LEMMA AtUnique ==
  ASSUME NEW q \in Seq(Refs), IsInjective(q), NEW ref \in ToSet(q),
         NEW n \in 1 .. Len(q), q[n] = ref
  PROVE  At(q, ref) = n
<1>1. At(q, ref) \in 1 .. Len(q) /\ q[At(q, ref)] = ref
  BY AtIsPlace
<1>2. DOMAIN q = 1 .. Len(q)
  BY LenProperties
<1> QED BY <1>1, <1>2 DEF IsInjective

(* Whoever waits moves up when the head leaves, *)
LEMMA AtTail ==
  ASSUME NEW q \in Seq(Refs), q # <<>>, IsInjective(q), NEW ref \in ToSet(q), ref # Head(q)
  PROVE  At(Tail(q), ref) = At(q, ref) - 1
<1> DEFINE new == Tail(q)
<1>1. /\ new \in Seq(Refs) /\ Len(q) \in Nat /\ Len(new) = Len(q) - 1
      /\ \A j \in 1 .. Len(q) - 1 : new[j] = q[j + 1]
      /\ Head(q) = q[1]
  BY HeadTailProperties, LenProperties
<1>2. IsInjective(new) /\ ref \in ToSet(new)
  BY TailFacts
<1> HIDE DEF new
<1>3. PICK n \in 1 .. Len(q) : n = At(q, ref) /\ q[n] = ref
  BY AtIsPlace
<1>4. n # 1
  BY <1>1, <1>3
<1>5. n - 1 \in 1 .. Len(new) /\ new[n - 1] = ref
  <2>1. n - 1 \in 1 .. Len(q) - 1 /\ (n - 1) + 1 = n
    BY <1>1, <1>3, <1>4
  <2> QED BY <1>1, <1>3, <2>1
<1>6. At(new, ref) = n - 1
  BY <1>1, <1>2, <1>5, AtUnique
<1> QED BY <1>3, <1>6 DEF new

(* and stays where it is when somebody joins the queue. *)
LEMMA AtAppend ==
  ASSUME NEW q \in Seq(Refs), NEW x \in Refs, IsInjective(Append(q, x)), NEW ref \in ToSet(q)
  PROVE  At(Append(q, x), ref) = At(q, ref)
<1> DEFINE new == Append(q, x)
<1>1. /\ new \in Seq(Refs) /\ Len(q) \in Nat /\ Len(new) = Len(q) + 1
      /\ \A j \in 1 .. Len(q) : new[j] = q[j]
      /\ ToSet(new) = ToSet(q) \cup {x}
  BY AppendProperties, LenProperties, AppendFacts
<1>2. IsInjective(new)
  OBVIOUS
<1> HIDE DEF new
<1>3. PICK n \in 1 .. Len(q) : n = At(q, ref) /\ q[n] = ref
  BY AtIsPlace
<1>4. n \in 1 .. Len(new) /\ new[n] = ref /\ ref \in ToSet(new)
  BY <1>1, <1>3
<1>5. At(new, ref) = n
  BY <1>1, <1>2, <1>4, AtUnique
<1> QED BY <1>3, <1>5 DEF new

(* What an open request is: the one being served, or one in the queue. *)
LEMMA OpenPlace ==
  ASSUME HttpIInv, NEW ref \in Refs, Open(ref)
  PROVE  /\ Place(ref) \in Nat /\ Phase \in 2 .. 7
         /\ InUse /\ currentHttpGetReference = ref => Place(ref) = 0 /\ ref \notin ToSet(httpGetQueue)
         /\ ~(InUse /\ currentHttpGetReference = ref) =>
              ref \in ToSet(httpGetQueue) /\ Place(ref) = At(httpGetQueue, ref) /\ Place(ref) >= 1
<1>1. httpGetQueue \in Seq(Refs) /\ Len(httpGetQueue) \in Nat
  BY LenProperties DEF HttpIInv, HttpInv, HttpTypeOK
<1>2. Phase \in 2 .. 7
  BY DEF Phase
<1>3. CASE InUse /\ currentHttpGetReference = ref
  <2>1. ref \notin ToSet(httpGetQueue)
    BY <1>3, AccountedAs DEF HttpIInv, HttpInv, Current
  <2> QED BY <1>2, <1>3, <2>1 DEF Place
<1>4. CASE ~(InUse /\ currentHttpGetReference = ref)
  <2>1. ref \in ToSet(httpGetQueue)
    BY <1>4 DEF Open
  <2>2. At(httpGetQueue, ref) \in 1 .. Len(httpGetQueue)
    BY <1>1, <2>1, AtIsPlace
  <2> QED BY <1>1, <1>2, <1>4, <2>1, <2>2 DEF Place
<1> QED BY <1>3, <1>4

(* The distance of a request is counted in natural numbers: it can be      *)
(* shortened so many times only.                                           *)
PagesCounted == \A ref \in Refs : Open(ref) => Distance(ref) \in Nat

LEMMA DistanceCounted == HttpIInv => PagesCounted
<1> SUFFICES ASSUME HttpIInv, NEW ref \in Refs, Open(ref) PROVE Distance(ref) \in Nat
  BY DEF PagesCounted
<1> QED BY OpenPlace DEF Distance

(* Distances are compared by place and phase. *)
LEMMA NearerBy ==
  ASSUME HttpIInv, HttpIInv', NEW ref \in Refs, Open(ref), Open(ref)'
  PROVE  /\ Place(ref)' = Place(ref) /\ Phase' = Phase => Distance(ref)' <= Distance(ref)
         /\ Place(ref)' = Place(ref) /\ Phase' < Phase => Distance(ref)' < Distance(ref)
         /\ Place(ref)' = Place(ref) - 1 /\ Phase' <= Phase + 6 => Distance(ref)' < Distance(ref)
         /\ Distance(ref)' < Distance(ref) => Distance(ref)' <= Distance(ref)
<1>1. Place(ref) \in Nat /\ Phase \in 2 .. 7
  BY OpenPlace
<1>2. Place(ref)' \in Nat /\ Phase' \in 2 .. 7
  <2>1. Phase' \in 2 .. 7
    BY DEF Phase
  <2>2. Place(ref)' \in Nat
    <3>1. httpGetQueue' \in Seq(Refs) /\ Len(httpGetQueue') \in Nat
      BY LenProperties DEF HttpIInv, HttpInv, HttpTypeOK
    <3>2. CASE ref \in ToSet(httpGetQueue')
      <4>1. At(httpGetQueue', ref) \in Nat
        BY <3>1, <3>2, AtIsPlace
      <4> QED BY <4>1 DEF Place
    <3>3. CASE ref \notin ToSet(httpGetQueue')
      BY <3>3 DEF Open, Place
    <3> QED BY <3>2, <3>3
  <2> QED BY <2>1, <2>2
<1>3. /\ Distance(ref) = 8 * Place(ref) + Phase
      /\ Distance(ref)' = 8 * Place(ref)' + Phase'
  BY DEF Distance
<1> QED BY <1>1, <1>2, <1>3

(* A step that leaves the queue and what is being served alone. *)
LEMMA PlaceFrame ==
  ASSUME NEW ref \in Refs, UNCHANGED <<httpGetQueue, currentHttpGetReference>>, InUse' = InUse
  PROVE  Place(ref)' = Place(ref)
BY DEF Place

(* Lua code asks for a page, behind those who wait. *)
LEMMA AskDistance ==
  ASSUME HttpIInv, HttpIInv', NEW ref \in Refs, Open(ref), Open(ref)',
         NEW arg \in Tables \cup Uris \cup {NotTable}, httpGet(arg)
  PROVE  Distance(ref)' <= Distance(ref)
<1>1. PICK t \in Tables : Queue(t)
  BY DEF httpGet
<1>2. PICK x \in Refs : httpGetQueue' = Append(httpGetQueue, x)
  BY <1>1 DEF Queue
<1>3. UNCHANGED <<currentHttpGetReference, alreadyActive, thread, pc>>
  BY <1>1 DEF Queue, httpGet, threadVars
<1>4. Phase' = Phase /\ InUse' = InUse
  BY <1>3 DEF Phase, InUse
<1>5. CASE InUse /\ currentHttpGetReference = ref
  <2>1. Place(ref)' = Place(ref)
    BY <1>3, <1>4, <1>5 DEF Place
  <2> QED BY <1>4, <2>1, NearerBy
<1>6. CASE ~(InUse /\ currentHttpGetReference = ref)
  <2>1. ref \in ToSet(httpGetQueue) /\ httpGetQueue \in Seq(Refs)
    BY <1>6, OpenPlace DEF HttpIInv, HttpInv, HttpTypeOK
  <2>2. IsInjective(Append(httpGetQueue, x))
    BY <1>2 DEF HttpIInv, HttpInv, RefsAccounted
  <2>3. At(httpGetQueue', ref) = At(httpGetQueue, ref)
    BY <1>2, <2>1, <2>2, AtAppend
  <2>4. Place(ref)' = Place(ref)
    BY <1>3, <1>4, <1>6, <2>3 DEF Place
  <2> QED BY <1>4, <2>4, NearerBy
<1> QED BY <1>5, <1>6

LEMMA ThreadDistance ==
  ASSUME HttpIInv, HttpIInv', FetchIsActive, NEW ref \in Refs, Open(ref), Open(ref)', httpGetThread
  PROVE  Distance(ref)' < Distance(ref)
<1>1. UNCHANGED <<httpGetQueue, currentHttpGetReference, alreadyActive, pc>>
  BY DEF httpGetThread, Fetch, Copied, requestVars
<1>2. Place(ref)' = Place(ref)
  BY <1>1, PlaceFrame DEF InUse
<1>3. Phase' < Phase
  <2>1. \/ thread = "running" /\ thread' = "copying"
        \/ thread = "copying" /\ thread' = "ended"
    BY DEF httpGetThread, Fetch, Copied
  <2>2. alreadyActive /\ alreadyActive'
    BY <1>1, <2>1 DEF FetchIsActive, Fetching
  <2> QED BY <2>1, <2>2 DEF Phase
<1> QED BY <1>2, <1>3, NearerBy

(* The answer, and polling for it. *)
LEMMA AnswerDistance ==
  ASSUME HttpIInv, HttpIInv', FetchIsActive, NEW ref \in Refs, Open(ref), Open(ref)',
         ~Stuck, AnswerEnded
  PROVE  /\ Distance(ref)' <= Distance(ref)
         /\ ~Fetching => Distance(ref)' < Distance(ref)
<1>1. /\ pc = "lua" /\ UNCHANGED <<httpGetQueue, currentHttpGetReference, thread>>
      /\ thread \in {"none", "running", "copying", "ended"}
  BY DEF AnswerEnded, requestVars, threadVars, HttpIInv, HttpInv, HttpTypeOK
<1>2. CASE ~(alreadyActive /\ thread = "ended")
  <2>1. pc' = "next" /\ alreadyActive' = alreadyActive
    BY <1>2 DEF AnswerEnded, requestVars
  <2>2. Place(ref)' = Place(ref)
    BY <1>1, <2>1, PlaceFrame DEF InUse
  <2>3. IF Fetching THEN Phase' = Phase ELSE Phase' < Phase
    BY <1>1, <1>2, <2>1 DEF Stuck, Phase, Fetching, FetchIsActive
  <2> QED BY <2>2, <2>3, NearerBy
<1>3. CASE alreadyActive /\ thread = "ended"
  <2>1. alreadyActive' = FALSE /\ pc' \in {"callback", "next"}
    BY <1>3 DEF AnswerEnded
  <2>2. Phase' < Phase
    BY <1>1, <1>3, <2>1 DEF Phase
  <2>3. Place(ref)' = Place(ref)
    <3>1. CASE pc' = "callback"
      BY <1>1, <1>3, <3>1, PlaceFrame DEF InUse
    <3>2. CASE pc' = "next"
      <4>1. InUse /\ ~InUse'
        BY <1>3, <2>1, <3>2 DEF InUse
      <4>2. ref \in ToSet(httpGetQueue)
        BY <1>1, <4>1 DEF Open
      <4>3. currentHttpGetReference # ref
        BY <4>1, <4>2, OpenPlace
      <4> QED BY <1>1, <4>1, <4>3 DEF Place
    <3> QED BY <2>1, <3>1, <3>2
  <2> QED BY <2>2, <2>3, NearerBy
<1> QED BY <1>2, <1>3

LEMMA ReturnDistance ==
  ASSUME HttpIInv, HttpIInv', NEW ref \in Refs, Open(ref), Open(ref)', CallbackReturns
  PROVE  Distance(ref)' < Distance(ref)
<1>1. /\ pc = "callback" /\ pc' = "next"
      /\ UNCHANGED <<httpGetQueue, currentHttpGetReference, alreadyActive>>
      /\ ~alreadyActive
  BY DEF CallbackReturns, HttpIInv, CallbackInactive
<1>2. InUse /\ ~InUse'
  BY <1>1 DEF InUse
<1>3. ref \in ToSet(httpGetQueue)
  BY <1>1, <1>2 DEF Open
<1>4. currentHttpGetReference # ref
  BY <1>2, <1>3, OpenPlace
<1>5. Place(ref)' = Place(ref)
  BY <1>1, <1>2, <1>4 DEF Place
<1>6. Phase = 3 /\ Phase' = 2
  BY <1>1 DEF Phase
<1> QED BY <1>5, <1>6, NearerBy

(* The head of the queue is taken, or the main thread goes back to Lua. *)
LEMMA StartDistance ==
  ASSUME HttpIInv, HttpIInv', FetchIsActive, NEW ref \in Refs, Open(ref), Open(ref)',
         ~Stuck, ~Stuck', StartNext
  PROVE  /\ Distance(ref)' <= Distance(ref)
         /\ ~Fetching => Distance(ref)' < Distance(ref)
<1>1. pc = "next" /\ pc' = "lua" /\ thread \in {"none", "running", "copying", "ended"}
  BY DEF StartNext, HttpIInv, HttpInv, HttpTypeOK
<1>2. CASE alreadyActive
  <2>1. UNCHANGED <<httpGetQueue, currentHttpGetReference, alreadyActive, thread>>
    BY <1>2 DEF StartNext, requestVars, threadVars
  <2>2. Place(ref)' = Place(ref)
    BY <1>1, <2>1, PlaceFrame DEF InUse
  <2>3. IF Fetching THEN Phase' = Phase ELSE Phase' < Phase
    BY <1>1, <1>2, <2>1 DEF Stuck, Phase, Fetching
  <2> QED BY <2>2, <2>3, NearerBy
<1>3. CASE ~alreadyActive
  <2>1. ~InUse /\ Phase = 2
    BY <1>1, <1>3 DEF InUse, Phase
  <2>2. /\ httpGetQueue \in Seq(Refs) /\ IsInjective(httpGetQueue)
        /\ ref \in ToSet(httpGetQueue) /\ Place(ref) = At(httpGetQueue, ref)
    BY <2>1, OpenPlace DEF HttpIInv, HttpInv, HttpTypeOK, RefsAccounted
  <2>3. httpGetQueue # <<>>
    BY <2>2 DEF ToSet
  <2>4. /\ httpGetQueue' = Tail(httpGetQueue)
        /\ currentHttpGetReference' = Head(httpGetQueue)
    BY <1>3, <2>3 DEF StartNext, StartHead
  <2>5. Phase' \in 2 .. 7
    BY DEF Phase
  <2>6. Place(ref)' = Place(ref) - 1
    <3>1. CASE ref = Head(httpGetQueue)
      <4>1. ref \notin ToSet(httpGetQueue')
        BY <2>2, <2>3, <2>4, <3>1, TailFacts
      <4>2. Place(ref)' = 0
        BY <4>1 DEF Open, Place
      <4>3. 1 \in 1 .. Len(httpGetQueue) /\ httpGetQueue[1] = ref
        BY <2>2, <2>3, <3>1, HeadTailProperties, EmptySeq, LenProperties
      <4>4. At(httpGetQueue, ref) = 1
        BY <2>2, <4>3, AtUnique
      <4> QED BY <2>2, <4>2, <4>4
    <3>2. CASE ref # Head(httpGetQueue)
      <4>1. At(httpGetQueue', ref) = At(httpGetQueue, ref) - 1
        BY <2>2, <2>3, <2>4, <3>2, AtTail
      <4>2. Place(ref)' = At(httpGetQueue', ref)
        BY <2>4, <3>2 DEF Place
      <4> QED BY <2>2, <4>1, <4>2
    <3> QED BY <3>1, <3>2
  <2>7. Phase' <= Phase + 6
    BY <2>1, <2>5
  <2>8. Distance(ref)' < Distance(ref)
    BY <2>6, <2>7, NearerBy
  <2> QED BY <2>8, NearerBy
<1> QED BY <1>2, <1>3

LEMMA PagesNearer ==
  HttpIInv /\ HttpIInv' /\ FetchIsActive /\ [HttpNext]_httpVars => [PageGetsNearer]_httpVars
<1> SUFFICES ASSUME HttpIInv, HttpIInv', FetchIsActive, HttpNext,
                    NEW ref \in Refs, Open(ref), Open(ref)', ~Stuck, ~Stuck'
             PROVE  /\ Distance(ref)' <= Distance(ref)
                    /\ httpGetThread \/ (httpGetCallback /\ ~Fetching)
                          => Distance(ref)' < Distance(ref)
  BY DEF PageGetsNearer
<1>1. /\ httpGetThread => Distance(ref)' < Distance(ref)
      /\ httpGetCallback => Distance(ref)' <= Distance(ref)
      /\ httpGetCallback /\ ~Fetching => Distance(ref)' < Distance(ref)
  BY ThreadDistance, AnswerDistance, ReturnDistance, StartDistance, NearerBy DEF httpGetCallback
<1>2. ASSUME NEW arg \in Tables \cup Uris \cup {NotTable}, httpGet(arg)
      PROVE  Distance(ref)' <= Distance(ref)
  BY <1>2, AskDistance
<1>3. ASSUME NEW t \in Tables, NEW u \in Uris \cup {NotString}, SetUri(t, u)
      PROVE  Distance(ref)' <= Distance(ref)
  <2>1. UNCHANGED <<httpGetQueue, currentHttpGetReference, alreadyActive, thread, pc>>
    BY <1>3 DEF SetUri, requestVars
  <2>2. Place(ref)' = Place(ref) /\ Phase' = Phase
    BY <2>1, PlaceFrame DEF InUse, Phase
  <2> QED BY <2>2, NearerBy
<1>4. Distance(ref)' < Distance(ref) => Distance(ref)' <= Distance(ref)
  BY NearerBy
<1> QED BY <1>1, <1>2, <1>3, <1>4 DEF HttpNext

(***************************************************************************)
(* What RequestServed rests on, for any number of requests: each step of   *)
(* the thread brings every open one nearer to its end, of which it is      *)
(* finitely many steps away; httpGetCallback does so whenever no fetch is  *)
(* under way, also past a table that has lost its uri; and no page that    *)
(* Lua code asks for, from a callback or not, puts one back.               *)
(***************************************************************************)
THEOREM RequestsProgress == HttpSpec => []PagesCounted /\ [][PageGetsNearer]_httpVars
<1>1. HttpInit => FetchIsActive
  BY DEF HttpInit, FetchIsActive, Fetching
<1> QED BY <1>1, HttpInvariant, DistanceCounted, FetchKeeps, PagesNearer, PTL DEF HttpSpec

=============================================================================
