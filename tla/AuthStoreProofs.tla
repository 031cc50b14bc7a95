--------------------------- MODULE AuthStoreProofs ---------------------------
(***************************************************************************)
(* Proofs about AuthStore for every set of logins, passwords and keys, and *)
(* every LoginHash, colliding or not.                                      *)
(***************************************************************************)
EXTENDS AuthStore, WellFoundedInduction, TLAPS

(* What the assumption says of one login, one password and the first key. *)
LEMMA HashFacts ==
  /\ \A login \in Logins : LoginHash[login] \in Keys
  /\ \A pass \in Passwords : PassHash[pass] \in Hashes
  /\ 1 \in Keys
  /\ Keys \subseteq 0 .. MaxKey
  /\ 0 \in 0 .. MaxKey
  /\ NoAccount \notin account
  BY StoreAssumption DEF StoreAssumption, Keys, account

(* Overwriting one field of an account gives an account. *)
LEMMA AccountFields ==
  ASSUME NEW acc \in account
  PROVE  /\ [acc EXCEPT !.isActive = ~@] \in account
         /\ \A h \in Hashes \cup {TornHash} : [acc EXCEPT !.phash = h] \in account
         /\ [acc EXCEPT !.isActive = ~@].login = acc.login
         /\ \A h : [acc EXCEPT !.phash = h].login = acc.login
  BY DEF account

(* Writing a record, or none, under one key of a table. *)
LEMMA TableUpdate ==
  ASSUME NEW t \in Table, NEW k \in Keys, NEW r \in account \cup {NoAccount}
  PROVE  [t EXCEPT ![k] = r] \in Table
  BY DEF Table

(* The table a save starts with has no accounts. *)
LEMMA EmptyTable == Empty \in Table
  BY DEF Empty, Table

(* And there is nothing in rawData then. *)
LEMMA EmptyRecord == NoRecord \in [key : Keys, acc : account \cup {NoAccount}]
  BY HashFacts DEF NoRecord

(* A record that is being torn stays a record. *)
LEMMA TearKeepsTypes ==
  ASSUME StoreTypeOK, NEW k, NEW versions, Tear(k, versions),
         saver = "write" => versions \subseteq account
  PROVE  /\ saverBuf' \in [key : Keys, acc : account \cup {NoAccount}]
         /\ saver = "write" => saverBuf'.acc \in account
         /\ UNCHANGED <<authUpdating, saver, saverIt, astray, written, disk, fileFails>>
<1>1. UNCHANGED <<authUpdating, saver, saverIt, astray, written, disk, fileFails>>
  BY DEF Tear
<1>2. CASE saver = "write" /\ saverBuf.key = k
  <2>1. PICK acc \in versions : saverBuf' = [saverBuf EXCEPT !.acc = acc]
    BY <1>2 DEF Tear
  <2>2. acc \in account
    BY <1>2, <2>1
  <2> QED
    BY <1>1, <2>1, <2>2 DEF StoreTypeOK
<1>3. CASE ~(saver = "write" /\ saverBuf.key = k)
  BY <1>1, <1>3 DEF Tear, StoreTypeOK
<1> QED
  BY <1>1, <1>2, <1>3

-----------------------------------------------------------------------------
(* Each action keeps the types. *)

(* authLock overwrites one record with one of the same login, perhaps under *)
(* the eyes of the saver.                                                   *)
LEMMA LockType ==
  ASSUME StoreTypeOK, NEW login \in Logins, authLock(login)
  PROVE  StoreTypeOK' /\ \E r \in account :
           /\ authData' = [authData EXCEPT ![LoginHash[login]] = r]
           /\ r.login = authData[LoginHash[login]].login
<1> DEFINE k == LoginHash[login]
           r == [authData[k] EXCEPT !.isActive = ~@]
<1>1. k \in Keys /\ authData[k] \in account
  BY HashFacts DEF authLock, Owns, StoreTypeOK, Table
<1>2. r \in account /\ r.login = authData[k].login
  BY <1>1, AccountFields
<1>3. authData' = [authData EXCEPT ![k] = r]
  BY DEF authLock
<1>4. authData' \in Table
  BY <1>1, <1>2, <1>3, TableUpdate DEF StoreTypeOK
<1>5. updateAuthDB' \in 0 .. MaxPending
  BY StoreAssumption DEF StoreAssumption, authLock, PushUpdate, StoreTypeOK
<1>6. saver = "write" =>
        {saverBuf.acc, [saverBuf.acc EXCEPT !.isActive = ~@]} \subseteq account
  BY AccountFields DEF StoreTypeOK
<1>7. /\ saverBuf' \in [key : Keys, acc : account \cup {NoAccount}]
      /\ saver = "write" => saverBuf'.acc \in account
      /\ UNCHANGED <<authUpdating, saver, saverIt, astray, written, disk, fileFails>>
  BY <1>6, TearKeepsTypes DEF authLock
<1> QED
  BY <1>2, <1>3, <1>4, <1>5, <1>7 DEF StoreTypeOK

(* authChangePass does too, and may tear what the saver is copying. *)
LEMMA ChangePassType ==
  ASSUME StoreTypeOK, NEW login \in Logins, NEW pass \in Passwords,
         authChangePass(login, pass)
  PROVE  StoreTypeOK' /\ \E r \in account :
           /\ authData' = [authData EXCEPT ![LoginHash[login]] = r]
           /\ r.login = authData[LoginHash[login]].login
<1> DEFINE k == LoginHash[login]
           r == [authData[k] EXCEPT !.phash = PassHash[pass]]
<1>1. k \in Keys /\ authData[k] \in account
  BY HashFacts DEF authChangePass, Owns, StoreTypeOK, Table
<1>2. r \in account /\ r.login = authData[k].login
  BY <1>1, AccountFields, HashFacts
<1>3. authData' = [authData EXCEPT ![k] = r]
  BY DEF authChangePass
<1>4. authData' \in Table
  BY <1>1, <1>2, <1>3, TableUpdate DEF StoreTypeOK
<1>5. updateAuthDB' \in 0 .. MaxPending
  BY StoreAssumption DEF StoreAssumption, authChangePass, PushUpdate, StoreTypeOK
<1>6. saver = "write" =>
        {[saverBuf.acc EXCEPT !.phash = h] : h \in {saverBuf.acc.phash, TornHash, PassHash[pass]}}
          \subseteq account
  <2> SUFFICES ASSUME saver = "write", NEW h \in {saverBuf.acc.phash, TornHash, PassHash[pass]}
               PROVE  [saverBuf.acc EXCEPT !.phash = h] \in account
    OBVIOUS
  <2>1. saverBuf.acc \in account /\ saverBuf.acc.phash \in Hashes \cup {TornHash}
    BY DEF StoreTypeOK, account
  <2> QED
    BY <2>1, AccountFields, HashFacts
<1>7. /\ saverBuf' \in [key : Keys, acc : account \cup {NoAccount}]
      /\ saver = "write" => saverBuf'.acc \in account
      /\ UNCHANGED <<authUpdating, saver, saverIt, astray, written, disk, fileFails>>
  BY <1>6, TearKeepsTypes DEF authChangePass
<1> QED
  BY <1>2, <1>3, <1>4, <1>5, <1>7 DEF StoreTypeOK

(* authDelete leaves no account under the key. *)
LEMMA DeleteType ==
  ASSUME StoreTypeOK, NEW login \in Logins, authDelete(login)
  PROVE  StoreTypeOK'
<1> DEFINE k == LoginHash[login]
<1>1. k \in Keys
  BY HashFacts
<1>2. authData' \in Table
  BY <1>1, TableUpdate DEF authDelete, Erase, StoreTypeOK
<1>3. updateAuthDB' \in 0 .. MaxPending
  BY StoreAssumption DEF StoreAssumption, authDelete, PushUpdate, StoreTypeOK
<1>4. /\ saverIt' \in 0 .. MaxKey /\ astray' \in BOOLEAN
      /\ UNCHANGED <<saver, saverBuf, written, disk, fileFails, authUpdating>>
  BY DEF authDelete, Erase, Rebalance, StoreTypeOK
<1> QED
  BY <1>2, <1>3, <1>4 DEF StoreTypeOK

(* authRegister puts a well formed account under the key. *)
LEMMA RegisterType ==
  ASSUME StoreTypeOK, NEW login \in Logins, NEW pass \in Passwords,
         authRegister(login, pass)
  PROVE  StoreTypeOK'
<1> DEFINE k == LoginHash[login]
           r == [login |-> login, phash |-> PassHash[pass], isActive |-> TRUE]
<1>1. k \in Keys /\ r \in account
  BY HashFacts DEF account
<1>2. authData' \in Table
  BY <1>1, TableUpdate DEF authRegister, StoreTypeOK
<1>3. updateAuthDB' \in 0 .. MaxPending
  BY StoreAssumption DEF StoreAssumption, authRegister, PushUpdate, StoreTypeOK
<1>4. saverIt' \in 0 .. MaxKey /\ UNCHANGED <<saver, astray, saverBuf, written, disk,
                                                 fileFails, authUpdating>>
  BY DEF authRegister, Rebalance, StoreTypeOK
<1> QED
  BY <1>2, <1>3, <1>4 DEF StoreTypeOK

(* authProcess only takes note of what is pending. *)
LEMMA ProcessType ==
  ASSUME StoreTypeOK, OneSaver, updateAuthDBProcess
  PROVE  StoreTypeOK'
  BY StoreAssumption DEF StoreAssumption, StoreTypeOK, OneSaver, updateAuthDBProcess

(* The saver's steps copy well formed records to the file. *)
LEMMA SaverType ==
  ASSUME StoreTypeOK, ReadsRecord, saveAuthData
  PROVE  StoreTypeOK'
<1>1. CASE SaveOpen
  BY <1>1, EmptyTable, HashFacts DEF SaveOpen, StoreTypeOK
<1>2. CASE SaveNext
  <2>1. PICK k \in Ahead : saverIt' = k
    BY <1>2 DEF SaveNext
  <2>2. k \in 0 .. MaxKey
    BY <2>1, HashFacts DEF Ahead
  <2> QED
    BY <1>2, <2>1, <2>2 DEF SaveNext, StoreTypeOK
<1>5. CASE SaveKey
  BY <1>5 DEF SaveKey, StoreTypeOK
<1>6. CASE SaveAccount
  <2>1. PICK acc \in Copied : saverBuf' = [saverBuf EXCEPT !.acc = acc]
    BY <1>6 DEF SaveAccount
  <2>2. acc \in account
    <3>1. CASE astray
      BY <2>1, <3>1, StoreAssumption DEF Copied, StoreAssumption, StoreTypeOK, Table
    <3>2. CASE ~astray
      BY <1>6, <2>1, <3>2 DEF Copied, ReadsRecord, SaveAccount, StoreTypeOK, Table
    <3> QED
      BY <3>1, <3>2
  <2> QED
    BY <1>6, <2>1, <2>2 DEF SaveAccount, StoreTypeOK
<1>3. CASE SaveWrite
  <2>1. saverBuf.key \in Keys /\ saverBuf.acc \in account \cup {NoAccount}
    BY DEF StoreTypeOK
  <2>2. [written EXCEPT ![saverBuf.key] = saverBuf.acc] \in Table
    BY <2>1, TableUpdate DEF StoreTypeOK
  <2>3. written' \in Table
    BY <1>3, <2>2, EmptyTable DEF SaveWrite, StoreTypeOK
  <2>4. disk' \in Table /\ fileFails' \in BOOLEAN
    BY <1>3, <2>3 DEF SaveWrite, StoreTypeOK
  <2> QED
    BY <1>3, <2>3, <2>4 DEF SaveWrite, StoreTypeOK
<1>4. CASE SaveClose
  <2>1. disk' \in Table /\ fileFails' \in BOOLEAN
    BY <1>4 DEF SaveClose, StoreTypeOK
  <2>2. saverIt' \in 0 .. MaxKey
    BY <1>4, HashFacts DEF SaveClose
  <2> QED
    BY <1>4, <2>1, <2>2, EmptyTable, EmptyRecord DEF SaveClose, StoreTypeOK
<1> QED
  BY <1>1, <1>2, <1>3, <1>4, <1>5, <1>6 DEF saveAuthData

(* What authLoad reads back is a table of accounts. *)
LEMMA RestartType ==
  ASSUME StoreTypeOK, initAuthData
  PROVE  StoreTypeOK'
<1>1. saverBuf' \in [key : Keys, acc : account \cup {NoAccount}] /\ saver' = "none"
  BY EmptyRecord DEF initAuthData
<1>2. written' \in Table /\ disk' \in Table /\ authData' \in Table
  BY EmptyTable DEF initAuthData, StoreTypeOK
<1>3. updateAuthDB' \in 0 .. MaxPending /\ saverIt' \in 0 .. MaxKey
  BY StoreAssumption DEF StoreAssumption, initAuthData
<1>4. authUpdating' \in BOOLEAN /\ fileFails' \in BOOLEAN /\ astray' \in BOOLEAN
  BY DEF initAuthData
<1> QED
  BY <1>1, <1>2, <1>3, <1>4 DEF StoreTypeOK

-----------------------------------------------------------------------------
(* The invariant behind QuiescentDurable, action by action. *)

(* A change adds an entry: the save under way is no longer the last one. *)
LEMMA ChangeKeeps ==
  ASSUME StoreInv, StoreTypeOK', ReadsRecord', PushUpdate, UNCHANGED <<authUpdating, saver>>
  PROVE  StoreInv'
<1>1. updateAuthDB' > 0 /\ (authUpdating' => updateAuthDB' > 1)
  BY DEF StoreInv, StoreTypeOK, OneSaver, PushUpdate
<1> QED
  BY <1>1 DEF StoreInv, OneSaver, LastSaveIsExact, QuiescentDurable

(* Each change of an account keeps StoreInv: a saver that is not astray    *)
(* stays on its record, and the record stays in the table.                 *)
LEMMA AccountChangeKeeps ==
  ASSUME StoreInv, AccountChange
  PROVE  StoreInv'
<1> USE DEF StoreInv
<1>1. ASSUME NEW login \in Logins, authLock(login) PROVE StoreInv'
  <2>1. PICK r \in account : authData' = [authData EXCEPT ![LoginHash[login]] = r]
    BY <1>1, LockType
  <2>2. ReadsRecord'
    BY <1>1, <2>1, HashFacts DEF authLock, Tear, ReadsRecord, Iterating, StoreTypeOK, Table
  <2> QED
    BY <1>1, <2>2, LockType, ChangeKeeps DEF authLock, Tear
<1>2. ASSUME NEW login \in Logins, authDelete(login) PROVE StoreInv'
  <2>1. ReadsRecord'
    BY <1>2, HashFacts DEF authDelete, Erase, Rebalance, ReadsRecord, Iterating, StoreTypeOK, Table
  <2> QED
    BY <1>2, <2>1, DeleteType, ChangeKeeps DEF authDelete, Erase, Rebalance
<1>3. ASSUME NEW login \in Logins, NEW pass \in Passwords, authRegister(login, pass)
      PROVE  StoreInv'
  <2>1. ReadsRecord'
    BY <1>3 DEF authRegister, Rebalance, ReadsRecord, Iterating, StoreTypeOK, Table
  <2> QED
    BY <1>3, <2>1, RegisterType, ChangeKeeps DEF authRegister, Rebalance
<1>4. ASSUME NEW login \in Logins, NEW pass \in Passwords, authChangePass(login, pass)
      PROVE  StoreInv'
  <2>1. PICK r \in account : authData' = [authData EXCEPT ![LoginHash[login]] = r]
    BY <1>4, ChangePassType
  <2>2. ReadsRecord'
    BY <1>4, <2>1, HashFacts DEF authChangePass, Tear, ReadsRecord, Iterating, StoreTypeOK, Table
  <2> QED
    BY <1>4, <2>2, ChangePassType, ChangeKeeps DEF authChangePass, Tear
<1> QED
  BY <1>1, <1>2, <1>3, <1>4 DEF AccountChange

(* The last entry is popped only when its save has ended, and that was exact. *)
LEMMA ProcessKeeps ==
  ASSUME StoreInv, updateAuthDBProcess
  PROVE  StoreInv'
<1>1. StoreTypeOK'
  BY ProcessType DEF StoreInv
<1>2. OneSaver'
  BY DEF StoreInv, StoreTypeOK, OneSaver, updateAuthDBProcess
<1>5. ReadsRecord'
  BY DEF StoreInv, StoreTypeOK, OneSaver, ReadsRecord, Iterating, updateAuthDBProcess
<1>3. LastSaveIsExact'
  BY DEF StoreInv, StoreTypeOK, OneSaver, ReadsRecord, Iterating, LastSaveIsExact,
         updateAuthDBProcess
<1>4. QuiescentDurable'
  BY DEF StoreInv, StoreTypeOK, OneSaver, LastSaveIsExact, QuiescentDurable, updateAuthDBProcess
<1> QED
  BY <1>1, <1>2, <1>3, <1>4, <1>5 DEF StoreInv

(* A step of the last save extends an exact prefix of the table. *)
LEMMA SaverKeeps ==
  ASSUME StoreInv, saveAuthData
  PROVE  StoreInv'
<1>1. StoreTypeOK'
  BY SaverType DEF StoreInv
<1>2. OneSaver' /\ updateAuthDB' # 0
  BY DEF StoreInv, StoreTypeOK, OneSaver, saveAuthData, SaveOpen, SaveNext,
         SaveKey, SaveAccount, SaveWrite, SaveClose
<1>4. ReadsRecord'
  BY DEF StoreInv, StoreTypeOK, ReadsRecord, Iterating, saveAuthData, SaveOpen, SaveNext, Ahead,
         SaveKey, SaveAccount, SaveWrite, SaveClose
<1>3. LastSaveIsExact'
  <2> SUFFICES ASSUME updateAuthDB = 1, authUpdating, ~fileFails' PROVE LastSaveIsExact'
    BY DEF LastSaveIsExact, saveAuthData, SaveOpen, SaveNext, SaveKey, SaveAccount, SaveWrite,
           SaveClose
  <2> USE DEF StoreInv, LastSaveIsExact
  <2>1. CASE SaveOpen
    BY <2>1 DEF SaveOpen, Empty, Keys, ReadsRecord, Iterating
  <2>2. CASE SaveNext
    <3>1. PICK k \in Ahead : (\A j \in Ahead : k <= j) /\ saverIt' = k
      BY <2>2 DEF SaveNext
    <3>2. \A j \in Keys : j > saverIt /\ j < k => authData[j] = NoAccount
      BY <3>1 DEF Ahead, Keys
    <3>3. \A j \in Keys : written[j] = IF j < k THEN authData[j] ELSE NoAccount
      BY <2>2, <3>1, <3>2 DEF SaveNext, Ahead, Keys, StoreTypeOK
    <3> QED
      BY <2>2, <3>1, <3>3 DEF SaveNext
  <2>5. CASE SaveKey
    BY <2>5 DEF SaveKey, StoreTypeOK
  <2>6. CASE SaveAccount
    BY <2>6 DEF SaveAccount, Copied, StoreTypeOK
  <2>3. CASE SaveWrite
    <3>1. ~fileFails /\ written[saverIt] = NoAccount /\ saverIt \in Keys
      BY <2>3 DEF SaveWrite, ReadsRecord, StoreTypeOK
    <3>2. written' = [written EXCEPT ![saverIt] = authData[saverIt]]
      BY <2>3, <3>1 DEF SaveWrite
    <3>3. \A j \in Keys : written'[j] = IF j <= saverIt THEN authData[j] ELSE NoAccount
      BY <2>3, <3>1, <3>2 DEF SaveWrite, StoreTypeOK, Table, Keys
    <3> QED
      BY <2>3, <3>3 DEF SaveWrite
  <2>4. CASE SaveClose
    <3>1. \A k \in Keys : written[k] = authData[k]
      BY <2>4 DEF SaveClose, Ahead, Keys, StoreTypeOK
    <3>2. written = authData
      BY <3>1 DEF StoreTypeOK, Table
    <3> QED
      BY <2>4, <3>2 DEF SaveClose
  <2> QED
    BY <2>1, <2>2, <2>3, <2>4, <2>5, <2>6 DEF saveAuthData
<1> QED
  BY <1>1, <1>2, <1>3, <1>4 DEF StoreInv, QuiescentDurable

(* So does loading the file: no save is under way, and the file is what was read. *)
LEMMA RestartKeeps ==
  ASSUME StoreInv, initAuthData
  PROVE  StoreInv'
  BY RestartType DEF StoreInv, OneSaver, ReadsRecord, LastSaveIsExact, QuiescentDurable, initAuthData

(***************************************************************************)
(* The invariant holds in every state of the account store: types, one     *)
(* save thread, an exact last save and a file equal to a settled table.    *)
(***************************************************************************)
THEOREM StoreInvariant == StoreSpec => []StoreInv
<1>1. StoreInit => StoreInv
  <2> SUFFICES ASSUME StoreInit PROVE StoreInv
    OBVIOUS
  <2>1. StoreTypeOK
    <3>1. written \in Table /\ saverBuf \in [key : Keys, acc : account \cup {NoAccount}]
      BY EmptyTable, EmptyRecord DEF StoreInit
    <3>2. updateAuthDB \in 0 .. MaxPending /\ saverIt \in 0 .. MaxKey
      BY StoreAssumption DEF StoreAssumption, StoreInit
    <3> QED
      BY <3>1, <3>2 DEF StoreInit, StoreTypeOK
  <2> QED
    BY <2>1 DEF StoreInit, StoreInv, OneSaver, ReadsRecord, LastSaveIsExact, QuiescentDurable
<1>2. StoreInv /\ [StoreNext]_storeVars => StoreInv'
  <2>1. ASSUME StoreInv, UNCHANGED storeVars PROVE StoreInv'
    BY <2>1 DEF storeVars, StoreInv, StoreTypeOK, OneSaver, ReadsRecord, Iterating,
                 LastSaveIsExact, QuiescentDurable
  <2> QED
    BY <2>1, AccountChangeKeeps, ProcessKeeps, SaverKeeps, RestartKeeps DEF StoreNext
<1> QED
  BY <1>1, <1>2, PTL DEF StoreSpec

(***************************************************************************)
(* Whenever no change is queued the file equals the table in memory, for   *)
(* any number of accounts, changes and races between them and the saves.   *)
(***************************************************************************)
THEOREM SettledMeansSaved == StoreSpec => []QuiescentDurable
<1>1. StoreInv => QuiescentDurable
  BY DEF StoreInv
<1> QED
  BY <1>1, StoreInvariant, PTL

-----------------------------------------------------------------------------
(* Records stay under the key of their login, but for a restart with a     *)
(* save owed.                                                              *)

(* An account operation files its record under the key of its login. *)
LEMMA ChangesFile ==
  ASSUME StoreTypeOK, AccountChange, Filed(authData)
  PROVE  Filed(authData)'
<1> USE DEF Filed
<1>1. ASSUME NEW login \in Logins, authLock(login) PROVE Filed(authData)'
  <2>1. PICK r \in account : /\ authData' = [authData EXCEPT ![LoginHash[login]] = r]
                             /\ r.login = authData[LoginHash[login]].login
    BY <1>1, LockType
  <2>2. authData[LoginHash[login]].login = login
    BY <1>1 DEF authLock, Owns
  <2> QED
    BY <2>1, <2>2 DEF StoreTypeOK, Table
<1>2. ASSUME NEW login \in Logins, authDelete(login) PROVE Filed(authData)'
  BY <1>2 DEF authDelete, Erase, StoreTypeOK, Table
<1>3. ASSUME NEW login \in Logins, NEW pass \in Passwords, authRegister(login, pass)
      PROVE  Filed(authData)'
  BY <1>3 DEF authRegister, StoreTypeOK, Table
<1>4. ASSUME NEW login \in Logins, NEW pass \in Passwords, authChangePass(login, pass)
      PROVE  Filed(authData)'
  <2>1. PICK r \in account : /\ authData' = [authData EXCEPT ![LoginHash[login]] = r]
                             /\ r.login = authData[LoginHash[login]].login
    BY <1>4, ChangePassType
  <2>2. authData[LoginHash[login]].login = login
    BY <1>4 DEF authChangePass, Owns
  <2> QED
    BY <2>1, <2>2 DEF StoreTypeOK, Table
<1> QED
  BY <1>1, <1>2, <1>3, <1>4 DEF AccountChange

(***************************************************************************)
(* However a save went astray, a record filed wrongly comes into the table *)
(* only with a restart that had a change to save or a failed save behind   *)
(* it: from a settled file every record comes back under its own key.      *)
(***************************************************************************)
THEOREM RecordsFiled == StoreSpec => FiledUnderOwnKey
<1> DEFINE Kept == Filed(authData) /\ ~Filed(authData)'
                     => initAuthData /\ (updateAuthDB > 0 \/ fileFails)
<1>1. StoreInv /\ [StoreNext]_storeVars => [Kept]_storeVars
  <2> SUFFICES ASSUME StoreInv, StoreNext, Filed(authData), ~Filed(authData)'
               PROVE  initAuthData /\ (updateAuthDB > 0 \/ fileFails)
    OBVIOUS
  <2>1. ~AccountChange
    BY ChangesFile DEF StoreInv
  <2>2. updateAuthDBProcess \/ saveAuthData => UNCHANGED authData
    BY DEF updateAuthDBProcess, saveAuthData, SaveOpen, SaveNext, SaveKey, SaveAccount,
           SaveWrite, SaveClose
  <2>3. UNCHANGED authData => (Filed(authData)' <=> Filed(authData))
    BY DEF Filed
  <2>4. initAuthData
    BY <2>1, <2>2, <2>3 DEF StoreNext
  <2>5. disk # authData
    BY <2>3, <2>4 DEF initAuthData
  <2>6. updateAuthDB \in Nat
    BY StoreAssumption DEF StoreAssumption, StoreInv, StoreTypeOK
  <2> QED
    BY <2>4, <2>5, <2>6 DEF StoreInv, QuiescentDurable
<1> QED
  BY <1>1, StoreInvariant, PTL DEF StoreSpec, FiledUnderOwnKey

(***************************************************************************)
(* No operation of one login takes over the record of another that shares  *)
(* its key: the map's refusal and the name check guard every path.         *)
(***************************************************************************)
THEOREM OwnersStay == StoreSpec => OwnerStable
<1> DEFINE Kept == \A k \in Keys :
                     authData[k] # NoAccount /\ authData'[k] # NoAccount
                       => authData'[k].login = authData[k].login
<1>1. StoreTypeOK /\ [StoreNext]_storeVars => [initAuthData \/ Kept]_authData
  <2> SUFFICES ASSUME StoreTypeOK, [StoreNext]_storeVars
               PROVE  initAuthData \/ Kept \/ UNCHANGED authData
    OBVIOUS
  <2>1. ASSUME NEW login \in Logins, authLock(login) PROVE Kept
    BY <2>1, LockType DEF StoreTypeOK, Table
  <2>2. ASSUME NEW login \in Logins, authDelete(login) PROVE Kept
    BY <2>2 DEF authDelete, Erase, StoreTypeOK, Table
  <2>3. ASSUME NEW login \in Logins, NEW pass \in Passwords, authRegister(login, pass)
        PROVE  Kept
    BY <2>3 DEF authRegister, StoreTypeOK, Table
  <2>4. ASSUME NEW login \in Logins, NEW pass \in Passwords, authChangePass(login, pass)
        PROVE  Kept
    BY <2>4, ChangePassType DEF StoreTypeOK, Table
  <2>5. updateAuthDBProcess \/ saveAuthData \/ UNCHANGED storeVars => UNCHANGED authData
    BY DEF updateAuthDBProcess, saveAuthData, SaveOpen, SaveNext, SaveKey, SaveAccount, SaveWrite,
           SaveClose, storeVars
  <2> QED
    BY <2>1, <2>2, <2>3, <2>4, <2>5 DEF StoreNext, AccountChange
<1>2. StoreInv => StoreTypeOK
  BY DEF StoreInv
<1> QED
  BY <1>1, <1>2, StoreInvariant, PTL DEF StoreSpec, OwnerStable
-----------------------------------------------------------------------------
(***************************************************************************)
(* The store implements the account table: each of its steps is a change   *)
(* of one record, a step of the save, a restart, or nothing.               *)
(***************************************************************************)
THEOREM Refinement == StoreSpec => ImplementsAccountTable
<1> USE DEF Promised!tableVars, Promised!Tables
<1>1. StoreInit => Promised!Init
  BY DEF StoreInit, Promised!Init, Table
<1>2. StoreInv /\ StoreInv' /\ [StoreNext]_storeVars => [Promised!Next]_Promised!tableVars
  <2> SUFFICES ASSUME StoreInv, StoreInv', [StoreNext]_storeVars
               PROVE  [Promised!Next]_Promised!tableVars
    OBVIOUS
  <2> USE DEF Promised!Next, Promised!Change, Promised!Save, Promised!Restart
  <2>1. PushUpdate => updateAuthDB' # 0
    BY DEF PushUpdate, StoreInv, StoreTypeOK
  <2>2. ASSUME NEW k \in Keys, NEW r \in account \cup {NoAccount}, PushUpdate,
               authData' = [authData EXCEPT ![k] = r], UNCHANGED disk
        PROVE  Promised!Next
    BY <2>1, <2>2
  <2>3. ASSUME NEW login \in Logins, authLock(login) PROVE Promised!Next
    BY <2>2, <2>3, LockType, HashFacts DEF authLock, Tear, StoreInv
  <2>4. ASSUME NEW login \in Logins, authDelete(login) PROVE Promised!Next
    BY <2>2, <2>4, HashFacts DEF authDelete, Erase, Rebalance
  <2>5. ASSUME NEW login \in Logins, NEW pass \in Passwords, authRegister(login, pass)
        PROVE  Promised!Next
    <3>1. [login |-> login, phash |-> PassHash[pass], isActive |-> TRUE] \in account
      BY HashFacts DEF account
    <3> QED
      BY <2>2, <2>5, <3>1, HashFacts DEF authRegister, Rebalance
  <2>6. ASSUME NEW login \in Logins, NEW pass \in Passwords, authChangePass(login, pass)
        PROVE  Promised!Next
    BY <2>2, <2>6, ChangePassType, HashFacts DEF authChangePass, Tear, StoreInv
  <2>7. CASE updateAuthDBProcess
    <3>1. UNCHANGED <<authData, disk, fileFails>> /\ (updateAuthDB = 0 => updateAuthDB' = 0)
      BY <2>7 DEF updateAuthDBProcess, StoreInv, OneSaver, StoreTypeOK
    <3>2. updateAuthDB' = 0 /\ ~fileFails' => disk' = authData'
      BY DEF StoreInv, QuiescentDurable
    <3>3. disk' \in Table
      BY DEF StoreInv, StoreTypeOK
    <3> QED
      BY <3>1, <3>2, <3>3 DEF Table
  <2>8. CASE saveAuthData
    <3>1. updateAuthDB # 0 /\ UNCHANGED <<authData, updateAuthDB>>
      BY <2>8 DEF saveAuthData, SaveOpen, SaveNext, SaveKey, SaveAccount, SaveWrite, SaveClose,
                  StoreInv, OneSaver, StoreTypeOK
    <3>2. disk' \in Table
      BY DEF StoreInv, StoreTypeOK
    <3> QED
      BY <3>1, <3>2 DEF Table
  <2>9. CASE initAuthData
    BY <2>9 DEF initAuthData
  <2>10. CASE UNCHANGED storeVars
    BY <2>10 DEF storeVars
  <2> QED
    BY <2>3, <2>4, <2>5, <2>6, <2>7, <2>8, <2>9, <2>10 DEF StoreNext, AccountChange
<1> QED
  BY <1>1, <1>2, StoreInvariant, PTL DEF StoreSpec, ImplementsAccountTable, Promised!Spec

-----------------------------------------------------------------------------
(***************************************************************************)
(* How far the save thread is from its end, in steps of the walk and the   *)
(* two that come before it.                                                *)
(***************************************************************************)
StepsLeft ==
  IF saver = "none" THEN 4 * MaxKey + 3
  ELSE IF saver = "open" THEN 4 * MaxKey + 2
  ELSE IF saver = "key" THEN 4 * (MaxKey - saverIt) + 4
  ELSE IF saver = "account" THEN 4 * (MaxKey - saverIt) + 3
  ELSE IF saver = "write" THEN 4 * (MaxKey - saverIt) + 2
  ELSE IF saver = "walk" THEN 4 * (MaxKey - saverIt) + 1
  ELSE 0

(* Fewer changes to save, or as many and fewer steps left of this save.    *)
LessToSave ==
  \/ updateAuthDB' < updateAuthDB
  \/ updateAuthDB' = updateAuthDB /\ StepsLeft' < StepsLeft

SaveGetsNearer ==
  /\ ~AccountChange /\ ~initAuthData
  /\ updateAuthDB > 0 /\ saver # "failed" /\ saver' # "failed"
  => /\ LessToSave \/ (updateAuthDB' = updateAuthDB /\ StepsLeft' = StepsLeft)
     /\ \/ saveAuthData
        \/ updateAuthDBProcess /\ saver \in {"none", "done"}
        => LessToSave

(* Both are counted in natural numbers: they can be lessened so many times *)
(* only.                                                                   *)
SavesCounted == updateAuthDB \in Nat /\ StepsLeft \in Nat

LEMMA StepsCounted == StoreTypeOK => SavesCounted
<1> SUFFICES ASSUME StoreTypeOK PROVE SavesCounted
  OBVIOUS
<1>1. MaxKey \in Nat /\ saverIt \in 0 .. MaxKey /\ updateAuthDB \in Nat
  BY StoreAssumption DEF StoreAssumption, StoreTypeOK
<1>2. StepsLeft \in Nat
  BY <1>1 DEF StepsLeft
<1> QED BY <1>1, <1>2 DEF SavesCounted

(* The iterator has a next record, or is at the end. *)
WalkGoesOn ==
  saver = "walk" /\ Ahead # {} => \E k \in Ahead : \A j \in Ahead : k <= j

LEMMA WalkStep == WalkGoesOn
<1> SUFFICES ASSUME Ahead # {} PROVE \E k \in Ahead : \A j \in Ahead : k <= j
  BY DEF WalkGoesOn
<1>1. Ahead \subseteq Nat
  BY DEF Ahead, Keys
<1>2. PICK k \in Ahead : \A j \in Ahead : <<j, k>> \notin OpToRel(<, Nat)
  BY <1>1, NatLessThanWellFounded, WFMin
<1>3. \A j \in Ahead : ~(j < k)
  BY <1>1, <1>2 DEF OpToRel
<1>4. \A j \in Ahead : k <= j
  BY <1>1, <1>3
<1> QED
  BY <1>4

(* A step of the save thread leaves fewer steps of it. *)
LEMMA SaverNearer ==
  ASSUME StoreTypeOK, saveAuthData
  PROVE  updateAuthDB' = updateAuthDB /\ StepsLeft' < StepsLeft
<1>1. MaxKey \in Nat /\ saverIt \in 0 .. MaxKey
  BY StoreAssumption DEF StoreAssumption, StoreTypeOK
<1>2. CASE SaveOpen
  BY <1>1, <1>2 DEF SaveOpen, StepsLeft
<1>3. CASE SaveNext
  <2>1. PICK k \in Ahead : saverIt' = k
    BY <1>3 DEF SaveNext
  <2>2. k \in 1 .. MaxKey /\ saverIt < k
    BY <1>1, <2>1 DEF Ahead, Keys
  <2>3. StepsLeft = 4 * (MaxKey - saverIt) + 1 /\ StepsLeft' = 4 * (MaxKey - k) + 4
    BY <1>3, <2>1 DEF SaveNext, StepsLeft
  <2> QED
    BY <1>1, <1>3, <2>2, <2>3 DEF SaveNext
<1>6. CASE SaveKey
  BY <1>1, <1>6 DEF SaveKey, StepsLeft
<1>7. CASE SaveAccount
  BY <1>1, <1>7 DEF SaveAccount, StepsLeft
<1>4. CASE SaveWrite
  BY <1>1, <1>4 DEF SaveWrite, StepsLeft
<1>5. CASE SaveClose
  BY <1>1, <1>5 DEF SaveClose, StepsLeft
<1> QED
  BY <1>2, <1>3, <1>4, <1>5, <1>6, <1>7 DEF saveAuthData

(* So does a GUI update that collects a thread or starts one. *)
LEMMA ProcessNearer ==
  ASSUME StoreInv, updateAuthDBProcess, updateAuthDB > 0, saver' # "failed"
  PROVE  /\ LessToSave \/ UNCHANGED <<updateAuthDB, saver, saverIt>>
         /\ saver \in {"none", "done"} => LessToSave
<1>1. MaxKey \in Nat /\ updateAuthDB \in Nat /\ (authUpdating <=> saver # "none")
  BY StoreAssumption DEF StoreAssumption, StoreInv, StoreTypeOK, OneSaver
<1>2. CASE saver = "done"
  <2>1. updateAuthDB' = updateAuthDB - 1
    BY <1>1, <1>2 DEF updateAuthDBProcess
  <2> QED
    BY <1>1, <2>1 DEF LessToSave
<1>3. CASE saver = "none"
  <2>1. updateAuthDB' = updateAuthDB /\ saver' = "open"
    BY <1>1, <1>3 DEF updateAuthDBProcess
  <2>2. StepsLeft = 4 * MaxKey + 3 /\ StepsLeft' = 4 * MaxKey + 2
    BY <1>3, <2>1 DEF StepsLeft
  <2> QED
    BY <1>1, <2>1, <2>2 DEF LessToSave
<1>4. CASE saver \notin {"none", "done"}
  BY <1>1, <1>4 DEF updateAuthDBProcess
<1> QED
  BY <1>2, <1>3, <1>4

(***************************************************************************)
(* The table is on its way to the file as long as threads can be made: the *)
(* walk of a save always has a next step; and while accounts do not change *)
(* every step of a save, and every GUI update that starts or collects one, *)
(* leaves fewer changes to save or less of this save, both finitely many,  *)
(* and no step more (authManager.cpp, 736-747, 190-204).                   *)
(***************************************************************************)
THEOREM SavesProgress ==
  StoreSpec => [](WalkGoesOn /\ SavesCounted) /\ [][SaveGetsNearer]_storeVars
<1>1. StoreInv /\ [StoreNext]_storeVars => [SaveGetsNearer]_storeVars
  <2> SUFFICES ASSUME StoreInv, StoreNext, ~AccountChange, ~initAuthData,
                      updateAuthDB > 0, saver' # "failed"
               PROVE  /\ LessToSave \/ (updateAuthDB' = updateAuthDB /\ StepsLeft' = StepsLeft)
                      /\ \/ saveAuthData
                         \/ updateAuthDBProcess /\ saver \in {"none", "done"}
                         => LessToSave
    BY DEF SaveGetsNearer
  <2>1. saveAuthData => LessToSave
    BY SaverNearer DEF StoreInv, LessToSave
  <2>2. UNCHANGED <<saver, saverIt>> => StepsLeft' = StepsLeft
    BY DEF StepsLeft
  <2>3. updateAuthDBProcess =>
          /\ LessToSave \/ (updateAuthDB' = updateAuthDB /\ StepsLeft' = StepsLeft)
          /\ saver \in {"none", "done"} => LessToSave
    BY <2>2, ProcessNearer
  <2>4. saveAuthData \/ updateAuthDBProcess
    BY DEF StoreNext
  <2> QED
    BY <2>1, <2>3, <2>4
<1>2. StoreInv => SavesCounted
  BY StepsCounted DEF StoreInv
<1> QED
  BY <1>1, <1>2, WalkStep, StoreInvariant, PTL DEF StoreSpec
=============================================================================
