------------------------------ MODULE AuthStore ------------------------------
(***************************************************************************)
(* The account table of the server (src/authManager.cpp): the map          *)
(* authData, the queue updateAuthDB of changes not yet saved, the thread   *)
(* saveAuthData that writes the table to authData.bin without any lock,    *)
(* and initAuthData, which reads the file back when the program starts.    *)
(*                                                                         *)
(* The main thread changes the table while the save thread walks it.  The  *)
(* walk is an iteration over a red-black tree somebody else rebalances:    *)
(* ++it may lead anywhere while a record comes or goes, a record whose     *)
(* password changes under the copy may be half old, half new, and one that *)
(* is erased under it is read from freed memory, its key and its account   *)
(* apart.  All of this is choices here; a walk that faults ends the        *)
(* process, which a restart at any point covers.                           *)
(*                                                                         *)
(* Nobody asks whether the thread was made and the stream opened, written  *)
(* and closed: each of these may fail here.                                *)
(***************************************************************************)
EXTENDS Naturals

CONSTANTS
  Logins,        \* account names given to the Lua functions
  Passwords,     \* passwords given to them
  Hashes,        \* SHA-1 values of passwords, as stored in account.phash
  LoginHash,     \* sha1hash(SHA-1(login)): the key a login is filed under
  PassHash,      \* SHA-1(password)
  MaxKey,        \* keys are 1 .. MaxKey, in the order of the map
  NoAccount,     \* no record under this key
  TornHash,      \* phash copied while authChangePass overwrites it
  TornLogin,     \* login that is no name: bytes of freed memory
  Debris,        \* accounts that freed memory may be taken for
  MaxPending     \* bound on the length of updateAuthDB

Keys == 1 .. MaxKey

account ==
  [login : Logins \cup {TornLogin}, phash : Hashes \cup {TornHash}, isActive : BOOLEAN]

(***************************************************************************)
(* sha1hash copies the digest with strncpy, which stops at the first zero  *)
(* byte: two logins can share a key, so LoginHash need not be injective.   *)
(***************************************************************************)
ASSUME StoreAssumption ==
  /\ MaxKey \in Nat \ {0}
  /\ MaxPending \in Nat \ {0}
  /\ LoginHash \in [Logins -> Keys]
  /\ PassHash \in [Passwords -> Hashes]
  /\ TornHash \notin Hashes
  /\ TornLogin \notin Logins
  /\ Debris # {} /\ Debris \subseteq account
  /\ NoAccount \notin account

VARIABLES
  authData,      \* the table in memory, by key
  updateAuthDB,  \* number of entries of the queue (they are all TRUE)
  authUpdating,  \* a save thread was started and not yet collected
  saver,         \* where that thread is: "none", "open", "walk" (in ++it), "key",
                 \* "account" (the reads of a record), "write", "done"; "failed"
                 \* where _beginthreadex made none
  saverIt,       \* key its iterator stands on, 0 before the first
  astray,        \* a record was erased from under that iterator
  saverBuf,      \* rawData: the record it copied and is about to write
  written,       \* records given to the stream since the file was opened
  disk,          \* records of authData.bin the system has
  fileFails      \* the stream of the last save failed: nothing more reaches the file

storeVars ==
  <<authData, updateAuthDB, authUpdating, saver, saverIt, astray, saverBuf, written,
    disk, fileFails>>

Table == [Keys -> account \cup {NoAccount}]
Empty == [k \in Keys |-> NoAccount]

(* rawData holds nothing. *)
NoRecord == [key |-> 1, acc |-> NoAccount]

StoreTypeOK ==
  /\ authData \in Table
  /\ updateAuthDB \in 0 .. MaxPending
  /\ authUpdating \in BOOLEAN
  /\ saver \in {"none", "open", "walk", "key", "account", "write", "done", "failed"}
  /\ saverIt \in 0 .. MaxKey
  /\ astray \in BOOLEAN
  /\ saverBuf \in [key : Keys, acc : account \cup {NoAccount}]
  /\ saver = "write" => saverBuf.acc \in account
  /\ written \in Table
  /\ disk \in Table
  /\ fileFails \in BOOLEAN

(***************************************************************************)
(* A record is filed under the key of its own login, by which authLogin    *)
(* and the others look it up.                                              *)
(***************************************************************************)
Filed(table) ==
  \A k \in Keys : table[k] # NoAccount =>
    table[k].login \in Logins /\ LoginHash[table[k].login] = k

-----------------------------------------------------------------------------
(* The file as the program finds it: initAuthData takes every whole record. *)

StoreInit ==
  /\ disk \in Table
  /\ Filed(disk)
  /\ authData = disk
  /\ updateAuthDB = 0
  /\ authUpdating = FALSE
  /\ saver = "none"
  /\ saverIt = 0
  /\ astray = FALSE
  /\ saverBuf = NoRecord
  /\ written = Empty
  /\ fileFails = FALSE

(* The record a login owns: same key and same name. *)
Owns(login) ==
  LET k == LoginHash[login]
  IN  authData[k] # NoAccount /\ authData[k].login = login

authLogin(login, pass) ==
  /\ Owns(login)
  /\ authData[LoginHash[login]].isActive
  /\ authData[LoginHash[login]].phash = PassHash[pass]

(* updateAuthDB.push(true) *)
PushUpdate ==
  /\ updateAuthDB < MaxPending
  /\ updateAuthDB' = updateAuthDB + 1

Iterating == saver \in {"walk", "key", "account", "write"}

(* The tree is rebalanced; an iterator that stands on a record stays there. *)
Rebalance ==
  /\ IF saver = "walk" \/ astray' THEN saverIt' \in 0 .. MaxKey ELSE UNCHANGED saverIt
  /\ UNCHANGED <<saver, written, disk, fileFails>>

(* A field of the record under key k changes while it may be being copied: *)
(* what is written may have it in one of these versions.                   *)
Tear(k, versions) ==
  /\ IF saver = "write" /\ saverBuf.key = k
       THEN \E acc \in versions : saverBuf' = [saverBuf EXCEPT !.acc = acc]
       ELSE UNCHANGED saverBuf
  /\ UNCHANGED <<authUpdating, saver, saverIt, astray, written, disk, fileFails>>

(* Mutant: operator [] instead of insert. *)
RegisterOverwrites(login, pass) ==
  /\ authData' = [authData EXCEPT ![LoginHash[login]] =
       [login |-> login, phash |-> PassHash[pass], isActive |-> TRUE]]
  /\ PushUpdate
  /\ UNCHANGED <<authUpdating, astray, saverBuf>>
  /\ Rebalance

(* The map refuses a second record under one key and nothing is queued then. *)
authRegister(login, pass) ==
  /\ authData[LoginHash[login]] = NoAccount
  /\ authData' = [authData EXCEPT ![LoginHash[login]] =
       [login |-> login, phash |-> PassHash[pass], isActive |-> TRUE]]
  /\ PushUpdate
  /\ UNCHANGED <<authUpdating, astray, saverBuf>>
  /\ Rebalance

(* Mutant: a lock is not queued to be saved. *)
LockUnqueued(login) ==
  /\ Owns(login)
  /\ authData' = [authData EXCEPT ![LoginHash[login]].isActive = ~@]
  /\ UNCHANGED updateAuthDB
  /\ Tear(LoginHash[login], {saverBuf.acc})

(* Locks an active account and unlocks a locked one. *)
authLock(login) ==
  /\ Owns(login)
  /\ authData' = [authData EXCEPT ![LoginHash[login]].isActive = ~@]
  /\ PushUpdate
  /\ Tear(LoginHash[login], {saverBuf.acc, [saverBuf.acc EXCEPT !.isActive = ~@]})

authChangePass(login, pass) ==
  /\ Owns(login)
  /\ authData' = [authData EXCEPT ![LoginHash[login]].phash = PassHash[pass]]
  /\ PushUpdate
  /\ Tear(LoginHash[login],
          {[saverBuf.acc EXCEPT !.phash = h] : h \in {saverBuf.acc.phash, TornHash, PassHash[pass]}})

(* The record under key k is erased, and its node freed: the save thread   *)
(* is astray if that is where it stands, or if it is on its way.           *)
Erase(k) ==
  /\ authData' = [authData EXCEPT ![k] = NoAccount]
  /\ astray' = (astray \/ saver = "walk" \/ (Iterating /\ saverIt = k))
  /\ UNCHANGED <<authUpdating, saverBuf>>
  /\ Rebalance

(* Mutant: a deletion is not queued to be saved. *)
DeleteUnqueued(login) ==
  /\ Owns(login)
  /\ Erase(LoginHash[login])
  /\ UNCHANGED updateAuthDB

authDelete(login) ==
  /\ Owns(login)
  /\ Erase(LoginHash[login])
  /\ PushUpdate

(* Mutants: a thread starts for the second entry on only; its end empties  *)
(* the queue.                                                              *)
ProcessSkipsLast ==
  LET ended   == authUpdating /\ saver = "done"
      pending == IF ended THEN updateAuthDB - 1 ELSE updateAuthDB
      start   == pending > 1 /\ (ended \/ ~authUpdating)
  IN  /\ updateAuthDB' = pending
      /\ authUpdating' = (start \/ (authUpdating /\ ~ended))
      /\ saver' \in IF start THEN {"open", "failed"} ELSE IF ended THEN {"none"} ELSE {saver}
      /\ UNCHANGED <<authData, saverIt, astray, saverBuf, written, disk, fileFails>>

ProcessClearsQueue ==
  LET ended   == authUpdating /\ saver = "done"
      pending == IF ended THEN 0 ELSE updateAuthDB
      start   == pending > 0 /\ (ended \/ ~authUpdating)
  IN  /\ updateAuthDB' = pending
      /\ authUpdating' = (start \/ (authUpdating /\ ~ended))
      /\ saver' \in IF start THEN {"open", "failed"} ELSE IF ended THEN {"none"} ELSE {saver}
      /\ UNCHANGED <<authData, saverIt, astray, saverBuf, written, disk, fileFails>>

(***************************************************************************)
(* The first half of updateAuthDBProcess, on every GUI update: collect the *)
(* thread if it has ended, then start one if a change is still queued.     *)
(***************************************************************************)
updateAuthDBProcess ==
  LET ended   == authUpdating /\ saver = "done"
      pending == IF ended THEN updateAuthDB - 1 ELSE updateAuthDB
      idle    == ended \/ ~authUpdating
      start   == pending > 0 /\ idle
  IN  /\ updateAuthDB' = pending
      /\ authUpdating' = (start \/ ~idle)
      /\ saver' \in IF start THEN {"open", "failed"} ELSE IF ended THEN {"none"} ELSE {saver}
      /\ UNCHANGED <<authData, saverIt, astray, saverBuf, written, disk, fileFails>>

-----------------------------------------------------------------------------
(* The steps of the save thread. *)

(* ofstream file(..., ios::trunc); it = authData.begin().  A file that     *)
(* cannot be opened is left as it is, and the walk made all the same.      *)
SaveOpen ==
  /\ saver = "open"
  /\ saver' = "walk"
  /\ saverIt' = 0
  /\ written' = Empty
  /\ \/ disk' = Empty /\ fileFails' = FALSE
     \/ UNCHANGED disk /\ fileFails' = TRUE
  /\ UNCHANGED <<authData, updateAuthDB, authUpdating, astray, saverBuf>>

(* The records the iterator has still to reach. *)
Ahead == {k \in Keys : k > saverIt /\ authData[k] # NoAccount}

(* ++it *)
SaveNext ==
  /\ saver = "walk"
  /\ \E k \in Ahead :
       /\ \A j \in Ahead : k <= j
       /\ saverIt' = k
  /\ saver' = "key"
  /\ UNCHANGED <<authData, updateAuthDB, authUpdating, astray, saverBuf, written, disk, fileFails>>

(* strncpy of it->first: of any bytes, if the record has been erased. *)
SaveKey ==
  /\ saver = "key"
  /\ \E k \in Keys :
       /\ astray \/ k = saverIt
       /\ saverBuf' = [key |-> k, acc |-> NoAccount]
  /\ saver' = "account"
  /\ UNCHANGED <<authData, updateAuthDB, authUpdating, saverIt, astray, written, disk, fileFails>>

(* What the save thread may take for an account: the one its iterator      *)
(* stands on or, once astray, whatever freed memory holds, another record  *)
(* included.                                                               *)
Copied ==
  IF astray THEN Debris \cup {authData[k] : k \in {j \in Keys : authData[j] # NoAccount}}
            ELSE {authData[saverIt]}

(* memcpy of it->second *)
SaveAccount ==
  /\ saver = "account"
  /\ \E acc \in Copied : saverBuf' = [saverBuf EXCEPT !.acc = acc]
  /\ saver' = "write"
  /\ UNCHANGED <<authData, updateAuthDB, authUpdating, saverIt, astray, written, disk, fileFails>>

(***************************************************************************)
(* file.write: the stream may keep the record in its buffer or pass on     *)
(* what it holds, up to this record or into the middle of it (initAuthData *)
(* ignores the broken end).  If a disturbed walk meets a key twice the     *)
(* file gets two records, of which initAuthData keeps the first.  What a   *)
(* stream holds when it fails, and is given from then on, is lost; what it *)
(* had passed on before is in the file.                                    *)
(***************************************************************************)
SaveWrite ==
  /\ saver = "write"
  /\ \/ /\ ~fileFails
        /\ written' = IF written[saverBuf.key] = NoAccount
                        THEN [written EXCEPT ![saverBuf.key] = saverBuf.acc]
                        ELSE written
        /\ disk' \in {disk, written, written'}
        /\ UNCHANGED fileFails
     \/ fileFails' = TRUE /\ written' = Empty /\ UNCHANGED disk
  /\ saver' = "walk"
  /\ UNCHANGED <<authData, updateAuthDB, authUpdating, saverIt, astray, saverBuf>>

(* it == authData.end(); file.close(), and nothing is left of the walk. *)
SaveClose ==
  /\ saver = "walk"
  /\ Ahead = {}
  /\ \/ ~fileFails /\ disk' = written /\ UNCHANGED fileFails
     \/ fileFails' = TRUE /\ UNCHANGED disk
  /\ saver' = "done"
  /\ saverIt' = 0 /\ astray' = FALSE /\ saverBuf' = NoRecord /\ written' = Empty
  /\ UNCHANGED <<authData, updateAuthDB, authUpdating>>

saveAuthData ==
  SaveOpen \/ SaveNext \/ SaveKey \/ SaveAccount \/ SaveWrite \/ SaveClose

-----------------------------------------------------------------------------
(* The process ends at any point; the next one starts with initAuthData. *)
initAuthData ==
  /\ authData' = disk
  /\ updateAuthDB' = 0
  /\ authUpdating' = FALSE
  /\ saver' = "none"
  /\ saverIt' = 0
  /\ astray' = FALSE
  /\ saverBuf' = NoRecord
  /\ written' = Empty
  /\ fileFails' = FALSE
  /\ UNCHANGED disk

AccountChange ==
  \E login \in Logins :
    \/ authLock(login)
    \/ authDelete(login)
    \/ \E pass \in Passwords :
         authRegister(login, pass) \/ authChangePass(login, pass)

StoreNext ==
  \/ AccountChange
  \/ updateAuthDBProcess
  \/ saveAuthData
  \/ initAuthData

StoreSpec == StoreInit /\ [][StoreNext]_storeVars

(***************************************************************************)
(* The GUI update runs on every iteration of the game's main loop and the  *)
(* save thread waits for nobody.  Nobody owes a change or a restart.       *)
(***************************************************************************)
StoreFairSpec ==
  /\ StoreSpec
  /\ WF_storeVars(updateAuthDBProcess)
  /\ WF_storeVars(saveAuthData)

-----------------------------------------------------------------------------
(***************************************************************************)
(* When no change is queued, the file holds exactly the table in memory:   *)
(* whatever raced with earlier saves, and however they failed, the last    *)
(* one was started after the last change and ran undisturbed; unless the   *)
(* stream of that very save failed (authManager.cpp, 736-747, 190-204).    *)
(***************************************************************************)
QuiescentDurable == updateAuthDB = 0 => disk = authData \/ fileFails

(***************************************************************************)
(* Why: a save that races with a change is followed by another one, for    *)
(* the change left its own entry in the queue.  With a single entry left   *)
(* the save under way has met no change, so it is not astray and what it   *)
(* has copied and written is the table up to its iterator.                 *)
(***************************************************************************)
LastSaveIsExact ==
  updateAuthDB = 1 /\ authUpdating /\ ~fileFails =>
    /\ ~astray
    /\ saver = "walk" => \A k \in Keys :
         written[k] = IF k <= saverIt THEN authData[k] ELSE NoAccount
    /\ saver \in {"key", "account", "write"} => \A k \in Keys :
         written[k] = IF k < saverIt THEN authData[k] ELSE NoAccount
    /\ saver \in {"account", "write"} => saverBuf.key = saverIt
    /\ saver = "write" => saverBuf.acc = authData[saverIt]
    /\ saver = "done" => disk = authData

(* Unless it is astray, the save thread reads a record of the table. *)
ReadsRecord ==
  /\ astray => Iterating
  /\ ~astray /\ saver \in {"key", "account", "write"} =>
       saverIt \in Keys /\ authData[saverIt] # NoAccount

(* One save thread at a time, and an entry in the queue for it to pop. *)
OneSaver ==
  /\ authUpdating <=> saver # "none"
  /\ authUpdating => updateAuthDB > 0

StoreInv ==
  StoreTypeOK /\ OneSaver /\ ReadsRecord /\ LastSaveIsExact /\ QuiescentDurable

(***************************************************************************)
(* The save thread reads a record's key and its account apart from each    *)
(* other, and authDelete may free the record in between (196, 197, 289):   *)
(* such a save files an account under another's key.  It gets into the     *)
(* table only from a file whose save was still owed or had failed: no      *)
(* operation files a record wrongly, and a program that restarts with      *)
(* nothing left to save comes back with every record under its own key.    *)
(***************************************************************************)
FiledUnderOwnKey ==
  [][Filed(authData) /\ ~Filed(authData)'
       => initAuthData /\ (updateAuthDB > 0 \/ fileFails)]_storeVars

(***************************************************************************)
(* An account changes hands only by being deleted: no operation of one     *)
(* login takes over the record of another that shares its key.  (A restart  *)
(* may bring back an earlier owner, with the earlier file.)                *)
(***************************************************************************)
OwnerStable ==
  [][initAuthData \/ \A k \in Keys :
       authData[k] # NoAccount /\ authData'[k] # NoAccount
         => authData'[k].login = authData[k].login]_authData

(***************************************************************************)
(* Once accounts stop changing (and the program stops restarting) the file *)
(* catches up with the table for good: no change is left unsaved, unless   *)
(* the last save failed or the thread of a save could not be made, after   *)
(* which there are no saves any more (743).                                *)
(***************************************************************************)
EventuallyDurable ==
  <>[][~AccountChange /\ ~initAuthData]_storeVars =>
    <>[](disk = authData \/ fileFails \/ saver = "failed")

(* The promise this keeps: it is settled when no change is queued and the  *)
(* last save went well.                                                    *)
Promised == INSTANCE AccountTable
  WITH Records <- account, NoRecord <- NoAccount,
       table <- authData, saved <- disk, settled <- (updateAuthDB = 0 /\ ~fileFails)

(***************************************************************************)
(* The asynchronous save, with all its races, is an account table as the   *)
(* operator sees one: changed record by record, settled only on a file     *)
(* equal to it, restarted from the file and nothing else.                  *)
(***************************************************************************)
ImplementsAccountTable == Promised!Spec
=============================================================================
