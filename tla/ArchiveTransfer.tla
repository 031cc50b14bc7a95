--------------------------- MODULE ArchiveTransfer ---------------------------
(***************************************************************************)
(* A map and the archive that goes with it (src/filesystem.cpp).  The      *)
(* server appends the archive to the map it sends and tells the client     *)
(* first how long the map alone is; the client, which receives one stream  *)
(* of chunks, closes the map's file where the map ends and goes on in the  *)
(* archive's.                                                              *)
(*                                                                         *)
(* A byte is known by its position in the stream.  The game is external:   *)
(* it sets mapFileSizeServ to the size of the map before it asks for       *)
(* memory, delivers packets and chunks in order, and takes a map that is   *)
(* sent for longer than it lasts for nothing.  A server without UniMod     *)
(* sends its map alone and announces nothing.                              *)
(***************************************************************************)
EXTENDS Integers, Sequences

CONSTANTS
  Maps,
  MapSize,      \* of the map's file
  Archived,     \* the maps that have an archive
  ArchiveSize,  \* of the archive's file
  MaxChunk,     \* the longest chunk the game makes
  NoMap, NoFile

ASSUME TransferAssumption ==
  /\ MapSize \in [Maps -> Nat \ {0}]
  /\ Archived \subseteq Maps
  /\ ArchiveSize \in [Archived -> Nat]
  /\ MaxChunk \in Nat
  /\ NoMap \notin Maps
  /\ NoFile \notin Seq(Nat)

VARIABLES
  servMap,           \* the server: the map it has prepared
  servArchiveSize,
  mapFileSizeServ,   \* how much it will send
  phase,             \* the client: "idle", "announced", "receiving", "done"
  source, total,     \* the map that is being sent, and how much with it
  received,          \* how much of it has come
  cliMapSize,
  CurrentSize,
  mapFileHandle,     \* the file behind it: "map", "archive", "none"
  files,             \* what this transfer has made of either
  spoilt             \* history: see below

serverVars == <<servMap, servArchiveSize, mapFileSizeServ>>
streamVars == <<phase, source, total, received>>
clientVars == <<cliMapSize, CurrentSize, mapFileHandle, files>>
transferVars == <<serverVars, streamVars, clientVars, spoilt>>

Receiving == phase \in {"receiving", "done"}

TransferTypeOK ==
  /\ servMap \in Maps \cup {NoMap}
  /\ servArchiveSize \in Nat /\ mapFileSizeServ \in Nat
  /\ phase \in {"idle", "announced", "receiving", "done"}
  /\ source \in Maps \cup {NoMap}
  /\ total \in Nat /\ received \in 0 .. total
  /\ cliMapSize \in Int
  /\ CurrentSize \in Nat /\ (Receiving => CurrentSize <= total)
  /\ mapFileHandle \in {"map", "archive", "none"}
  /\ files \in [{"map", "archive"} -> Seq(Nat) \cup {NoFile}]
  /\ spoilt \in BOOLEAN

TransferInit ==
  /\ servMap = NoMap /\ servArchiveSize = 0 /\ mapFileSizeServ = 0
  /\ phase = "idle" /\ source = NoMap /\ total = 0 /\ received = 0
  /\ cliMapSize = 0 /\ CurrentSize = 0
  /\ mapFileHandle = "none"
  /\ files = [f \in {"map", "archive"} |-> NoFile]
  /\ spoilt = FALSE

(* n bytes of the stream, from the one after position p. *)
Chunk(p, n) == [j \in 1 .. n |-> p + j]

-----------------------------------------------------------------------------
(* The server. *)

(* The game loads a map that it will send.  No transfer is under way. *)
serverTransferPrepair(m) ==
  /\ phase \in {"idle", "done"}
  /\ servMap' = m
  /\ \/ /\ m \in Archived
        /\ servArchiveSize' = ArchiveSize[m]
        /\ mapFileSizeServ' = MapSize[m] + ArchiveSize[m]
     \/ /\ m \notin Archived
        /\ mapFileSizeServ' = MapSize[m]
        /\ UNCHANGED servArchiveSize
  /\ UNCHANGED <<streamVars, clientVars, spoilt>>

Offer(m, size) ==
  /\ phase \in {"idle", "done"}
  /\ phase' = "announced"
  /\ source' = m /\ total' = size /\ received' = 0
  /\ UNCHANGED <<serverVars, CurrentSize, mapFileHandle, files>>

netOnSendArchive(size) == cliMapSize' = size

(* The announcement overtakes nothing.  Spoilt: the server still has the   *)
(* size of an earlier map's archive, and the one told is short by it.      *)
serverTransferStart ==
  /\ servMap # NoMap
  /\ Offer(servMap, mapFileSizeServ)
  /\ netOnSendArchive(mapFileSizeServ - servArchiveSize)
  /\ spoilt' = (servMap \notin Archived /\ servArchiveSize # 0)

(* Spoilt: the client still has the size of an earlier map. *)
OtherServerStarts(m) ==
  /\ Offer(m, MapSize[m])
  /\ UNCHANGED cliMapSize
  /\ spoilt' = (cliMapSize > 0)

-----------------------------------------------------------------------------
(* The client. *)

clientOpenFile ==
  /\ phase = "announced" /\ phase' = "receiving"
  /\ CurrentSize' = 0
  /\ mapFileHandle' = "map"
  /\ files' = [map |-> <<>>, archive |-> NoFile]
  /\ UNCHANGED <<serverVars, source, total, received, cliMapSize, spoilt>>

(* Mutant: a chunk that fills the map is cut behind its last byte. *)
CutsEarly(n) == cliMapSize > 0 /\ CurrentSize + n >= cliMapSize

(* The chunk goes beyond the map. *)
Cuts(n) == cliMapSize > 0 /\ CurrentSize + n > cliMapSize

WriteWhole(n) ==
  /\ files' = [files EXCEPT ![mapFileHandle] = @ \o Chunk(received, n)]
  /\ CurrentSize' = CurrentSize + n
  /\ UNCHANGED <<cliMapSize, mapFileHandle, spoilt>>

(* The rest is written to the stream that has just been closed: to the     *)
(* archive if fopen took the same one for it, to nowhere if it took        *)
(* another that had become free meanwhile.                                 *)
WriteCut(n) ==
  LET DSize == cliMapSize - CurrentSize
      Rest  == n - DSize
  IN  /\ \E same \in BOOLEAN :
           /\ files' =
                [files EXCEPT
                  ![mapFileHandle] = @ \o Chunk(received, DSize),
                  !["archive"] = IF same THEN Chunk(received + DSize, Rest) ELSE <<>>]
           /\ spoilt' = (spoilt \/ ~same)
      /\ CurrentSize' = CurrentSize + Rest
      /\ cliMapSize' = 0
      /\ mapFileHandle' = "archive"

clientWriteChunk(n) ==
  /\ phase = "receiving" /\ received + n <= total
  /\ received' = received + n
  /\ IF Cuts(n) THEN WriteCut(n) ELSE WriteWhole(n)
  /\ UNCHANGED <<serverVars, phase, source, total>>

(* The game closes the file, whichever it is by now. *)
Finish ==
  /\ phase = "receiving" /\ received = total
  /\ phase' = "done"
  /\ mapFileHandle' = "none"
  /\ UNCHANGED <<serverVars, source, total, received, cliMapSize, CurrentSize, files, spoilt>>

(* The connection is lost, or the user leaves. *)
BreakOff ==
  /\ phase \in {"announced", "receiving"} /\ phase' = "idle"
  /\ mapFileHandle' = "none"
  /\ UNCHANGED <<serverVars, source, total, received, cliMapSize, CurrentSize, files, spoilt>>

(* Packet 186, which onNetPacket passes on to the game. *)
netOnAbortDownload ==
  /\ phase' = IF phase = "done" THEN "done" ELSE "idle"
  /\ cliMapSize' = 0
  /\ mapFileHandle' = "none"
  /\ UNCHANGED <<serverVars, source, total, received, CurrentSize, files, spoilt>>

TransferNext ==
  \/ \E m \in Maps : serverTransferPrepair(m) \/ OtherServerStarts(m)
  \/ serverTransferStart
  \/ clientOpenFile
  \/ \E n \in 1 .. MaxChunk : clientWriteChunk(n)
  \/ Finish
  \/ BreakOff
  \/ netOnAbortDownload

TransferSpec == TransferInit /\ [][TransferNext]_transferVars

-----------------------------------------------------------------------------
(***************************************************************************)
(* However the stream is cut into chunks, what has come is cut where the   *)
(* map ends: the map's file is the map, up to what has come, and there is  *)
(* an archive as soon as a byte of it has come and not before.  A transfer *)
(* that is done therefore leaves the server's files, and no archive if     *)
(* there was none.                                                         *)
(***************************************************************************)
SplitAtMapEnd ==
  LET size == MapSize[source]
  IN  Receiving /\ ~spoilt =>
        /\ files["map"] = Chunk(0, IF received < size THEN received ELSE size)
        /\ files["archive"] =
             IF received <= size THEN NoFile ELSE Chunk(size, received - size)
        /\ phase = "done" => received = total

(***************************************************************************)
(* The comments at filesystem.cpp 340 ("the size of the map's file") and   *)
(* 476 ("the size of the map alone"): a size the client goes by is that of *)
(* the map it is sent.                                                     *)
(***************************************************************************)
ToldMapSize == phase = "receiving" /\ cliMapSize > 0 => cliMapSize = MapSize[source]
=============================================================================
