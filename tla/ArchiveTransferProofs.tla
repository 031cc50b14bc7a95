------------------------ MODULE ArchiveTransferProofs -------------------------
(***************************************************************************)
(* Proofs about ArchiveTransfer for maps, archives and chunks of any size. *)
(***************************************************************************)
EXTENDS ArchiveTransfer, SequenceTheorems, TLAPS

(* A chunk can be written while the client receives. *)
CursorInv == phase = "receiving" =>
  /\ mapFileHandle \in {"map", "archive"}
  /\ files[mapFileHandle] \in Seq(Nat)
  /\ CurrentSize <= received
  /\ cliMapSize > 0 => CurrentSize <= cliMapSize

(* What the server has prepared. *)
PreparedInv == servMap # NoMap =>
  /\ servMap \in Archived =>
       /\ mapFileSizeServ = MapSize[servMap] + ArchiveSize[servMap]
       /\ servArchiveSize = ArchiveSize[servMap]
  /\ servMap \notin Archived => mapFileSizeServ = MapSize[servMap]

(* The client has the right size, or none and needs none. *)
SizeFits ==
  /\ source \in Maps
  /\ \/ cliMapSize = MapSize[source] /\ MapSize[source] <= total
     \/ cliMapSize <= 0 /\ MapSize[source] = total

(* On which side of the map's end the client is. *)
InMap ==
  /\ SizeFits
  /\ received <= MapSize[source] /\ CurrentSize = received /\ mapFileHandle = "map"

InArchive ==
  /\ source \in Maps /\ MapSize[source] < received
  /\ cliMapSize = 0 /\ mapFileHandle = "archive"

SideInv ==
  /\ phase = "announced" /\ ~spoilt => SizeFits /\ received = 0
  /\ phase = "receiving" /\ ~spoilt => InMap \/ InArchive

TransferIInv == TransferTypeOK /\ SplitAtMapEnd /\ CursorInv /\ PreparedInv /\ SideInv

-----------------------------------------------------------------------------
LEMMA ChunkType ==
  ASSUME NEW p \in Nat, NEW n \in Nat
  PROVE  Chunk(p, n) \in Seq(Nat) /\ Len(Chunk(p, n)) = n
<1>1. Chunk(p, n) \in [1 .. n -> Nat]
  BY DEF Chunk
<1> QED BY <1>1, SeqDef, LenProperties

(* What is written one after the other is one piece. *)
LEMMA ChunksJoin ==
  ASSUME NEW p \in Nat, NEW n \in Nat, NEW k \in Nat
  PROVE  Chunk(p, n) \o Chunk(p + n, k) = Chunk(p, n + k)
<1> DEFINE a == Chunk(p, n)
           b == Chunk(p + n, k)
           c == Chunk(p, n + k)
<1>1. /\ a \in Seq(Nat) /\ Len(a) = n
      /\ b \in Seq(Nat) /\ Len(b) = k
      /\ c \in Seq(Nat) /\ Len(c) = n + k
  BY ChunkType
<1>2. /\ \A j \in 1 .. n : a[j] = p + j
      /\ \A j \in 1 .. k : b[j] = p + n + j
      /\ \A j \in 1 .. n + k : c[j] = p + j
  BY DEF Chunk
<1> HIDE DEF a, b, c
<1>3. /\ a \o b \in Seq(Nat) /\ Len(a \o b) = n + k
      /\ \A j \in 1 .. n + k : (a \o b)[j] = IF j <= n THEN a[j] ELSE b[j - n]
  BY <1>1, ConcatProperties
<1>4. ASSUME NEW j \in 1 .. n + k PROVE (a \o b)[j] = c[j]
  <2>1. CASE j <= n
    <3>1. (a \o b)[j] = a[j] /\ j \in 1 .. n
      BY <1>3, <2>1
    <3> QED BY <1>2, <3>1
  <2>2. CASE ~(j <= n)
    <3>1. j \in Nat /\ j - n \in 1 .. k /\ p + n + (j - n) = p + j
      BY <2>2
    <3>2. (a \o b)[j] = b[j - n]
      BY <1>3, <2>2
    <3>3. b[j - n] = p + n + (j - n)
      BY <1>2, <3>1
    <3> QED BY <1>2, <3>1, <3>2, <3>3
  <2> QED BY <2>1, <2>2
<1>5. a \o b = c
  <2> DEFINE ab == a \o b
  <2>1. ab \in Seq(Nat) /\ c \in Seq(Nat) /\ Len(ab) = Len(c)
    BY <1>1, <1>3
  <2>2. \A j \in 1 .. Len(ab) : ab[j] = c[j]
    BY <1>3, <1>4
  <2> HIDE DEF ab
  <2>3. ab = c
    BY <2>1, <2>2, SeqEqual
  <2> QED BY <2>3 DEF ab
<1> QED BY <1>5 DEF a, b, c

LEMMA EmptyChunk == ASSUME NEW p \in Nat PROVE Chunk(p, 0) = <<>>
<1>1. Chunk(p, 0) \in Seq(Nat) /\ Len(Chunk(p, 0)) = 0
  BY ChunkType
<1> QED BY <1>1, EmptySeq

-----------------------------------------------------------------------------
LEMMA InitKeeps == TransferInit => TransferIInv
<1> SUFFICES ASSUME TransferInit PROVE TransferIInv
  OBVIOUS
<1>1. TransferTypeOK
  <2>1. files \in [{"map", "archive"} -> Seq(Nat) \cup {NoFile}]
    BY DEF TransferInit
  <2>2. received \in 0 .. total /\ (Receiving => CurrentSize <= total)
    BY DEF TransferInit, Receiving
  <2>3. spoilt \in BOOLEAN
    BY DEF TransferInit
  <2>4. /\ servMap \in Maps \cup {NoMap} /\ source \in Maps \cup {NoMap}
        /\ servArchiveSize \in Nat /\ mapFileSizeServ \in Nat
        /\ phase \in {"idle", "announced", "receiving", "done"}
        /\ total \in Nat /\ cliMapSize \in Int /\ CurrentSize \in Nat
        /\ mapFileHandle \in {"map", "archive", "none"}
    BY DEF TransferInit
  <2> QED BY <2>1, <2>2, <2>3, <2>4 DEF TransferTypeOK
<1>2. SplitAtMapEnd /\ CursorInv /\ PreparedInv /\ SideInv
  BY DEF TransferInit, SplitAtMapEnd, Receiving, CursorInv, PreparedInv, SideInv
<1> QED BY <1>1, <1>2 DEF TransferIInv

LEMMA PrepareKeeps ==
  ASSUME TransferIInv, NEW m \in Maps, serverTransferPrepair(m)
  PROVE  TransferIInv'
<1> USE TransferAssumption DEF TransferAssumption
<1>1. TransferTypeOK'
  BY DEF TransferIInv, TransferTypeOK, Receiving, serverTransferPrepair, streamVars, clientVars
<1>2. SplitAtMapEnd' /\ CursorInv' /\ SideInv'
  BY DEF TransferIInv, SplitAtMapEnd, Receiving, CursorInv, SideInv, serverTransferPrepair,
         streamVars, clientVars
<1>3. PreparedInv'
  BY DEF PreparedInv, serverTransferPrepair
<1> QED BY <1>1, <1>2, <1>3 DEF TransferIInv

LEMMA StartKeeps ==
  ASSUME TransferIInv, serverTransferStart
  PROVE  TransferIInv'
<1> USE TransferAssumption DEF TransferAssumption
<1>1. /\ servMap \in Maps /\ mapFileSizeServ \in Nat /\ servArchiveSize \in Nat
      /\ phase' = "announced" /\ source' = servMap /\ total' = mapFileSizeServ /\ received' = 0
      /\ cliMapSize' = mapFileSizeServ - servArchiveSize
      /\ spoilt' = (servMap \notin Archived /\ servArchiveSize # 0)
      /\ UNCHANGED <<serverVars, CurrentSize, mapFileHandle, files>>
  BY DEF TransferIInv, TransferTypeOK, serverTransferStart, Offer, netOnSendArchive
<1>2. TransferTypeOK'
  BY <1>1 DEF TransferIInv, TransferTypeOK, Receiving, serverVars
<1>3. SplitAtMapEnd' /\ CursorInv' /\ PreparedInv'
  BY <1>1 DEF TransferIInv, SplitAtMapEnd, Receiving, CursorInv, PreparedInv, serverVars
<1>4. ASSUME ~spoilt' PROVE SizeFits'
  <2>1. CASE servMap \in Archived
    <3>1. mapFileSizeServ = MapSize[servMap] + ArchiveSize[servMap] /\ servArchiveSize = ArchiveSize[servMap]
      BY <1>1, <2>1 DEF TransferIInv, PreparedInv
    <3>2. MapSize[servMap] \in Nat /\ ArchiveSize[servMap] \in Nat
      BY <1>1, <2>1
    <3>3. cliMapSize' = MapSize[servMap] /\ MapSize[servMap] <= total'
      BY <1>1, <3>1, <3>2
    <3> QED BY <1>1, <3>3 DEF SizeFits
  <2>2. CASE servMap \notin Archived
    <3>1. mapFileSizeServ = MapSize[servMap] /\ servArchiveSize = 0
      BY <1>1, <1>4, <2>2 DEF TransferIInv, PreparedInv
    <3> QED BY <1>1, <3>1 DEF SizeFits
  <2> QED BY <2>1, <2>2
<1>5. SideInv'
  BY <1>1, <1>4 DEF SideInv
<1> QED BY <1>2, <1>3, <1>5 DEF TransferIInv

LEMMA OtherServerKeeps ==
  ASSUME TransferIInv, NEW m \in Maps, OtherServerStarts(m)
  PROVE  TransferIInv'
<1> USE TransferAssumption DEF TransferAssumption
<1>1. /\ phase' = "announced" /\ source' = m /\ total' = MapSize[m] /\ received' = 0
      /\ MapSize[m] \in Nat /\ cliMapSize' = cliMapSize /\ cliMapSize \in Int
      /\ spoilt' = (cliMapSize > 0)
      /\ UNCHANGED <<serverVars, CurrentSize, mapFileHandle, files>>
  BY DEF TransferIInv, TransferTypeOK, OtherServerStarts, Offer
<1>2. TransferTypeOK'
  BY <1>1 DEF TransferIInv, TransferTypeOK, Receiving, serverVars
<1>3. SplitAtMapEnd' /\ CursorInv' /\ PreparedInv'
  BY <1>1 DEF TransferIInv, SplitAtMapEnd, Receiving, CursorInv, PreparedInv, serverVars
<1>4. ASSUME ~spoilt' PROVE SizeFits'
  <2>1. ~(cliMapSize > 0)
    BY <1>1, <1>4
  <2>2. cliMapSize' <= 0
    BY <1>1, <2>1
  <2>3. source' \in Maps /\ MapSize[source'] = total'
    BY <1>1
  <2> QED BY <2>2, <2>3 DEF SizeFits
<1>5. SideInv'
  BY <1>1, <1>4 DEF SideInv
<1> QED BY <1>2, <1>3, <1>5 DEF TransferIInv

LEMMA OpenKeeps ==
  ASSUME TransferIInv, clientOpenFile
  PROVE  TransferIInv'
<1> USE TransferAssumption DEF TransferAssumption
<1>1. /\ phase = "announced" /\ phase' = "receiving"
      /\ CurrentSize' = 0 /\ mapFileHandle' = "map"
      /\ files' = [map |-> <<>>, archive |-> NoFile]
      /\ UNCHANGED <<serverVars, source, total, received, cliMapSize, spoilt>>
  BY DEF clientOpenFile
<1>2. files'["map"] = <<>> /\ files'["archive"] = NoFile /\ <<>> \in Seq(Nat)
      /\ files' \in [{"map", "archive"} -> Seq(Nat) \cup {NoFile}]
  <2>1. <<>> \in Seq(Nat)
    OBVIOUS
  <2>2. files' = [f \in {"map", "archive"} |-> IF f = "map" THEN <<>> ELSE NoFile]
    BY <1>1
  <2> QED BY <2>1, <2>2
<1>3. TransferTypeOK'
  BY <1>1, <1>2 DEF TransferIInv, TransferTypeOK, Receiving, serverVars
<1>4. CursorInv' /\ PreparedInv'
  BY <1>1, <1>2 DEF TransferIInv, TransferTypeOK, CursorInv, PreparedInv, serverVars
<1>5. ASSUME ~spoilt'
      PROVE  InMap' /\ received = 0 /\ source \in Maps /\ MapSize[source] \in Nat \ {0}
  BY <1>1, <1>5 DEF TransferIInv, SideInv, InMap, SizeFits
<1>6. SplitAtMapEnd'
  BY <1>1, <1>2, <1>5, EmptyChunk DEF SplitAtMapEnd, Receiving
<1>7. SideInv'
  BY <1>1, <1>5 DEF SideInv
<1> QED BY <1>3, <1>4, <1>6, <1>7 DEF TransferIInv

LEMMA EndKeeps ==
  ASSUME TransferIInv, Finish \/ BreakOff \/ netOnAbortDownload
  PROVE  TransferIInv'
<1>1. /\ UNCHANGED <<serverVars, source, total, received, CurrentSize, files, spoilt>>
      /\ mapFileHandle' = "none" /\ cliMapSize' \in {cliMapSize, 0}
      /\ phase' \in {"idle", "done"}
      /\ phase' = "done" => phase = "done" \/ (phase = "receiving" /\ received = total)
  BY DEF TransferIInv, TransferTypeOK, Finish, BreakOff, netOnAbortDownload
<1>2. TransferTypeOK'
  BY <1>1 DEF TransferIInv, TransferTypeOK, Receiving, serverVars
<1>3. SplitAtMapEnd'
  BY <1>1 DEF TransferIInv, SplitAtMapEnd, Receiving
<1>4. CursorInv' /\ PreparedInv' /\ SideInv'
  BY <1>1 DEF TransferIInv, CursorInv, PreparedInv, SideInv, serverVars
<1> QED BY <1>2, <1>3, <1>4 DEF TransferIInv

-----------------------------------------------------------------------------
LEMMA WholeKeeps ==
  ASSUME TransferIInv, NEW n \in Nat, clientWriteChunk(n), ~Cuts(n)
  PROVE  TransferIInv'
<1> USE TransferAssumption DEF TransferAssumption
<1> DEFINE h == mapFileHandle
           data == Chunk(received, n)
<1>1. /\ phase = "receiving" /\ received + n <= total /\ received' = received + n
      /\ files' = [files EXCEPT ![h] = @ \o data]
      /\ CurrentSize' = CurrentSize + n
      /\ UNCHANGED <<serverVars, phase, source, total, cliMapSize, mapFileHandle, spoilt>>
  BY DEF clientWriteChunk, WriteWhole
<1>2. /\ received \in Nat /\ total \in Nat /\ CurrentSize \in Nat /\ cliMapSize \in Int
      /\ files \in [{"map", "archive"} -> Seq(Nat) \cup {NoFile}]
      /\ h \in {"map", "archive"} /\ files[h] \in Seq(Nat) /\ CurrentSize <= received
      /\ cliMapSize > 0 => CurrentSize + n <= cliMapSize
  BY <1>1 DEF TransferIInv, TransferTypeOK, CursorInv, Cuts
<1>3. data \in Seq(Nat)
  BY <1>2, ChunkType
<1> HIDE DEF data, h
<1>4. /\ files'[h] = files[h] \o data /\ files'[h] \in Seq(Nat)
      /\ \A f \in {"map", "archive"} : f # h => files'[f] = files[f]
      /\ files' \in [{"map", "archive"} -> Seq(Nat) \cup {NoFile}]
  <2>1. files[h] \o data \in Seq(Nat)
    BY <1>2, <1>3, ConcatProperties
  <2> QED BY <1>1, <1>2, <2>1
<1>5. TransferTypeOK'
  BY <1>1, <1>2, <1>4 DEF TransferIInv, TransferTypeOK, Receiving, serverVars
<1>6. CursorInv' /\ PreparedInv'
  BY <1>1, <1>2, <1>4 DEF TransferIInv, CursorInv, PreparedInv, serverVars, h
<1>7. ASSUME ~spoilt' PROVE (InMap \/ InArchive)' /\ SplitAtMapEnd'
  <2> DEFINE size == MapSize[source]
  <2>1. (InMap \/ InArchive) /\ SplitAtMapEnd /\ ~spoilt /\ source \in Maps /\ size \in Nat \ {0}
    BY <1>1, <1>7 DEF TransferIInv, SideInv, InMap, SizeFits, InArchive
  <2>2. CASE InMap
    <3>1. /\ h = "map" /\ CurrentSize = received /\ received + n <= size
      BY <1>1, <1>2, <2>1, <2>2 DEF InMap, SizeFits, h
    <3>2. InMap'
      BY <1>1, <2>2, <3>1 DEF InMap, SizeFits, h
    <3>3. files["map"] = Chunk(0, received) /\ files["archive"] = NoFile
      BY <1>1, <1>2, <2>1, <3>1 DEF SplitAtMapEnd, Receiving
    <3>4. Chunk(0, received) \o Chunk(0 + received, n) = Chunk(0, received + n)
      BY <1>2, ChunksJoin
    <3>5. 0 + received = received
      BY <1>2
    <3>6. files'["map"] = Chunk(0, received + n)
      BY <1>4, <3>1, <3>3, <3>4, <3>5 DEF data
    <3>7. files'["archive"] = NoFile
      BY <1>4, <3>1, <3>3
    <3>8. /\ (IF received' < size THEN received' ELSE size) = received + n
          /\ received' <= size
      <4> HIDE DEF size
      <4>1. received' = received + n /\ received + n \in Nat /\ size \in Nat /\ received + n <= size
        BY <1>1, <1>2, <2>1, <3>1
      <4> QED BY <4>1
    <3>9. SplitAtMapEnd'
      BY <1>1, <3>6, <3>7, <3>8 DEF SplitAtMapEnd
    <3> QED BY <3>2, <3>9
  <2>3. CASE InArchive
    <3>1. h = "archive" /\ size < received
      BY <2>3 DEF InArchive, h
    <3>2. InArchive'
      BY <1>1, <1>2, <2>1, <2>3, <3>1 DEF InArchive
    <3>3. files["map"] = Chunk(0, size) /\ files["archive"] = Chunk(size, received - size)
      BY <1>1, <1>2, <2>1, <3>1 DEF SplitAtMapEnd, Receiving
    <3>4. Chunk(size, received - size) \o Chunk(received, n) = Chunk(size, received + n - size)
      <4> DEFINE k == received - size
      <4>1. k \in Nat /\ size + k = received /\ k + n = received + n - size
        BY <1>2, <2>1, <3>1
      <4> HIDE DEF k
      <4>2. Chunk(size, k) \o Chunk(size + k, n) = Chunk(size, k + n)
        BY <2>1, <4>1, ChunksJoin
      <4> QED BY <4>1, <4>2 DEF k
    <3>5. files'["map"] = Chunk(0, size) /\ files'["archive"] = Chunk(size, received + n - size)
      BY <1>4, <3>1, <3>3, <3>4 DEF data
    <3>6. SplitAtMapEnd'
      BY <1>1, <1>2, <2>1, <3>1, <3>5 DEF SplitAtMapEnd
    <3> QED BY <3>2, <3>6
  <2> QED BY <2>1, <2>2, <2>3
<1>8. SideInv' /\ SplitAtMapEnd'
  BY <1>1, <1>7 DEF SideInv, SplitAtMapEnd, Receiving
<1> QED BY <1>5, <1>6, <1>8 DEF TransferIInv

LEMMA CutKeeps ==
  ASSUME TransferIInv, NEW n \in Nat, clientWriteChunk(n), Cuts(n)
  PROVE  TransferIInv'
<1> USE TransferAssumption DEF TransferAssumption
<1> DEFINE h     == mapFileHandle
           DSize == cliMapSize - CurrentSize
           Rest  == n - DSize
           front == Chunk(received, DSize)
<1>1. PICK same \in BOOLEAN :
        /\ files' = [files EXCEPT
                      ![h] = @ \o front,
                      !["archive"] = IF same THEN Chunk(received + DSize, Rest) ELSE <<>>]
        /\ spoilt' = (spoilt \/ ~same)
  BY DEF clientWriteChunk, WriteCut
<1> DEFINE back == IF same THEN Chunk(received + DSize, Rest) ELSE <<>>
<1>2. /\ phase = "receiving" /\ received + n <= total /\ received' = received + n
      /\ CurrentSize' = CurrentSize + Rest
      /\ cliMapSize' = 0 /\ mapFileHandle' = "archive"
      /\ UNCHANGED <<serverVars, phase, source, total>>
  BY DEF clientWriteChunk, WriteCut
<1>3. /\ received \in Nat /\ total \in Nat /\ CurrentSize \in Nat /\ cliMapSize \in Int
      /\ files \in [{"map", "archive"} -> Seq(Nat) \cup {NoFile}]
      /\ h \in {"map", "archive"} /\ files[h] \in Seq(Nat) /\ CurrentSize <= received
      /\ DSize \in Nat /\ Rest \in Nat \ {0} /\ DSize + Rest = n
  BY <1>2 DEF TransferIInv, TransferTypeOK, CursorInv, Cuts
<1>4. front \in Seq(Nat) /\ back \in Seq(Nat)
  <2>1. received + DSize \in Nat /\ Rest \in Nat
    BY <1>3
  <2>2. <<>> \in Seq(Nat)
    OBVIOUS
  <2> HIDE DEF DSize, Rest
  <2> QED BY <1>3, <2>1, <2>2, ChunkType
<1>5. files' = [files EXCEPT ![h] = @ \o front, !["archive"] = back]
  BY <1>1
<1> HIDE DEF front, back, h, DSize, Rest
<1>6. files[h] \o front \in Seq(Nat)
  BY <1>3, <1>4, ConcatProperties
<1>7. /\ files' \in [{"map", "archive"} -> Seq(Nat) \cup {NoFile}]
      /\ files'["archive"] = back
      /\ h = "map" => files'["map"] = files["map"] \o front
  BY <1>3, <1>4, <1>5, <1>6
<1>8. CurrentSize' \in Nat /\ CurrentSize' <= received'
  BY <1>2, <1>3
<1>9. TransferTypeOK'
  <2>1. spoilt' \in BOOLEAN
    BY <1>1 DEF TransferIInv, TransferTypeOK
  <2> QED BY <1>2, <1>3, <1>7, <1>8, <2>1 DEF TransferIInv, TransferTypeOK, Receiving, serverVars
<1>10. CursorInv' /\ PreparedInv'
  BY <1>2, <1>4, <1>7, <1>8 DEF TransferIInv, CursorInv, PreparedInv, serverVars
<1>11. ASSUME ~spoilt' PROVE InArchive' /\ SplitAtMapEnd'
  <2> DEFINE size == MapSize[source]
  <2>1. ~spoilt /\ back = Chunk(received + DSize, Rest)
    BY <1>1, <1>11 DEF back
  <2>2. (InMap \/ InArchive) /\ SplitAtMapEnd /\ source \in Maps /\ size \in Nat \ {0}
    BY <1>2, <2>1 DEF TransferIInv, SideInv, InMap, SizeFits, InArchive
  <2>3. cliMapSize > 0
    BY DEF Cuts
  <2>4. InMap /\ cliMapSize = size /\ h = "map" /\ CurrentSize = received /\ received <= size
    BY <1>3, <2>2, <2>3 DEF InMap, InArchive, SizeFits, h
  <2>5. received + DSize = size /\ received + n = size + Rest
    <3> HIDE DEF size
    <3>1. DSize = size - received
      BY <2>4 DEF DSize
    <3>2. received \in Nat /\ size \in Nat /\ DSize \in Nat /\ Rest \in Nat /\ DSize + Rest = n
      BY <1>3, <2>2
    <3> QED BY <3>1, <3>2
  <2>6. InArchive'
    BY <1>2, <1>3, <2>2, <2>5 DEF InArchive
  <2>7. files["map"] = Chunk(0, received)
    BY <1>2, <1>3, <2>1, <2>2, <2>4 DEF SplitAtMapEnd, Receiving
  <2>8. Chunk(0, received) \o Chunk(0 + received, DSize) = Chunk(0, received + DSize)
    BY <1>3, ChunksJoin
  <2>9. files'["map"] = Chunk(0, size) /\ files'["archive"] = Chunk(size, Rest)
    <3>1. 0 + received = received
      BY <1>3
    <3>2. files'["map"] = files["map"] \o Chunk(received, DSize)
      BY <1>7, <2>4 DEF front
    <3> HIDE DEF size
    <3> QED BY <1>7, <2>1, <2>5, <2>7, <2>8, <3>1, <3>2
  <2>10. received' > size /\ received' - size = Rest
    BY <1>2, <1>3, <2>2, <2>5
  <2>11. SplitAtMapEnd'
    BY <1>2, <1>3, <2>2, <2>9, <2>10 DEF SplitAtMapEnd
  <2> QED BY <2>6, <2>11
<1>12. SideInv' /\ SplitAtMapEnd'
  BY <1>2, <1>11 DEF SideInv, SplitAtMapEnd, Receiving
<1> QED BY <1>9, <1>10, <1>12 DEF TransferIInv

-----------------------------------------------------------------------------
LEMMA StepKeeps == TransferIInv /\ [TransferNext]_transferVars => TransferIInv'
<1> SUFFICES ASSUME TransferIInv, [TransferNext]_transferVars PROVE TransferIInv'
  OBVIOUS
<1>1. CASE \E m \in Maps : serverTransferPrepair(m) \/ OtherServerStarts(m)
  BY <1>1, PrepareKeeps, OtherServerKeeps
<1>2. CASE serverTransferStart
  BY <1>2, StartKeeps
<1>3. CASE clientOpenFile
  BY <1>3, OpenKeeps
<1>4. CASE \E n \in 1 .. MaxChunk : clientWriteChunk(n)
  <2>1. PICK n \in 1 .. MaxChunk : clientWriteChunk(n)
    BY <1>4
  <2>2. n \in Nat
    BY TransferAssumption DEF TransferAssumption
  <2> QED BY <2>1, <2>2, WholeKeeps, CutKeeps
<1>5. CASE Finish \/ BreakOff \/ netOnAbortDownload
  BY <1>5, EndKeeps
<1>6. CASE UNCHANGED transferVars
  <2>1. TransferTypeOK' /\ SplitAtMapEnd'
    BY <1>6 DEF TransferIInv, TransferTypeOK, SplitAtMapEnd, Receiving, transferVars, serverVars,
                streamVars, clientVars
  <2>2. CursorInv' /\ PreparedInv' /\ SideInv'
    BY <1>6 DEF TransferIInv, CursorInv, PreparedInv, SideInv, InMap, InArchive, SizeFits,
                transferVars, serverVars, streamVars, clientVars
  <2> QED BY <2>1, <2>2 DEF TransferIInv
<1> QED BY <1>1, <1>2, <1>3, <1>4, <1>5, <1>6 DEF TransferNext

(***************************************************************************)
(* The inductive invariant of a transfer.                                  *)
(***************************************************************************)
THEOREM TransferInvariant == TransferSpec => []TransferIInv
  BY InitKeeps, StepKeeps, PTL DEF TransferSpec

(***************************************************************************)
(* However long map, archive and chunks are and wherever the stream is     *)
(* cut, a client that was told the right size writes the server's files.   *)
(***************************************************************************)
THEOREM AlwaysSplitAtMapEnd == TransferSpec => []SplitAtMapEnd
<1>1. TransferIInv => SplitAtMapEnd
  BY DEF TransferIInv
<1> QED BY <1>1, TransferInvariant, PTL
=============================================================================
