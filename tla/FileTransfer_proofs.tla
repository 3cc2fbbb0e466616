------------------------ MODULE FileTransfer_proofs ------------------------
(***************************************************************************)
(* Theorems about FileTransfer, for any contents, any length of the files  *)
(* and any capacity of the connection: types, and that the chain of posted *)
(* messages which carries an upload never breaks.                          *)
(***************************************************************************)
EXTENDS FileTransfer, SequenceTheorems, TLAPS

Block == Blocks \union {Hole}

\* A file that is open, or that the viewer sends or receives, exists.
FilesExist == /\ downloading \/ srcOpen => disk # NoFile
              /\ view.does \in {"offer", "send", "receive"} => vfile # NoFile

IInv == TypeOK /\ FilesExist

\* Writing a block at a file pointer and cutting a file off there give files
\* again.
LEMMA FilesStayFiles ==
  ASSUME NEW file \in Contents, NEW pos \in Nat
  PROVE  /\ Truncated(file, pos) \in Contents
         /\ \A block \in Block : Written(file, pos, block) \in Contents
<1>1. \A k \in Nat : At(file, k) \in Block
  BY DEF At, Contents, Block
<1>2. Truncated(file, pos) \in Contents
  <2>1. \A k \in 1 .. pos : At(file, k) \in Block
    BY <1>1
  <2>2. Truncated(file, pos) \in [1 .. pos -> Block]
    BY <2>1 DEF Truncated
  <2>. QED  BY <2>2, SeqDef DEF Contents, Block
<1>3. ASSUME NEW block \in Block PROVE Written(file, pos, block) \in Contents
  <2>. DEFINE size == IF Len(file) > pos THEN Len(file) ELSE pos + 1
  <2>1. size \in Nat
    BY DEF Contents
  <2>2. Written(file, pos, block) \in [1 .. size -> Block]
    BY <1>1, <2>1 DEF Written
  <2>. QED  BY <2>1, <2>2, SeqDef DEF Contents, Block
<1>. QED  BY <1>2, <1>3

LEMMA EmptyIsSeq == \A S : <<>> \in Seq(S)
OBVIOUS

LEMMA ReceivedIsFile ==
  ASSUME NEW file \in Contents, NEW pos \in Nat, NEW block \in Packets
  PROVE  Received(file, pos, block) \in Contents /\ Advanced(pos, block) \in Nat
BY FilesStayFiles DEF Received, Advanced, Packets, Block

\* What the two ends of the connection find in it.
LEMMA MessageTypes ==
  ASSUME TypeOK
  PROVE  /\ toServer # <<>> =>
              /\ Head(toServer) \in ToServer /\ Tail(toServer) \in Seq(ToServer)
              /\ Head(toServer).type = "packet" => Head(toServer).block \in Packets
              /\ Head(toServer).type = "checksums" => Head(toServer).sums \in Seq(Sums)
              /\ Head(toServer).type = "header" => Head(toServer).ok \in BOOLEAN
         /\ toViewer # <<>> =>
              /\ Head(toViewer) \in ToViewer /\ Tail(toViewer) \in Seq(ToViewer)
              /\ Head(toViewer).type = "packet" => Head(toViewer).block \in Packets
              /\ Head(toViewer).type = "checksums" => Head(toViewer).sums \in Seq(Sums)
              /\ Head(toViewer).type \in {"accept", "header"} => Head(toViewer).ok \in BOOLEAN
<1>1. ASSUME toServer # <<>>
      PROVE  Head(toServer) \in ToServer /\ Tail(toServer) \in Seq(ToServer)
  BY <1>1 DEF TypeOK
<1>2. ASSUME toViewer # <<>>
      PROVE  Head(toViewer) \in ToViewer /\ Tail(toViewer) \in Seq(ToViewer)
  BY <1>2 DEF TypeOK
<1>3. \A m \in ToServer :
         /\ m.type = "packet" => m.block \in Packets
         /\ m.type = "checksums" => m.sums \in Seq(Sums)
         /\ m.type = "header" => m.ok \in BOOLEAN
  BY DEF ToServer
<1>4. \A m \in ToViewer :
         /\ m.type = "packet" => m.block \in Packets
         /\ m.type = "checksums" => m.sums \in Seq(Sums)
         /\ m.type \in {"accept", "header"} => m.ok \in BOOLEAN
  BY DEF ToViewer
<1>. QED  BY <1>1, <1>2, <1>3, <1>4

\* What they put into it.
LEMMA MessagesSent ==
  /\ \A t \in {"offer", "request", "eof", "abort"} : [type |-> t] \in ToServer
  /\ \A t \in {"eof", "abort"} : [type |-> t] \in ToViewer
  /\ Confirm \in ToViewer
  /\ \A block \in Blocks \union {Hole, Nothing}, sums \in Seq(Sums), i \in Nat :
        Packet(block, sums, i) \in ToServer /\ Packet(block, sums, i) \in ToViewer
  /\ \A sums \in Seq(Sums) :
        /\ [type |-> "checksums", sums |-> sums] \in ToServer
        /\ [type |-> "checksums", sums |-> sums] \in ToViewer
  /\ \A ok \in BOOLEAN :
        /\ [type |-> "header", ok |-> ok] \in ToServer
        /\ \A t \in {"accept", "header"} : [type |-> t, ok |-> ok] \in ToViewer
BY DEF ToServer, ToViewer, Packet, Packets, Confirm

LEMMA ChecksumsType == \A file \in Contents : Checksums(file) \in Seq(Sums)
<1>. SUFFICES ASSUME NEW file \in Contents PROVE Checksums(file) \in Seq(Sums)
  OBVIOUS
<1>1. Len(file) \in Nat /\ \A i \in 1 .. Len(file) : file[i] \in Block
  BY DEF Contents, Block
<1>2. \A i \in 1 .. Len(file) : Sum(file[i]) \in Sums
  BY <1>1 DEF Sums, Block
<1>3. Checksums(file) \in [1 .. Len(file) -> Sums]
  BY <1>2 DEF Checksums
<1>. QED  BY <1>1, <1>3, SeqDef

LEMMA OldSumsType == TypeOK => \A fits \in BOOLEAN : OldSums(fits) \in Seq(ToViewer)
<1>. SUFFICES ASSUME TypeOK, NEW fits \in BOOLEAN PROVE OldSums(fits) \in Seq(ToViewer)
  OBVIOUS
<1>1. CASE disk = NoFile \/ ~fits
  BY <1>1 DEF OldSums
<1>2. CASE disk # NoFile /\ fits
  <2>1. Checksums(disk) \in Seq(Sums)
    <3>1. disk \in Contents
      BY <1>2 DEF TypeOK
    <3>. QED  BY <3>1, ChecksumsType
  <2>2. [type |-> "checksums", sums |-> Checksums(disk)] \in ToViewer
    BY <2>1, MessagesSent
  <2>3. OldSums(fits) = <<[type |-> "checksums", sums |-> Checksums(disk)]>>
    BY <1>2 DEF OldSums
  <2>. QED  BY <2>2, <2>3
<1>. QED  BY <1>1, <1>2
-----------------------------------------------------------------------------
(***************************************************************************)
(* Types.                                                                  *)
(***************************************************************************)
LEMMA InitTypeOK == Init => TypeOK
<1>. SUFFICES ASSUME Init PROVE TypeOK
  OBVIOUS
<1>1. \A file \in Files : file \in Contents \union {NoFile}
  <2>1. ASSUME NEW n \in 0 .. MaxBlocks, NEW file \in [1 .. n -> Blocks]
        PROVE  file \in Contents
    <3>1. n \in Nat /\ file \in [1 .. n -> Blocks \union {Hole}]
      BY FileAssumption
    <3>. QED  BY <3>1, SeqDef DEF Contents
  <2>. QED  BY <2>1 DEF Files
<1>2. <<>> \in Contents /\ <<>> \in Seq(ToServer) /\ <<>> \in Seq(ToViewer)
  BY DEF Contents
<1>3. csBuffer \in Seq(Sums) /\ csOffset \in Nat
  BY <1>2 DEF Init
<1>4. view \in [does : {"idle", "offer", "send", "request", "receive", "gone"},
                pos : Nat, sums : Seq(Sums)]
  BY <1>2 DEF Init
<1>5. toServer \in Seq(ToServer) /\ toViewer \in Seq(ToViewer)
  BY DEF Init
<1>. QED  BY <1>1, <1>3, <1>4, <1>5 DEF Init, TypeOK

LEMMA LoseSyncTypes == TypeOK /\ LoseSync /\ history' \in BOOLEAN \X BOOLEAN => TypeOK'
<1>. SUFFICES ASSUME TypeOK, LoseSync, history' \in BOOLEAN \X BOOLEAN PROVE TypeOK'
  OBVIOUS
<1>1. refused' \in BOOLEAN /\ readFailed' \in BOOLEAN
  BY DEF history
<1>2. <<>> \in Seq(ToServer) /\ <<>> \in Seq(ToViewer)
  OBVIOUS
<1>3. view' \in [does : {"idle", "offer", "send", "request", "receive", "gone"},
                 pos : Nat, sums : Seq(Sums)]
  BY DEF TypeOK, LoseSync
<1>. QED  BY <1>1, <1>2, <1>3 DEF TypeOK, LoseSync, download, upload

LEMMA ReadAndSendTypes ==
  ASSUME IInv, NEW queued \in Nat, ReadAndSend(queued), UNCHANGED csBuffer
  PROVE  /\ toViewer' \in Seq(ToViewer) /\ eof' \in BOOLEAN /\ readFailed' \in BOOLEAN
         /\ srcPos' \in Nat /\ csOffset' \in Nat /\ posted' \in Nat \ {0}
<1>. USE DEF IInv, FilesExist
<1>1. posted' \in Nat \ {0}
  BY DEF ReadAndSend, PostNext
<1>2. ASSUME NEW block \in Blocks \union {Hole, Nothing}, ReadBlock(block)
      PROVE  /\ toViewer' \in Seq(ToViewer) /\ eof' \in BOOLEAN
             /\ csOffset' \in Nat
  <2>1. csOffset + 1 \in Nat /\ csBuffer \in Seq(Sums)
    BY DEF TypeOK, Contents
  <2>2. Packet(block, csBuffer, csOffset + 1) \in ToViewer
    BY <2>1, MessagesSent
  <2>3. Len(csBuffer) \in Nat
    BY DEF TypeOK, Contents
  <2>4. toViewer' \in Seq(ToViewer)
    BY <1>2, <2>2 DEF TypeOK, ReadBlock
  <2>5. csOffset' \in Nat
    BY <1>2, <2>3 DEF TypeOK, ReadBlock, NextSum
  <2>. QED  BY <1>2, <2>4, <2>5 DEF ReadBlock
<1>3. CASE srcOpen /\ srcPos >= Len(disk) /\ eof' = TRUE
           /\ UNCHANGED <<toViewer, srcPos, csOffset, readFailed>>
  BY <1>1, <1>3 DEF TypeOK
<1>4. CASE srcOpen /\ srcPos < Len(disk) /\ ReadBlock(disk[srcPos + 1])
           /\ srcPos' = srcPos + 1 /\ UNCHANGED readFailed
  <2>1. disk[srcPos + 1] \in Blocks \union {Hole, Nothing}
    BY <1>4 DEF TypeOK, Contents
  <2>. QED  BY <1>1, <1>2, <1>4, <2>1 DEF TypeOK
<1>5. CASE ReadBlock(Nothing) /\ readFailed' = TRUE /\ UNCHANGED srcPos
  BY <1>1, <1>2, <1>5 DEF TypeOK
<1>. QED  BY <1>3, <1>4, <1>5 DEF ReadAndSend

LEMMA FinishReceptionTypes ==
  ASSUME IInv, downloading, FinishFileReception(disk)
  PROVE  /\ downloading' \in BOOLEAN /\ destOpen' \in BOOLEAN
         /\ destPos' \in Nat /\ disk' \in Contents
         /\ buffers' \in {"none", "live", "freed"}
<1>1. disk \in Contents /\ destPos \in Nat
  BY DEF IInv, TypeOK, FilesExist
<1>. QED  BY <1>1, FilesStayFiles DEF FinishFileReception

LEMMA FinishSendingTypes ==
  ASSUME IInv, NEW type \in {"eof", "abort"}, FinishFileSending(type)
  PROVE  /\ toViewer' \in Seq(ToViewer) /\ uploading' \in BOOLEAN
         /\ srcOpen' \in BOOLEAN /\ srcPos' \in Nat /\ eof' \in BOOLEAN
         /\ csBuffer' \in Seq(Sums) /\ csOffset' \in Nat
         /\ buffers' \in {"none", "live", "freed"}
<1>1. [type |-> type] \in ToViewer
  BY MessagesSent
<1>2. toViewer' \in Seq(ToViewer)
  BY <1>1 DEF FinishFileSending, IInv, TypeOK
<1>. QED  BY <1>2 DEF FinishFileSending, IInv, TypeOK
-----------------------------------------------------------------------------
(* One lemma for each group of actions.                                    *)

LEMMA OfferTypes == IInv /\ (Offer \/ OfferRefused) => IInv'
<1>. SUFFICES ASSUME IInv, Offer \/ OfferRefused PROVE IInv'
  OBVIOUS
<1>. USE DEF IInv
<1>1. CASE Offer
  <2>. USE <1>1
  <2>1. toServer' \in Seq(ToServer)
    BY MessageTypes DEF Offer, Takes, Taken
  <2>2. <<>> \in Contents /\ <<>> # NoFile
    BY FileAssumption, EmptyIsSeq DEF Contents
  <2>3. /\ disk' \in Contents \union {NoFile}
        /\ downloading' \/ srcOpen' => disk' # NoFile
    <3>1. disk \in Contents \union {NoFile}
      BY DEF TypeOK
    <3>2. disk' = disk \/ disk' = <<>>
      BY DEF Offer
    <3>3. downloading' \/ srcOpen' => disk' = <<>> \/ (disk' = disk /\ disk # NoFile)
      BY DEF Offer, FilesExist, upload
    <3>. QED  BY <2>2, <3>1, <3>2, <3>3
  <2>4. ASSUME NEW fits \in BOOLEAN, Accept(fits) PROVE toViewer' \in Seq(ToViewer)
    <3>1. [type |-> "accept", ok |-> fits] \in ToViewer
      BY MessagesSent
    <3>2. OldSums(fits) \in Seq(ToViewer) /\ toViewer \in Seq(ToViewer)
      BY OldSumsType DEF TypeOK
    <3>3. Confirm \in ToViewer
      BY MessagesSent
    <3>. QED  BY <2>4, <3>1, <3>2, <3>3 DEF Accept
  <2>5. toViewer' \in Seq(ToViewer)
    BY <2>4 DEF Offer
  <2>6. /\ downloading' \in BOOLEAN /\ destOpen' \in BOOLEAN /\ destPos' \in Nat
        /\ buffers' \in {"none", "live", "freed"}
    <3>1. downloading \in BOOLEAN /\ destPos \in Nat
      BY DEF TypeOK
    <3>2. CASE /\ downloading' = TRUE /\ destOpen' = TRUE /\ destPos' = 0
               /\ buffers' = "live"
      BY <3>2
    <3>3. CASE /\ destOpen' = FALSE /\ buffers' = "freed"
               /\ UNCHANGED <<downloading, destPos>>
      BY <3>1, <3>3
    <3>. QED  BY <3>2, <3>3 DEF Offer
  <2>7. UNCHANGED <<connected, enabled, upload, posted, viewer, history>>
    BY DEF Offer
  <2>. QED  BY <2>1, <2>3, <2>5, <2>6, <2>7 DEF TypeOK, FilesExist, upload, viewer, history
<1>2. CASE OfferRefused
  BY <1>2, LoseSyncTypes DEF OfferRefused, LoseSync, TypeOK, FilesExist, history,
                             download, upload
<1>. QED  BY <1>1, <1>2

LEMMA PacketTypes == IInv /\ (ReceiveFileChunk \/ DropFileChunk \/ EndOfFile) => IInv'
<1>. SUFFICES ASSUME IInv, ReceiveFileChunk \/ DropFileChunk \/ EndOfFile PROVE IInv'
  OBVIOUS
<1>. USE DEF IInv
<1>0. NoFile \notin Contents
  BY FileAssumption DEF Contents
<1>1. CASE ReceiveFileChunk
  <2>. USE <1>1
  <2>1. toServer' \in Seq(ToServer) /\ Head(toServer).block \in Packets
    BY MessageTypes DEF ReceiveFileChunk, Takes, Taken
  <2>2. disk \in Contents /\ destPos \in Nat
    BY DEF ReceiveFileChunk, TypeOK, FilesExist
  <2>3. disk' \in Contents /\ destPos' \in Nat
        /\ downloading' \in BOOLEAN /\ destOpen' \in BOOLEAN
        /\ buffers' \in {"none", "live", "freed"} /\ toViewer' \in Seq(ToViewer)
    <3>1. CASE /\ disk' = Received(disk, destPos, Head(toServer).block)
               /\ destPos' = Advanced(destPos, Head(toServer).block)
               /\ toViewer' = Append(toViewer, Confirm)
               /\ UNCHANGED <<downloading, destOpen, buffers>>
      <4>1. toViewer' \in Seq(ToViewer)
        BY <3>1, MessagesSent DEF TypeOK
      <4>. QED  BY <2>1, <2>2, <3>1, <4>1, ReceivedIsFile DEF TypeOK
    <3>2. CASE FinishFileReception(disk) /\ UNCHANGED toViewer
      BY <3>2, FinishReceptionTypes DEF ReceiveFileChunk, TypeOK
    <3>. QED  BY <3>1, <3>2 DEF ReceiveFileChunk
  <2>. QED  BY <1>0, <2>1, <2>3
            DEF ReceiveFileChunk, TypeOK, FilesExist, upload, viewer, history
<1>2. CASE DropFileChunk
  <2>. USE <1>2
  <2>1. refused' \in BOOLEAN /\ readFailed' \in BOOLEAN
    BY DEF DropFileChunk, TypeOK
  <2>2. CASE Head(toServer).block \in {Here, Nothing}
    <3>1. toServer' \in Seq(ToServer)
      BY <2>2, MessageTypes DEF DropFileChunk, Takes, Taken
    <3>. QED  BY <2>1, <2>2, <3>1
              DEF DropFileChunk, TypeOK, FilesExist, download, upload, viewer
  <2>3. CASE Head(toServer).block \notin {Here, Nothing}
    BY <2>1, <2>3, LoseSyncTypes
    DEF DropFileChunk, LoseSync, TypeOK, FilesExist, history, download, upload
  <2>. QED  BY <2>2, <2>3
<1>3. CASE EndOfFile
  <2>. USE <1>3
  <2>1. toServer' \in Seq(ToServer)
    BY MessageTypes DEF EndOfFile, Takes, Taken
  <2>2. refused' \in BOOLEAN
    BY DEF EndOfFile, TypeOK
  <2>3. CASE enabled /\ downloading
    BY <1>0, <2>1, <2>2, <2>3, FinishReceptionTypes
    DEF EndOfFile, FinishFileReception, TypeOK, FilesExist, upload, viewer
  <2>4. CASE ~(enabled /\ downloading)
    BY <2>1, <2>2, <2>4 DEF EndOfFile, TypeOK, FilesExist, download, upload, viewer
  <2>. QED  BY <2>3, <2>4
<1>. QED  BY <1>1, <1>2, <1>3

LEMMA RequestTypes ==
  IInv /\ (Request \/ RequestUnzipped \/ RequestRefused) => IInv'
<1>. SUFFICES ASSUME IInv, Request \/ RequestUnzipped \/ RequestRefused PROVE IInv'
  OBVIOUS
<1>. USE DEF IInv
<1>1. CASE Request
  <2>. USE <1>1
  <2>1. toServer' \in Seq(ToServer)
    BY MessageTypes DEF Request, Takes, Taken
  <2>2. PICK opens \in BOOLEAN :
          /\ opens => disk # NoFile
          /\ toViewer' = Append(toViewer, [type |-> "header", ok |-> opens])
          /\ srcOpen' = opens /\ srcPos' = 0
    BY DEF Request
  <2>3. [type |-> "header", ok |-> opens] \in ToViewer
    BY MessagesSent
  <2>4. toViewer' \in Seq(ToViewer)
    BY <2>2, <2>3 DEF TypeOK
  <2>5. csBuffer' \in Seq(Sums) /\ csOffset' \in Nat
    BY EmptyIsSeq DEF Request, Contents
  <2>6. /\ readFailed' = FALSE
        /\ UNCHANGED <<connected, enabled, disk, download, uploading, eof, buffers,
                       posted, viewer, refused>>
    BY DEF Request
  <2>7. srcOpen' \in BOOLEAN /\ srcPos' \in Nat /\ readFailed' \in BOOLEAN
    BY <2>2, <2>6
  <2>. HIDE <1>1
  <2>8. TypeOK'
    <3>1. /\ toServer' \in Seq(ToServer) /\ toViewer' \in Seq(ToViewer)
          /\ csBuffer' \in Seq(Sums) /\ csOffset' \in Nat
      BY <2>1, <2>4, <2>5
    <3>2. UNCHANGED <<connected, enabled, disk, downloading, destOpen, destPos,
                      uploading, eof, buffers, posted, view, vfile, refused>>
      BY <2>6 DEF download, viewer
    <3>. QED  BY <2>7, <3>1, <3>2 DEF TypeOK
  <2>9. FilesExist'
    BY <2>2, <2>6 DEF FilesExist, download, viewer
  <2>. QED  BY <2>8, <2>9
<1>2. CASE RequestUnzipped
  <2>1. toServer' \in Seq(ToServer)
    BY <1>2, MessageTypes DEF RequestUnzipped, Takes, Taken
  <2>. QED  BY <1>2, <2>1
            DEF RequestUnzipped, TypeOK, FilesExist, download, upload, viewer, history
<1>3. CASE RequestRefused
  BY <1>3, LoseSyncTypes DEF RequestRefused, LoseSync, TypeOK, FilesExist, history,
                             download, upload
<1>. QED  BY <1>1, <1>2, <1>3

LEMMA ReplyTypes ==
  IInv /\ (ReceiveDestinationFileChecksums \/ Header \/ HeaderFails) => IInv'
<1>. SUFFICES ASSUME IInv, ReceiveDestinationFileChecksums \/ Header \/ HeaderFails
              PROVE  IInv'
  OBVIOUS
<1>. USE DEF IInv
<1>1. CASE ReceiveDestinationFileChecksums
  <2>. USE <1>1
  <2>1. toServer' \in Seq(ToServer) /\ csBuffer' \in Seq(Sums)
    BY MessageTypes DEF ReceiveDestinationFileChecksums, Takes, Taken
  <2>. QED  BY <2>1 DEF ReceiveDestinationFileChecksums, TypeOK, FilesExist,
                        download, viewer, history
<1>2. CASE Header
  <2>. USE <1>2
  <2>1. toServer' \in Seq(ToServer)
    BY MessageTypes DEF Header, Takes, Taken
  <2>2. posted \in Nat
    BY DEF TypeOK
  <2>3. /\ toViewer' \in Seq(ToViewer) /\ eof' \in BOOLEAN /\ readFailed' \in BOOLEAN
        /\ srcPos' \in Nat /\ csOffset' \in Nat /\ posted' \in Nat
    BY <2>2, ReadAndSendTypes DEF Header
  <2>. QED  BY <2>1, <2>3 DEF Header, TypeOK, FilesExist, download, viewer
<1>3. CASE HeaderFails
  <2>. USE <1>3
  <2>1. toServer' \in Seq(ToServer)
    BY MessageTypes DEF HeaderFails, Takes, Taken
  <2>2. /\ srcOpen' = FALSE
        /\ UNCHANGED <<toViewer, connected, enabled, disk, download, uploading,
                       srcPos, eof, csBuffer, csOffset, buffers, posted, viewer, history>>
    BY DEF HeaderFails
  <2>3. TypeOK'
    <3>1. srcOpen' \in BOOLEAN
      BY <2>2
    <3>2. UNCHANGED <<toViewer, connected, enabled, disk, downloading, destOpen, destPos,
                      uploading, srcPos, eof, csBuffer, csOffset, buffers, posted, view,
                      vfile, refused, readFailed>>
      BY <2>2 DEF download, viewer, history
    <3>. QED  BY <2>1, <3>1, <3>2 DEF TypeOK
  <2>4. FilesExist'
    BY <2>2 DEF FilesExist, download, viewer
  <2>. QED  BY <2>3, <2>4
<1>. QED  BY <1>1, <1>2, <1>3

LEMMA AbortTypes == IInv /\ AbortFileTransfer => IInv'
<1>. SUFFICES ASSUME IInv, AbortFileTransfer PROVE IInv'
  OBVIOUS
<1>. USE DEF IInv
<1>0. NoFile \notin Contents
  BY FileAssumption DEF Contents
<1>1. toServer' \in Seq(ToServer)
  BY MessageTypes DEF AbortFileTransfer, Takes, Taken
<1>2. UNCHANGED <<connected, enabled, posted, viewer, history>>
  BY DEF AbortFileTransfer
<1>3. CASE /\ downloading
           /\ FinishFileReception(disk)
           /\ UNCHANGED <<toViewer, upload>>
  BY <1>0, <1>1, <1>2, <1>3, FinishReceptionTypes
  DEF TypeOK, FilesExist, upload, viewer, history
<1>4. CASE /\ ~downloading /\ uploading
           /\ FinishFileSending("abort")
           /\ UNCHANGED <<disk, download>>
  <2>1. srcOpen' = FALSE
    BY <1>4 DEF FinishFileSending
  <2>. QED  BY <1>1, <1>2, <1>4, <2>1, FinishSendingTypes
            DEF TypeOK, FilesExist, download, viewer, history
<1>5. CASE /\ ~downloading /\ ~uploading
           /\ toViewer' = Append(toViewer, [type |-> "abort"])
           /\ UNCHANGED <<disk, download, upload, buffers>>
  <2>1. [type |-> "abort"] \in ToViewer
    BY MessagesSent
  <2>2. toViewer' \in Seq(ToViewer)
    BY <1>5, <2>1 DEF TypeOK
  <2>. QED  BY <1>1, <1>2, <1>5, <2>2
            DEF TypeOK, FilesExist, download, upload, viewer, history
<1>. QED  BY <1>3, <1>4, <1>5 DEF AbortFileTransfer

LEMMA SendFileChunkTypes == IInv /\ SendFileChunk => IInv'
<1>. SUFFICES ASSUME IInv, SendFileChunk PROVE IInv'
  OBVIOUS
<1>. USE DEF IInv
<1>1. /\ posted - 1 \in Nat
      /\ UNCHANGED <<toServer, connected, enabled, disk, download, viewer, refused>>
  BY DEF SendFileChunk, TypeOK
<1>2. CASE /\ ReadAndSend(posted - 1)
           /\ UNCHANGED <<uploading, srcOpen, csBuffer, buffers>>
  <2>1. /\ toViewer' \in Seq(ToViewer) /\ eof' \in BOOLEAN /\ readFailed' \in BOOLEAN
        /\ srcPos' \in Nat /\ csOffset' \in Nat /\ posted' \in Nat
    BY <1>1, <1>2, ReadAndSendTypes
  <2>. QED  BY <1>1, <1>2, <2>1 DEF TypeOK, FilesExist, download, viewer
<1>3. CASE FinishFileSending("eof") /\ posted' = posted - 1 /\ UNCHANGED readFailed
  <2>1. srcOpen' = FALSE
    BY <1>3 DEF FinishFileSending
  <2>. QED  BY <1>1, <1>3, <2>1, FinishSendingTypes DEF TypeOK, FilesExist, download, viewer
<1>4. CASE posted' = posted - 1 /\ UNCHANGED <<toViewer, upload, buffers, readFailed>>
  BY <1>1, <1>4 DEF TypeOK, FilesExist, download, upload, viewer
<1>. QED  BY <1>2, <1>3, <1>4 DEF SendFileChunk

LEMMA ViewerSendsTypes ==
  IInv /\ (ViewerOffers \/ ViewerRequests \/ ViewerSendsBlock \/ ViewerEnds
           \/ ViewerAborts) => IInv'
<1>. SUFFICES ASSUME IInv, ViewerOffers \/ ViewerRequests \/ ViewerSendsBlock
                           \/ ViewerEnds \/ ViewerAborts
              PROVE  IInv'
  OBVIOUS
<1>. USE DEF IInv
<1>1. UNCHANGED <<toViewer, connected, enabled, disk, download, upload, buffers,
                  posted, vfile, history>>
  BY DEF ViewerOffers, ViewerRequests, ViewerSendsBlock, ViewerEnds, ViewerAborts,
         ViewerChanges
<1>2. ASSUME NEW m \in ToServer, Sends(<<m>>) PROVE toServer' \in Seq(ToServer)
  BY <1>2 DEF Sends, TypeOK
<1>3. ASSUME NEW what \in {"idle", "offer", "request"}, Does(what)
      PROVE  /\ view' \in [does : {"idle", "offer", "send", "request", "receive", "gone"},
                           pos : Nat, sums : Seq(Sums)]
             /\ view'.does = what
  BY <1>3, EmptyIsSeq DEF Does, Contents
<1>4. CASE ViewerSendsBlock
  <2>. USE <1>4
  <2>1. vfile \in Contents /\ view.pos \in Nat /\ view.sums \in Seq(Sums)
    BY DEF ViewerSendsBlock, TypeOK, FilesExist
  <2>2. vfile[view.pos + 1] \in Blocks \union {Hole, Nothing}
    BY <2>1 DEF ViewerSendsBlock, Contents
  <2>3. toServer' \in Seq(ToServer)
    <3>. DEFINE m == Packet(vfile[view.pos + 1], view.sums, view.pos + 1)
    <3>1. m \in ToServer
      <4>1. view.pos + 1 \in Nat
        BY <2>1
      <4>. QED  BY <2>1, <2>2, <4>1, MessagesSent
    <3>2. Sends(<<m>>)
      BY DEF ViewerSendsBlock
    <3>. QED  BY <1>2, <3>1, <3>2
  <2>4. /\ view' \in [does : {"idle", "offer", "send", "request", "receive", "gone"},
                      pos : Nat, sums : Seq(Sums)]
        /\ view'.does = view.does
    <3>1. view' = [view EXCEPT !.pos = view.pos + 1] /\ view.pos + 1 \in Nat
      BY <2>1 DEF ViewerSendsBlock
    <3>. QED  BY <3>1 DEF TypeOK
  <2>. QED  BY <1>1, <2>3, <2>4 DEF TypeOK, FilesExist, download, upload, history
<1>5. ASSUME ViewerOffers \/ ViewerRequests \/ ViewerEnds \/ ViewerAborts
      PROVE  /\ toServer' \in Seq(ToServer)
             /\ \E what \in {"idle", "offer", "request"} :
                  Does(what) /\ (what = "offer" => vfile # NoFile)
  BY <1>2, <1>5, MessagesSent
  DEF ViewerOffers, ViewerRequests, ViewerEnds, ViewerAborts
<1>6. CASE ViewerOffers \/ ViewerRequests \/ ViewerEnds \/ ViewerAborts
  BY <1>1, <1>3, <1>5, <1>6 DEF TypeOK, FilesExist, download, upload, history
<1>. QED  BY <1>4, <1>6

LEMMA ViewerTakesTypes == IInv /\ (ViewerTakes \/ ViewerLeaves) => IInv'
<1>. SUFFICES ASSUME IInv, ViewerTakes \/ ViewerLeaves PROVE IInv'
  OBVIOUS
<1>. USE DEF IInv
<1>0. NoFile \notin Contents /\ <<>> \in Contents /\ <<>> \in Seq(Sums)
  BY FileAssumption, EmptyIsSeq DEF Contents
<1>1. CASE ViewerLeaves
  BY <1>1, LoseSyncTypes DEF ViewerLeaves, LoseSync, TypeOK, FilesExist, history,
                             download, upload
<1>2. CASE ViewerTakes
  <2>. USE <1>2
  <2>. DEFINE m == Head(toViewer)
              View == [does : {"idle", "offer", "send", "request", "receive", "gone"},
                       pos : Nat, sums : Seq(Sums)]
  <2>1. /\ toViewer' \in Seq(ToViewer)
        /\ m.type = "packet" => m.block \in Packets
        /\ m.type = "checksums" => m.sums \in Seq(Sums)
        /\ m.type \in {"accept", "header"} => m.ok \in BOOLEAN
    BY MessageTypes DEF ViewerTakes
  <2>2. UNCHANGED <<connected, enabled, disk, download, upload, buffers, posted, history>>
    BY DEF ViewerTakes, ViewerChanges
  <2>3. ASSUME /\ toServer' \in Seq(ToServer)
               /\ view' \in View
               /\ vfile' \in Contents \union {NoFile}
               /\ view'.does \in {"offer", "send", "receive"} => vfile' # NoFile
        PROVE  IInv'
    <3>1. TypeOK'
      BY <2>1, <2>2, <2>3 DEF TypeOK, download, upload, history
    <3>. QED  BY <2>2, <2>3, <3>1 DEF FilesExist, download, upload
  <2>4. ASSUME NEW what \in {"idle", "receive"}, Does(what)
        PROVE  view' \in View /\ view'.does = what
    BY <1>0, <2>4 DEF Does
  <2>5. /\ toServer \in Seq(ToServer) /\ view \in View
        /\ vfile \in Contents \union {NoFile}
        /\ view.does \in {"offer", "send", "receive"} => vfile \in Contents
    BY DEF TypeOK, FilesExist
  <2>6. CASE /\ view.does = "offer" /\ m.type = "checksums"
             /\ view' = [view EXCEPT !.sums = m.sums]
             /\ UNCHANGED <<toServer, vfile>>
    BY <1>0, <2>1, <2>3, <2>5, <2>6
  <2>7. CASE /\ view.does = "offer" /\ m.type = "accept"
             /\ view' = [view EXCEPT !.does = IF m.ok THEN "send" ELSE "idle"]
             /\ UNCHANGED <<toServer, vfile>>
    BY <1>0, <2>1, <2>3, <2>5, <2>7
  <2>8. CASE /\ Sends(IF vfile = NoFile THEN <<[type |-> "header", ok |-> TRUE]>>
                      ELSE <<[type |-> "checksums", sums |-> Checksums(vfile)],
                             [type |-> "header", ok |-> TRUE]>>)
             /\ vfile' = IF vfile = NoFile THEN <<>> ELSE vfile
             /\ Does("receive")
    <3>1. [type |-> "header", ok |-> TRUE] \in ToServer
      BY MessagesSent
    <3>2. vfile # NoFile => [type |-> "checksums", sums |-> Checksums(vfile)] \in ToServer
      BY <2>5, ChecksumsType, MessagesSent
    <3>3. toServer' \in Seq(ToServer)
      BY <2>5, <2>8, <3>1, <3>2 DEF Sends
    <3>4. vfile' \in Contents
      BY <1>0, <2>5, <2>8
    <3>. QED  BY <1>0, <2>3, <2>4, <2>8, <3>3, <3>4
  <2>9. CASE /\ Sends(<<[type |-> "header", ok |-> FALSE]>>)
             /\ Does("idle") /\ UNCHANGED vfile
    <3>1. [type |-> "header", ok |-> FALSE] \in ToServer
      BY MessagesSent
    <3>2. toServer' \in Seq(ToServer)
      BY <2>5, <2>9, <3>1 DEF Sends
    <3>. QED  BY <2>3, <2>4, <2>5, <2>9, <3>2
  <2>10. CASE Does("idle") /\ UNCHANGED <<toServer, vfile>>
    BY <2>3, <2>4, <2>5, <2>10
  <2>11. CASE /\ view.does = "receive" /\ m.type = "packet"
              /\ vfile' = Received(vfile, view.pos, m.block)
              /\ view' = [view EXCEPT !.pos = Advanced(view.pos, m.block)]
              /\ UNCHANGED toServer
    <3>1. vfile' \in Contents /\ Advanced(view.pos, m.block) \in Nat
      BY <2>1, <2>5, <2>11, ReceivedIsFile
    <3>2. view' \in View
      BY <2>5, <2>11, <3>1
    <3>. QED  BY <1>0, <2>3, <2>5, <2>11, <3>1, <3>2
  <2>12. CASE /\ view.does = "receive" /\ m.type = "eof"
              /\ vfile' = Truncated(vfile, view.pos)
              /\ Does("idle") /\ UNCHANGED toServer
    <3>1. vfile' \in Contents
      BY <2>5, <2>12, FilesStayFiles
    <3>. QED  BY <2>3, <2>4, <2>5, <2>12, <3>1
  <2>13. CASE UNCHANGED <<toServer, viewer>>
    BY <1>0, <2>3, <2>5, <2>13 DEF viewer
  <2>. HIDE DEF m
  <2>. QED  BY <2>6, <2>7, <2>8, <2>9, <2>10, <2>11, <2>12, <2>13 DEF ViewerTakes, m
<1>. QED  BY <1>1, <1>2
-----------------------------------------------------------------------------
LEMMA NextIInv == IInv /\ [Next]_vars => IInv'
<1>. SUFFICES ASSUME IInv, [Next]_vars PROVE IInv'
  OBVIOUS
<1>1. CASE ClientThread
  BY <1>1, OfferTypes, PacketTypes, RequestTypes, ReplyTypes, AbortTypes DEF ClientThread
<1>2. CASE SendFileChunk
  BY <1>2, SendFileChunkTypes
<1>3. CASE EnableFileTransfer
  BY <1>3 DEF EnableFileTransfer, IInv, TypeOK, FilesExist, wire, download, upload,
              viewer, history
<1>4. CASE Viewer
  BY <1>4, ViewerSendsTypes, ViewerTakesTypes DEF Viewer
<1>5. CASE UNCHANGED vars
  BY <1>5 DEF vars, IInv, TypeOK, FilesExist, wire, download, upload, viewer, history
<1>. QED  BY <1>1, <1>2, <1>3, <1>4, <1>5 DEF Next

LEMMA InitIInv == Init => IInv
BY InitTypeOK DEF Init, IInv, FilesExist

\* Types hold for any set of block contents, any initial files and any
\* capacity of the connection.
THEOREM TypeCorrect == Spec => []TypeOK
<1>1. IInv => TypeOK
  BY DEF IInv
<1>. QED  BY <1>1, InitIInv, NextIInv, PTL DEF Spec

\* The chain of posted messages never breaks: whatever the viewer aborts or
\* asks for, an upload that runs has a message in the window's queue.
THEOREM ChainNeverBreaks == Spec => []ChainAlive
<1>1. Init => ChainAlive
  BY DEF Init, ChainAlive
<1>2. IInv /\ ChainAlive /\ [Next]_vars => ChainAlive'
  <2>. SUFFICES ASSUME IInv, ChainAlive, [Next]_vars PROVE ChainAlive'
    OBVIOUS
  <2>1. posted \in Nat
    BY DEF IInv, TypeOK
  <2>2. ASSUME UNCHANGED <<uploading, posted>>, connected' => connected
        PROVE  ChainAlive'
    BY <2>2 DEF ChainAlive
  <2>3. CASE Header
    BY <2>1, <2>3 DEF Header, ReadAndSend, PostNext, ChainAlive
  <2>4. CASE AbortFileTransfer
    BY <2>4 DEF AbortFileTransfer, FinishFileSending, upload, ChainAlive
  <2>5. CASE SendFileChunk
    <3>1. CASE ReadAndSend(posted - 1)
      BY <2>1, <3>1, <2>5 DEF SendFileChunk, ReadAndSend, PostNext, ChainAlive
    <3>2. CASE FinishFileSending("eof")
      BY <3>2 DEF FinishFileSending, ChainAlive
    <3>3. CASE ~(connected /\ uploading) /\ UNCHANGED <<connected, uploading>>
      BY <3>3 DEF ChainAlive
    <3>. QED  BY <2>5, <3>1, <3>2, <3>3 DEF SendFileChunk, upload
  <2>6. CASE Offer \/ OfferRefused \/ Request \/ RequestUnzipped \/ RequestRefused
    BY <2>2, <2>6 DEF Offer, OfferRefused, Request, RequestUnzipped, RequestRefused,
                      LoseSync, upload
  <2>7. CASE ReceiveFileChunk \/ EndOfFile
    BY <2>2, <2>7 DEF ReceiveFileChunk, EndOfFile, upload
  <2>8. CASE DropFileChunk
    BY <2>2, <2>8 DEF DropFileChunk, LoseSync, upload
  <2>9. CASE ReceiveDestinationFileChecksums \/ HeaderFails
    BY <2>2, <2>9 DEF ReceiveDestinationFileChecksums, HeaderFails
  <2>10. CASE EnableFileTransfer
    BY <2>2, <2>10 DEF EnableFileTransfer, upload
  <2>11. CASE Viewer
    BY <2>2, <2>11
    DEF Viewer, ViewerOffers, ViewerRequests, ViewerSendsBlock, ViewerEnds,
        ViewerAborts, ViewerTakes, ViewerLeaves, ViewerChanges, LoseSync, upload
  <2>12. CASE UNCHANGED vars
    BY <2>2, <2>12 DEF vars, upload
  <2>. QED  BY <2>3, <2>4, <2>5, <2>6, <2>10, <2>11, <2>12, <2>7, <2>8, <2>9
            DEF Next, ClientThread
<1>. QED  BY <1>1, <1>2, InitIInv, NextIInv, PTL DEF Spec
=============================================================================
