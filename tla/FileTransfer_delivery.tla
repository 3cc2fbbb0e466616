------------------------ MODULE FileTransfer_delivery -------------------------
(***************************************************************************)
(* What a transfer leaves behind, for any files, any block contents and    *)
(* any capacity of the connection.                                         *)
(*                                                                         *)
(* The server keeps no state for the protocol but its flags, so that the   *)
(* order of the messages has to tell it what is going on: the argument     *)
(* ties the flags to what is still in the connection (Order).  As long as  *)
(* no message of a running download has been refused, the flags are in one *)
(* of four states, and in each of them the first messages on their way to  *)
(* the server belong to it:                                                *)
(*    - nothing runs:      no header comes;                                *)
(*    - a download runs:   packets, up to an end or an abort;              *)
(*    - a file was opened: the answer to its header, or nothing yet;       *)
(*    - an upload runs:    an abort, or nothing as the viewer receives.    *)
(* From the order follows what the buffers and the handles need            *)
(* (BuffersAreLive, NothingIsLeftOpen), and that a transfer that ends has  *)
(* delivered its file (DownloadsDeliver, UploadsDeliver): the blocks in the *)
(* connection are those between the two file pointers.  That transfers     *)
(* end is liveness, and stays with TLC.                                    *)
(***************************************************************************)
EXTENDS FileTransfer_proofs

Ending  == {"eof", "abort"}
Answers == {"accept", "header"}

\* The flags are in one of the four states, and the shared buffers and the
\* handles go with them.
Modes ==
    /\ downloading => ~srcOpen
    /\ uploading => srcOpen
    /\ buffers = "live" <=> downloading \/ uploading
    /\ destOpen <=> downloading

\* An offer or a request is the last message: the viewer waits for its answer.
WaitInv ==
    \A i \in 1 .. Len(toServer) :
        toServer[i].type \in {"offer", "request"}
            => i = Len(toServer) /\ view.does = toServer[i].type

\* The answer is the last message on its way to the viewer, nothing is on its
\* way to the server, and the flags are as the answer tells.
AnswerInv ==
    \A i \in 1 .. Len(toViewer) :
        toViewer[i].type \in Answers
            => /\ i = Len(toViewer) /\ toServer = <<>>
               /\ toViewer[i].type = "accept" =>
                    /\ view.does = "offer" /\ ~srcOpen
                    /\ toViewer[i].ok <=> downloading
               /\ toViewer[i].type = "header" =>
                    /\ view.does = "request" /\ ~downloading /\ ~uploading
                    /\ toViewer[i].ok <=> srcOpen

AnswerWaits == toViewer # <<>> /\ toViewer[Len(toViewer)].type \in Answers

SendInv ==
    view.does = "send" => \A i \in 1 .. Len(toServer) : toServer[i].type = "packet"

DownInv ==
    downloading =>
        /\ \A i \in 1 .. Len(toServer) :
              toServer[i].type # "packet"
                  => \E k \in 1 .. i : toServer[k].type \in Ending
        /\ \/ \E k \in 1 .. Len(toServer) : toServer[k].type \in Ending
           \/ view.does = "send"
           \/ view.does = "offer" /\ AnswerWaits

HeaderInv ==
    \A i \in 1 .. Len(toServer) :
        toServer[i].type = "header" =>
            /\ srcOpen /\ ~uploading
            /\ \A j \in 1 .. Len(toServer) : j < i => toServer[j].type = "checksums"
            /\ toServer[i].ok =>
                 \/ i = Len(toServer) /\ view.does = "receive"
                 \/ i < Len(toServer) /\ toServer[i+1].type = "abort"

AskInv ==
    srcOpen /\ ~uploading =>
        \/ view.does = "request" /\ AnswerWaits
        \/ \E i \in 1 .. Len(toServer) : toServer[i].type = "header"

UpInv ==
    uploading => \/ toServer = <<>> /\ view.does = "receive"
                 \/ toServer # <<>> /\ toServer[1].type = "abort"

ReceiveInv ==
    view.does = "receive" =>
        /\ \A i \in 1 .. Len(toViewer) : toViewer[i].type \in Ending => ~srcOpen
        /\ toServer # <<>> => toServer[Len(toServer)].type = "header"

Shape == /\ WaitInv /\ AnswerInv /\ SendInv /\ DownInv
         /\ HeaderInv /\ AskInv /\ UpInv /\ ReceiveInv

Order == ~refused => Modes /\ (connected => Shape)

-----------------------------------------------------------------------------
(* The two queues.                                                         *)

LEMMA QueueFacts ==
  ASSUME TypeOK
  PROVE  /\ Len(toServer) \in Nat /\ Len(toViewer) \in Nat
         /\ toServer = <<>> <=> Len(toServer) = 0
         /\ toViewer = <<>> <=> Len(toViewer) = 0
         /\ toServer # <<>> => Head(toServer) = toServer[1]
         /\ toViewer # <<>> => Head(toViewer) = toViewer[1]
BY DEF TypeOK

LEMMA TakenFacts ==
  ASSUME TypeOK, toServer # <<>>, Taken
  PROVE  /\ Len(toServer') = Len(toServer) - 1
         /\ \A i \in 1 .. Len(toServer') :
               i + 1 \in 1 .. Len(toServer) /\ toServer'[i] = toServer[i + 1]
         /\ toServer' = <<>> <=> Len(toServer) = 1
<1>1. toServer \in Seq(ToServer)
  BY DEF TypeOK
<1>2. toServer' = Tail(toServer)
  BY DEF Taken
<1>. DEFINE q == Tail(toServer)
<1>3. /\ Len(q) = Len(toServer) - 1 /\ q \in Seq(ToServer)
      /\ \A i \in 1 .. Len(q) : q[i] = toServer[i+1]
  BY <1>1, HeadTailProperties
<1>4. Len(toServer) \in Nat /\ (q = <<>> <=> Len(q) = 0)
  BY <1>1, <1>3, EmptySeq
<1>. HIDE DEF q
<1>. QED  BY <1>2, <1>3, <1>4 DEF q

LEMMA RepliedFacts ==
  ASSUME TypeOK, NEW m, m \in ToViewer, toViewer' = Append(toViewer, m)
  PROVE  /\ Len(toViewer') = Len(toViewer) + 1 /\ toViewer' # <<>>
         /\ toViewer'[Len(toViewer')] = m
         /\ \A i \in 1 .. Len(toViewer) : toViewer'[i] = toViewer[i]
<1>1. toViewer \in Seq(ToViewer) /\ Len(toViewer) \in Nat
  BY DEF TypeOK
<1>. QED  BY <1>1, AppendProperties

LEMMA SentFacts ==
  ASSUME TypeOK, NEW m, m \in ToServer, toServer' = toServer \o <<m>>
  PROVE  /\ Len(toServer') = Len(toServer) + 1 /\ toServer' # <<>>
         /\ toServer'[Len(toServer')] = m
         /\ \A i \in 1 .. Len(toServer) : toServer'[i] = toServer[i]
<1>1. toServer' = Append(toServer, m)
  BY AppendIsConcat DEF TypeOK
<1>. QED  BY <1>1 DEF TypeOK

\* Two lists of facts that the actions share: what stays when the client thread
\* takes a message, and what is left to show when nothing runs afterwards.
LEMMA TakenKeeps ==
  ASSUME TypeOK, Shape, toServer # <<>>, Taken, UNCHANGED view
  PROVE  /\ WaitInv' /\ SendInv'
         /\ \A i \in 1 .. Len(toViewer) : toViewer[i].type \notin Answers
         /\ view'.does = "receive" /\ toServer' # <<>>
              => toServer'[Len(toServer')].type = "header"
<1>1. Len(toServer) \in Nat
  BY QueueFacts
<1>2. WaitInv'
  BY <1>1, TakenFacts DEF Shape, WaitInv
<1>3. SendInv'
  BY <1>1, TakenFacts DEF Shape, SendInv
<1>4. \A i \in 1 .. Len(toViewer) : toViewer[i].type \notin Answers
  BY DEF Shape, AnswerInv
<1>5. view'.does = "receive" /\ toServer' # <<>>
        => toServer'[Len(toServer')].type = "header"
  <2>1. SUFFICES ASSUME view'.does = "receive", toServer' # <<>>
                 PROVE  toServer'[Len(toServer')].type = "header"
    OBVIOUS
  <2>2. Len(toServer') = Len(toServer) - 1 /\ Len(toServer') \in 1 .. Len(toServer')
        /\ Len(toServer') + 1 = Len(toServer)
    BY <1>1, <2>1, TakenFacts
  <2>3. toServer'[Len(toServer')] = toServer[Len(toServer)]
    BY <2>2, TakenFacts
  <2>. QED  BY <2>1, <2>3 DEF Shape, ReceiveInv
<1>. QED  BY <1>2, <1>3, <1>4, <1>5

LEMMA RepliedKeeps ==
  ASSUME TypeOK, NEW m \in ToViewer, m.type \notin Answers,
         toViewer' = Append(toViewer, m),
         \A i \in 1 .. Len(toViewer) : toViewer[i].type \notin Answers
  PROVE  AnswerInv'
<1>1. \A i \in 1 .. Len(toViewer') : toViewer'[i].type \notin Answers
  BY QueueFacts, RepliedFacts
<1>. QED  BY <1>1 DEF AnswerInv

LEMMA FreeShape ==
  ASSUME WaitInv', AnswerInv', SendInv', ~downloading', ~srcOpen', ~uploading',
         \A i \in 1 .. Len(toServer') : toServer'[i].type # "header",
         view'.does = "receive" /\ toServer' # <<>>
           => toServer'[Len(toServer')].type = "header"
  PROVE  Shape'
BY DEF Shape, DownInv, HeaderInv, AskInv, UpInv, ReceiveInv

LEMMA NoHeader ==
  ASSUME TypeOK, Shape, ~srcOpen \/ uploading
  PROVE  \A i \in 1 .. Len(toServer) : toServer[i].type # "header"
BY DEF Shape, HeaderInv

\* What the next message tells of the flags.
LEMMA HeadTells ==
  ASSUME TypeOK, Modes, Shape, toServer # <<>>
  PROVE  LET type == Head(toServer).type IN
         /\ type \in {"offer", "request"}
              => /\ ~downloading /\ ~srcOpen /\ ~uploading
                 /\ Len(toServer) = 1 /\ view.does = type
         /\ type \in {"packet", "eof"} => ~srcOpen
         /\ type = "abort" => (srcOpen => uploading)
         /\ type = "header" => srcOpen /\ ~uploading /\ ~downloading
         /\ type = "checksums" => ~downloading /\ ~uploading
<1>1. Len(toServer) \in Nat /\ 1 \in 1 .. Len(toServer) /\ Head(toServer) = toServer[1]
  BY QueueFacts
<1>2. toServer[1].type \notin {"packet", "eof", "abort"} => ~downloading
  <2>. SUFFICES ASSUME toServer[1].type \notin {"packet", "eof", "abort"}, downloading
                PROVE  FALSE
    OBVIOUS
  <2>1. PICK k \in 1 .. 1 : toServer[k].type \in Ending
    BY <1>1 DEF Shape, DownInv
  <2>. QED  BY <2>1 DEF Ending
<1>3. uploading => toServer[1].type = "abort"
  BY DEF Shape, UpInv
<1>4. toServer[1].type \notin {"checksums", "header"} => (srcOpen => uploading)
  <2>. SUFFICES ASSUME toServer[1].type \notin {"checksums", "header"}, srcOpen, ~uploading
                PROVE  FALSE
    OBVIOUS
  <2>1. ~AnswerWaits
    BY QueueFacts DEF AnswerWaits, Shape, AnswerInv
  <2>2. PICK i \in 1 .. Len(toServer) : toServer[i].type = "header"
    BY <2>1 DEF Shape, AskInv
  <2>. QED  BY <1>1, <2>2 DEF Shape, HeaderInv
<1>5. toServer[1].type \in {"offer", "request"}
        => Len(toServer) = 1 /\ view.does = toServer[1].type
  BY <1>1 DEF Shape, WaitInv
<1>6. toServer[1].type = "header" => srcOpen /\ ~uploading
  BY <1>1 DEF Shape, HeaderInv
<1>. QED  BY <1>1, <1>2, <1>3, <1>4, <1>5, <1>6 DEF Modes
-----------------------------------------------------------------------------
(* The client thread.                                                      *)

\* What an accepted or refused offer puts into the connection.
LEMMA AcceptFacts ==
  ASSUME TypeOK, NEW fits \in BOOLEAN, Accept(fits),
         \A i \in 1 .. Len(toViewer) : toViewer[i].type \notin Answers
  PROVE  /\ toViewer' # <<>> /\ Len(toViewer') \in Nat
         /\ toViewer'[Len(toViewer')] = [type |-> "accept", ok |-> fits]
         /\ \A i \in 1 .. Len(toViewer') :
               toViewer'[i].type \in Answers => i = Len(toViewer')
         /\ \A i \in 1 .. Len(toViewer') : toViewer'[i].type = "checksums" =>
               \/ i \in 1 .. Len(toViewer) /\ toViewer'[i] = toViewer[i]
               \/ fits /\ disk # NoFile /\ toViewer'[i].sums = Checksums(disk)
<1>. DEFINE answer == [type |-> "accept", ok |-> fits]
            a == Append(toViewer, Confirm)
            b == a \o OldSums(fits)
<1>1. toViewer \in Seq(ToViewer) /\ Confirm \in ToViewer /\ answer \in ToViewer
  BY MessagesSent DEF TypeOK
<1>2. /\ a \in Seq(ToViewer) /\ Len(a) = Len(toViewer) + 1 /\ Len(toViewer) \in Nat
      /\ \A i \in 1 .. Len(toViewer) : a[i] = toViewer[i]
      /\ a[Len(toViewer) + 1] = Confirm
      /\ a = toViewer \o <<Confirm>>
  BY <1>1, AppendProperties, AppendIsConcat
<1>3. Confirm.type = "confirm" /\ answer.type = "accept"
  BY DEF Confirm
<1>. HIDE DEF a
<1>4. /\ b \in Seq(ToViewer) /\ Len(b) \in Nat
      /\ \A i \in 1 .. Len(b) :
            \/ i \in 1 .. Len(a) /\ b[i] = a[i]
            \/ /\ fits /\ disk # NoFile
               /\ b[i].type = "checksums" /\ b[i].sums = Checksums(disk)
  <2>1. CASE disk = NoFile \/ ~fits
    <3>1. b = a
      BY <1>2, <2>1, ConcatEmptySeq DEF OldSums
    <3>. HIDE DEF b
    <3>. QED  BY <1>2, <3>1, LenProperties
  <2>2. CASE disk # NoFile /\ fits
    <3>. DEFINE c == [type |-> "checksums", sums |-> Checksums(disk)]
    <3>1. c \in ToViewer
      <4>1. disk \in Contents
        BY <2>2 DEF TypeOK
      <4>. QED  BY <4>1, ChecksumsType, MessagesSent
    <3>2. OldSums(fits) = <<c>>
      BY <2>2 DEF OldSums
    <3>3. c.type = "checksums" /\ c.sums = Checksums(disk)
      OBVIOUS
    <3>. HIDE DEF c
    <3>4. b = Append(a, c)
      BY <1>2, <3>1, <3>2, AppendIsConcat
    <3>. HIDE DEF b
    <3>. QED  BY <1>2, <2>2, <3>1, <3>3, <3>4, AppendProperties
  <2>. QED  BY <2>1, <2>2
<1>5. toViewer' = Append(b, answer)
  <2>1. toViewer' = b \o <<answer>>
    BY <1>2 DEF Accept
  <2>. QED  BY <1>1, <1>4, <2>1, AppendIsConcat
<1>. HIDE DEF b, answer
<1>6. /\ Len(toViewer') = Len(b) + 1 /\ toViewer' # <<>>
      /\ toViewer'[Len(b) + 1] = answer
      /\ \A i \in 1 .. Len(b) : toViewer'[i] = b[i]
  BY <1>1, <1>4, <1>5, AppendProperties
<1>7. \A i \in 1 .. Len(b) : /\ b[i].type \notin Answers
                             /\ b[i].type = "checksums" =>
                                  \/ i \in 1 .. Len(toViewer) /\ b[i] = toViewer[i]
                                  \/ fits /\ disk # NoFile /\ b[i].sums = Checksums(disk)
  BY <1>2, <1>3, <1>4 DEF Answers
<1>. QED  BY <1>3, <1>4, <1>6, <1>7 DEF answer

LEMMA OfferOrder ==
  ASSUME IInv, IInv', Modes, Shape, Offer
  PROVE  Modes' /\ Shape'
<1>. USE DEF IInv
<1>1. /\ toServer # <<>> /\ Taken /\ Head(toServer).type = "offer"
      /\ UNCHANGED <<upload, viewer>>
  BY DEF Offer, Takes
<1>2. /\ ~downloading /\ ~srcOpen /\ ~uploading
      /\ Len(toServer) = 1 /\ view.does = "offer"
  BY <1>1, HeadTells
<1>3. UNCHANGED <<view, srcOpen, uploading>>
  BY <1>1 DEF viewer, upload
<1>4. toServer' = <<>> /\ Len(toServer') = 0
  BY <1>1, <1>2, TakenFacts
<1>5. WaitInv' /\ SendInv' /\ HeaderInv' /\ AskInv' /\ UpInv' /\ ReceiveInv'
  BY <1>2, <1>3, <1>4 DEF WaitInv, SendInv, HeaderInv, AskInv, UpInv, ReceiveInv
<1>6. PICK fits \in BOOLEAN : /\ Accept(fits)
                              /\ downloading' = fits /\ destOpen' = fits
                              /\ buffers' = IF fits THEN "live" ELSE "freed"
  <2>1. CASE /\ Accept(TRUE)
             /\ downloading' = TRUE /\ destOpen' = TRUE /\ destPos' = 0
             /\ buffers' = "live"
    BY <2>1
  <2>2. CASE /\ Accept(FALSE)
             /\ destOpen' = FALSE /\ buffers' = "freed"
             /\ UNCHANGED <<downloading, destPos>>
    <3>1. downloading' = FALSE
      BY <1>2, <2>2 DEF TypeOK
    <3>. QED  BY <2>2, <3>1
  <2>. QED  BY <2>1, <2>2 DEF Offer
<1>7. Modes'
  BY <1>2, <1>3, <1>6 DEF Modes
<1>8. \A i \in 1 .. Len(toViewer) : toViewer[i].type \notin Answers
  BY <1>1 DEF Shape, AnswerInv
<1>9. /\ toViewer' # <<>>
      /\ toViewer'[Len(toViewer')].type = "accept"
      /\ toViewer'[Len(toViewer')].ok = fits
      /\ \A i \in 1 .. Len(toViewer') :
            toViewer'[i].type \in Answers => i = Len(toViewer')
  <2>1. Accept(fits)
    BY <1>6
  <2>2. /\ toViewer' # <<>>
        /\ toViewer'[Len(toViewer')] = [type |-> "accept", ok |-> fits]
        /\ \A i \in 1 .. Len(toViewer') :
              toViewer'[i].type \in Answers => i = Len(toViewer')
    BY <1>8, <2>1, AcceptFacts
  <2>. QED  BY <2>2
<1>10. AnswerInv'
  BY <1>2, <1>3, <1>4, <1>6, <1>9 DEF AnswerInv
<1>11. DownInv'
  BY <1>2, <1>3, <1>4, <1>9 DEF DownInv, AnswerWaits, Answers
<1>. QED  BY <1>5, <1>7, <1>10, <1>11 DEF Shape

LEMMA PacketOrder ==
  ASSUME IInv, IInv', Modes, Shape, ~refused', ReceiveFileChunk \/ DropFileChunk
  PROVE  Modes' /\ (connected' => Shape')
<1>. USE DEF IInv
<1>1. /\ toServer # <<>> /\ Head(toServer).type = "packet"
  BY DEF ReceiveFileChunk, DropFileChunk, Takes
<1>2. ~srcOpen /\ ~uploading /\ Head(toServer) = toServer[1]
  BY <1>1, HeadTells, QueueFacts DEF Modes
<1>3. ASSUME Taken, UNCHANGED <<view, uploading, srcOpen>>, ~downloading', AnswerInv'
      PROVE  Shape'
  <2>1. \A i \in 1 .. Len(toServer') : toServer'[i].type # "header"
    BY <1>1, <1>2, <1>3, NoHeader, TakenFacts
  <2>. QED  BY <1>1, <1>2, <1>3, <2>1, TakenKeeps, FreeShape
<1>4. \A i \in 1 .. Len(toViewer) : toViewer[i].type \notin Answers
  BY <1>1 DEF Shape, AnswerInv
<1>5. CASE ReceiveFileChunk
  <2>0. Taken /\ downloading /\ UNCHANGED <<view, uploading, srcOpen>>
    BY <1>5 DEF ReceiveFileChunk, upload, viewer
  <2>1. CASE toViewer' = Append(toViewer, Confirm)
             /\ UNCHANGED <<downloading, destOpen, buffers>>
    <3>1. Modes'
      BY <2>0, <2>1 DEF Modes
    <3>2. AnswerInv'
      <4>1. Confirm \in ToViewer /\ Confirm.type \notin Answers
        BY MessagesSent DEF Confirm, Answers
      <4>. QED  BY <1>4, <2>1, <4>1, RepliedKeeps
    <3>3. \A i \in 1 .. Len(toServer') : toServer'[i].type # "header"
      BY <1>1, <1>2, <2>0, NoHeader, TakenFacts
    <3>4. DownInv'
      <4>1. ASSUME NEW k \in 1 .. Len(toServer), toServer[k].type \in Ending
            PROVE  k - 1 \in 1 .. Len(toServer') /\ toServer'[k - 1].type \in Ending
        <5>1. k # 1
          BY <1>1, <1>2, <4>1 DEF Ending
        <5>2. k - 1 \in 1 .. Len(toServer') /\ (k - 1) + 1 = k
          BY <1>1, <2>0, <5>1, TakenFacts, QueueFacts
        <5>. QED  BY <1>1, <2>0, <4>1, <5>2, TakenFacts
      <4>2. ASSUME NEW i \in 1 .. Len(toServer'), toServer'[i].type # "packet"
            PROVE  \E k \in 1 .. i : toServer'[k].type \in Ending
        <5>1. i + 1 \in 1 .. Len(toServer) /\ toServer[i + 1].type # "packet"
          BY <1>1, <2>0, <4>2, TakenFacts
        <5>2. PICK k \in 1 .. (i + 1) : toServer[k].type \in Ending
          BY <2>0, <5>1 DEF Shape, DownInv
        <5>3. k \in 1 .. Len(toServer) /\ k # 1
          BY <1>1, <1>2, <5>1, <5>2, QueueFacts DEF Ending
        <5>4. k - 1 \in 1 .. i
          BY <5>2, <5>3
        <5>. QED  BY <4>1, <5>2, <5>3, <5>4
      <4>3. ~AnswerWaits
        BY <1>4, QueueFacts DEF AnswerWaits
      <4>4. \/ \E k \in 1 .. Len(toServer) : toServer[k].type \in Ending
            \/ view.does = "send"
        BY <2>0, <4>3 DEF Shape, DownInv
      <4>. QED  BY <2>0, <4>1, <4>2, <4>4 DEF DownInv
    <3>5. HeaderInv' /\ AskInv' /\ UpInv' /\ ReceiveInv'
      BY <1>1, <1>2, <2>0, <3>3, TakenKeeps DEF HeaderInv, AskInv, UpInv, ReceiveInv
    <3>. QED  BY <1>1, <2>0, <3>1, <3>2, <3>4, <3>5, TakenKeeps DEF Shape
  <2>2. CASE FinishFileReception(disk) /\ UNCHANGED toViewer
    <3>1. Modes' /\ ~downloading'
      BY <1>2, <2>0, <2>2 DEF FinishFileReception, Modes
    <3>2. AnswerInv'
      BY <1>4, <2>2 DEF AnswerInv
    <3>. QED  BY <1>3, <2>0, <3>1, <3>2
  <2>. QED  BY <1>5, <2>1, <2>2 DEF ReceiveFileChunk
<1>6. CASE DropFileChunk
  <2>1. ~downloading
    BY <1>6 DEF DropFileChunk
  <2>2. CASE Head(toServer).block \in {Here, Nothing}
    <3>1. /\ Taken
          /\ UNCHANGED <<toViewer, downloading, destOpen, uploading, srcOpen, buffers, view>>
      BY <1>6, <2>2 DEF DropFileChunk, download, upload, viewer
    <3>2. Modes'
      BY <3>1 DEF Modes
    <3>3. AnswerInv'
      BY <1>4, <3>1 DEF AnswerInv
    <3>. QED  BY <1>3, <2>1, <3>1, <3>2, <3>3
  <2>3. CASE Head(toServer).block \notin {Here, Nothing}
    BY <1>6, <2>3 DEF DropFileChunk, LoseSync, Modes, download, upload
  <2>. QED  BY <2>2, <2>3
<1>. QED  BY <1>5, <1>6

LEMMA EndOrder ==
  ASSUME IInv, IInv', Modes, Shape, ~refused', EndOfFile \/ AbortFileTransfer
  PROVE  Modes' /\ Shape'
<1>. USE DEF IInv
<1>1. /\ toServer # <<>> /\ Head(toServer).type \in {"eof", "abort"}
      /\ Taken /\ UNCHANGED <<view>>
  BY DEF EndOfFile, AbortFileTransfer, Takes, viewer
<1>2. srcOpen => uploading
  BY <1>1, HeadTells
<1>3. \A i \in 1 .. Len(toServer') : toServer'[i].type # "header"
  <2>1. ~srcOpen \/ uploading
    BY <1>2
  <2>2. \A i \in 1 .. Len(toServer) : toServer[i].type # "header"
    BY <2>1, NoHeader
  <2>. QED  BY <1>1, <2>2, TakenFacts
<1>4. ASSUME AnswerInv', ~downloading', ~srcOpen', ~uploading'
      PROVE  Shape'
  BY <1>1, <1>3, <1>4, TakenKeeps, FreeShape
<1>5. \A i \in 1 .. Len(toViewer) : toViewer[i].type \notin Answers
  BY <1>1 DEF Shape, AnswerInv
<1>6. toViewer' = toViewer => AnswerInv'
  BY <1>5 DEF AnswerInv
<1>7. toViewer' = Append(toViewer, [type |-> "abort"]) => AnswerInv'
  <2>1. [type |-> "abort"] \in ToViewer /\ [type |-> "abort"].type \notin Answers
    BY MessagesSent DEF Answers
  <2>. QED  BY <1>5, <2>1, RepliedKeeps
<1>8. CASE EndOfFile
  <2>1. UNCHANGED <<toViewer, srcOpen, uploading>> /\ ~srcOpen /\ ~uploading
    <3>1. ~srcOpen
      BY <1>1, <1>8, HeadTells DEF EndOfFile, Takes
    <3>. QED  BY <1>8, <3>1 DEF EndOfFile, upload, Modes
  <2>2. Modes' /\ ~downloading'
    <3>1. CASE enabled /\ downloading
      BY <1>8, <2>1, <3>1 DEF EndOfFile, FinishFileReception, Modes
    <3>2. CASE ~(enabled /\ downloading)
      BY <1>8, <2>1, <3>2 DEF EndOfFile, download, Modes
    <3>. QED  BY <3>1, <3>2
  <2>. QED  BY <1>4, <1>6, <2>1, <2>2
<1>9. CASE /\ downloading
           /\ FinishFileReception(disk)
           /\ UNCHANGED <<toViewer, upload>>
  BY <1>4, <1>6, <1>9 DEF FinishFileReception, Modes, upload
<1>10. CASE /\ ~downloading /\ uploading
            /\ FinishFileSending("abort")
            /\ UNCHANGED <<disk, download>>
  BY <1>4, <1>7, <1>10 DEF FinishFileSending, Modes, download
<1>11. CASE /\ ~downloading /\ ~uploading
            /\ toViewer' = Append(toViewer, [type |-> "abort"])
            /\ UNCHANGED <<disk, download, upload, buffers>>
  <2>1. ~srcOpen /\ UNCHANGED <<downloading, destOpen, uploading, srcOpen, buffers>>
    BY <1>2, <1>11 DEF download, upload
  <2>. QED  BY <1>4, <1>7, <1>11, <2>1 DEF Modes
<1>. QED  BY <1>8, <1>9, <1>10, <1>11 DEF AbortFileTransfer

LEMMA RequestOrder ==
  ASSUME IInv, IInv', Modes, Shape, Request \/ RequestUnzipped
  PROVE  Modes' /\ Shape'
<1>. USE DEF IInv
<1>1. /\ toServer # <<>> /\ Taken /\ Head(toServer).type = "request"
      /\ UNCHANGED <<view, downloading, destOpen, uploading, buffers>>
  BY DEF Request, RequestUnzipped, Takes, viewer, download, upload
<1>2. /\ ~downloading /\ ~srcOpen /\ ~uploading
      /\ Len(toServer) = 1 /\ view.does = "request"
  BY <1>1, HeadTells
<1>3. toServer' = <<>> /\ Len(toServer') = 0
  BY <1>1, <1>2, TakenFacts
<1>4. WaitInv' /\ SendInv' /\ DownInv' /\ HeaderInv' /\ UpInv' /\ ReceiveInv'
  BY <1>1, <1>2, <1>3 DEF WaitInv, SendInv, DownInv, HeaderInv, UpInv, ReceiveInv
<1>5. Modes'
  BY <1>1, <1>2 DEF Modes
<1>6. \A i \in 1 .. Len(toViewer) : toViewer[i].type \notin Answers
  BY <1>1 DEF Shape, AnswerInv
<1>7. CASE Request
  <2>1. PICK opens \in BOOLEAN :
          /\ toViewer' = Append(toViewer, [type |-> "header", ok |-> opens])
          /\ srcOpen' = opens
    BY <1>7 DEF Request
  <2>. DEFINE answer == [type |-> "header", ok |-> opens]
  <2>2. answer \in ToViewer /\ answer.type = "header" /\ answer.ok = opens
    BY MessagesSent
  <2>3. toViewer' = Append(toViewer, answer)
    BY <2>1
  <2>. HIDE DEF answer
  <2>4. /\ Len(toViewer') = Len(toViewer) + 1 /\ toViewer' # <<>>
        /\ toViewer'[Len(toViewer')] = answer
        /\ \A i \in 1 .. Len(toViewer) : toViewer'[i] = toViewer[i]
    BY <2>2, <2>3, RepliedFacts
  <2>5. AnswerInv'
    BY <1>1, <1>2, <1>3, <1>6, <2>1, <2>2, <2>4, QueueFacts DEF AnswerInv
  <2>6. AskInv'
    BY <1>1, <1>2, <2>2, <2>4 DEF AskInv, AnswerWaits, Answers
  <2>. QED  BY <1>4, <1>5, <2>5, <2>6 DEF Shape
<1>8. CASE RequestUnzipped
  <2>1. UNCHANGED <<toViewer, srcOpen>>
    BY <1>8 DEF RequestUnzipped, upload
  <2>. QED  BY <1>2, <1>4, <1>5, <1>6, <2>1 DEF Shape, AnswerInv, AskInv
<1>. QED  BY <1>7, <1>8

LEMMA ChecksumsOrder ==
  ASSUME IInv, IInv', Modes, Shape, ReceiveDestinationFileChecksums
  PROVE  Modes' /\ Shape'
<1>. USE DEF IInv
<1>1. /\ toServer # <<>> /\ Taken /\ Head(toServer).type = "checksums"
      /\ UNCHANGED <<view, toViewer, downloading, destOpen, uploading, srcOpen, buffers>>
  BY DEF ReceiveDestinationFileChecksums, Takes, viewer, download
<1>2. ~downloading /\ ~uploading /\ Head(toServer) = toServer[1]
  BY <1>1, HeadTells, QueueFacts
<1>3. \A i \in 1 .. Len(toViewer) : toViewer[i].type \notin Answers
  BY <1>1 DEF Shape, AnswerInv
<1>4. AnswerInv' /\ DownInv' /\ UpInv'
  BY <1>1, <1>2, <1>3 DEF AnswerInv, DownInv, UpInv
<1>5. ReceiveInv'
  BY <1>1, TakenKeeps DEF Shape, ReceiveInv
<1>6. HeaderInv'
  <2>. SUFFICES ASSUME NEW i \in 1 .. Len(toServer'), toServer'[i].type = "header"
                PROVE  /\ srcOpen /\ ~uploading
                       /\ \A j \in 1 .. Len(toServer') :
                             j < i => toServer'[j].type = "checksums"
                       /\ toServer'[i].ok =>
                            \/ i = Len(toServer') /\ view.does = "receive"
                            \/ i < Len(toServer') /\ toServer'[i+1].type = "abort"
    BY <1>1 DEF HeaderInv
  <2>1. i + 1 \in 1 .. Len(toServer) /\ toServer'[i] = toServer[i + 1]
    BY <1>1, TakenFacts
  <2>2. /\ srcOpen /\ ~uploading
        /\ \A j \in 1 .. Len(toServer) : j < i + 1 => toServer[j].type = "checksums"
        /\ toServer[i + 1].ok =>
             \/ i + 1 = Len(toServer) /\ view.does = "receive"
             \/ i + 1 < Len(toServer) /\ toServer[(i + 1) + 1].type = "abort"
    BY <2>1 DEF Shape, HeaderInv
  <2>3. \A j \in 1 .. Len(toServer') : j < i => toServer'[j].type = "checksums"
    BY <1>1, <2>2, TakenFacts
  <2>4. i + 1 < Len(toServer) => i + 1 \in 1 .. Len(toServer')
    BY <1>1, <2>1, TakenFacts, QueueFacts
  <2>. QED  BY <1>1, <2>1, <2>2, <2>3, <2>4, TakenFacts, QueueFacts
<1>7. AskInv'
  <2>. SUFFICES ASSUME srcOpen
                PROVE  \E i \in 1 .. Len(toServer') : toServer'[i].type = "header"
    BY <1>1 DEF AskInv
  <2>1. ~AnswerWaits
    BY <1>3, QueueFacts DEF AnswerWaits
  <2>2. PICK i \in 1 .. Len(toServer) : toServer[i].type = "header"
    BY <1>2, <2>1 DEF Shape, AskInv
  <2>3. i # 1
    BY <1>1, <1>2, <2>2
  <2>4. i - 1 \in 1 .. Len(toServer') /\ (i - 1) + 1 = i
    BY <1>1, <2>3, TakenFacts, QueueFacts
  <2>. QED  BY <1>1, <2>2, <2>4, TakenFacts
<1>8. Modes'
  BY <1>1 DEF Modes
<1>. QED  BY <1>1, <1>4, <1>5, <1>6, <1>7, <1>8, TakenKeeps DEF Shape

\* What SendFileChunk sends of a file is a packet, or nothing at its end.
LEMMA ReadAndSendSends ==
  ASSUME IInv, NEW queued, ReadAndSend(queued)
  PROVE  \/ toViewer' = toViewer
         \/ \E m \in ToViewer : m.type = "packet" /\ toViewer' = Append(toViewer, m)
<1>. USE DEF IInv
<1>1. ASSUME NEW block \in Blocks \union {Hole, Nothing}, ReadBlock(block)
      PROVE  \E m \in ToViewer : m.type = "packet" /\ toViewer' = Append(toViewer, m)
  <2>. DEFINE m == Packet(block, csBuffer, csOffset + 1)
  <2>1. m \in ToViewer
    <3>1. csOffset + 1 \in Nat /\ csBuffer \in Seq(Sums)
      BY DEF TypeOK
    <3>. QED  BY <3>1, MessagesSent
  <2>2. m.type = "packet" /\ toViewer' = Append(toViewer, m)
    BY <1>1 DEF ReadBlock, Packet
  <2>. HIDE DEF m
  <2>. QED  BY <2>1, <2>2
<1>2. ASSUME srcOpen, srcPos < Len(disk)
      PROVE  disk[srcPos + 1] \in Blocks \union {Hole, Nothing}
  BY <1>2 DEF TypeOK, FilesExist, Contents
<1>. QED  BY <1>1, <1>2 DEF ReadAndSend

\* While a file is open for the viewer's answer or for an upload, a packet
\* disturbs neither the answers nor what the viewer has to read.
LEMMA PacketSent ==
  ASSUME TypeOK, Shape, srcOpen, UNCHANGED view,
         \A i \in 1 .. Len(toViewer) : toViewer[i].type \notin Answers,
         \/ toViewer' = toViewer
         \/ \E m \in ToViewer : m.type = "packet" /\ toViewer' = Append(toViewer, m)
  PROVE  /\ AnswerInv'
         /\ view'.does = "receive" =>
              \A i \in 1 .. Len(toViewer') : toViewer'[i].type \notin Ending
<1>1. view.does = "receive" =>
        \A i \in 1 .. Len(toViewer) : toViewer[i].type \notin Ending
  BY DEF Shape, ReceiveInv
<1>2. CASE toViewer' = toViewer
  BY <1>1, <1>2 DEF AnswerInv
<1>3. CASE \E m \in ToViewer : m.type = "packet" /\ toViewer' = Append(toViewer, m)
  <2>1. PICK m \in ToViewer : m.type = "packet" /\ toViewer' = Append(toViewer, m)
    BY <1>3
  <2>2. AnswerInv'
    BY <2>1, RepliedKeeps DEF Answers
  <2>3. /\ Len(toViewer') = Len(toViewer) + 1 /\ Len(toViewer) \in Nat
        /\ toViewer'[Len(toViewer')].type = "packet"
        /\ \A i \in 1 .. Len(toViewer) : toViewer'[i] = toViewer[i]
    BY <2>1, RepliedFacts, QueueFacts
  <2>. QED  BY <1>1, <2>2, <2>3 DEF Ending
<1>. QED  BY <1>2, <1>3

LEMMA HeaderOrder ==
  ASSUME IInv, IInv', Modes, Shape, Header \/ HeaderFails
  PROVE  Modes' /\ Shape'
<1>. USE DEF IInv
<1>1. /\ toServer # <<>> /\ Taken /\ Head(toServer).type = "header"
      /\ UNCHANGED <<view, downloading, destOpen>>
  BY DEF Header, HeaderFails, Takes, viewer, download
<1>2. /\ srcOpen /\ ~uploading /\ ~downloading
      /\ Head(toServer) = toServer[1] /\ 1 \in 1 .. Len(toServer)
  BY <1>1, HeadTells, QueueFacts
<1>3. \A i \in 1 .. Len(toViewer) : toViewer[i].type \notin Answers
  BY <1>1 DEF Shape, AnswerInv
<1>4. \A i \in 1 .. Len(toServer') : toServer'[i].type # "header"
  <2>. SUFFICES ASSUME NEW i \in 1 .. Len(toServer'), toServer'[i].type = "header"
                PROVE  FALSE
    OBVIOUS
  <2>1. i + 1 \in 1 .. Len(toServer) /\ toServer[i + 1].type = "header" /\ 1 < i + 1
    BY <1>1, TakenFacts
  <2>2. toServer[1].type = "checksums"
    BY <1>2, <2>1 DEF Shape, HeaderInv
  <2>. QED  BY <1>1, <1>2, <2>2
<1>5. CASE Header
  <2>1. buffers' = "live" /\ uploading' = TRUE /\ srcOpen' = srcOpen /\ ReadAndSend(posted)
    BY <1>5 DEF Header
  <2>2. Modes'
    BY <1>1, <1>2, <2>1 DEF Modes
  <2>3. /\ AnswerInv'
        /\ view'.does = "receive" =>
             \A i \in 1 .. Len(toViewer') : toViewer'[i].type \notin Ending
    BY <1>1, <1>2, <1>3, <2>1, ReadAndSendSends, PacketSent
  <2>4. UpInv'
    <3>1. toServer[1].ok
      BY <1>2, <1>5 DEF Header
    <3>2. \/ 1 = Len(toServer) /\ view.does = "receive"
          \/ 1 < Len(toServer) /\ toServer[1 + 1].type = "abort"
      BY <1>1, <1>2, <3>1 DEF Shape, HeaderInv
    <3>3. CASE 1 = Len(toServer) /\ view.does = "receive"
      BY <1>1, <3>3, TakenFacts DEF UpInv
    <3>4. CASE 1 < Len(toServer) /\ toServer[1 + 1].type = "abort"
      <4>1. toServer' # <<>> /\ 1 \in 1 .. Len(toServer')
        BY <1>1, <3>4, TakenFacts, QueueFacts
      <4>2. toServer'[1].type = "abort"
        BY <1>1, <3>4, <4>1, TakenFacts
      <4>. QED  BY <4>1, <4>2 DEF UpInv
    <3>. QED  BY <3>2, <3>3, <3>4
  <2>5. DownInv' /\ HeaderInv' /\ AskInv'
    BY <1>1, <1>2, <1>4, <2>1 DEF DownInv, HeaderInv, AskInv
  <2>6. ReceiveInv'
    BY <1>1, <2>3, TakenKeeps DEF ReceiveInv
  <2>. QED  BY <1>1, <2>2, <2>3, <2>4, <2>5, <2>6, TakenKeeps DEF Shape
<1>6. CASE HeaderFails
  <2>1. ~srcOpen' /\ UNCHANGED <<toViewer, uploading, buffers>>
    BY <1>6 DEF HeaderFails
  <2>2. AnswerInv'
    BY <1>3, <2>1 DEF AnswerInv
  <2>3. Modes'
    BY <1>1, <1>2, <2>1 DEF Modes
  <2>4. ~downloading' /\ ~uploading'
    BY <1>1, <1>2, <2>1
  <2>. QED  BY <1>1, <1>4, <2>1, <2>2, <2>3, <2>4, TakenKeeps, FreeShape
<1>. QED  BY <1>5, <1>6

LEMMA SendFileChunkOrder ==
  ASSUME IInv, IInv', Modes, connected => Shape, SendFileChunk
  PROVE  Modes' /\ (connected' => Shape')
<1>. USE DEF IInv
<1>1. UNCHANGED <<toServer, connected, downloading, destOpen, view>>
  BY DEF SendFileChunk, download, viewer
<1>2. CASE /\ connected /\ uploading /\ ~eof
           /\ ReadAndSend(posted - 1)
           /\ UNCHANGED <<uploading, srcOpen, csBuffer, buffers>>
  <2>1. Modes'
    BY <1>1, <1>2 DEF Modes
  <2>2. Shape /\ srcOpen /\ ~downloading
    BY <1>2 DEF Modes
  <2>3. \A i \in 1 .. Len(toViewer) : toViewer[i].type \notin Answers
    BY <1>2, <2>2 DEF Shape, AnswerInv, Answers
  <2>4. /\ AnswerInv'
        /\ view'.does = "receive" =>
             \A i \in 1 .. Len(toViewer') : toViewer'[i].type \notin Ending
    BY <1>1, <1>2, <2>2, <2>3, ReadAndSendSends, PacketSent
  <2>5. WaitInv' /\ SendInv' /\ HeaderInv' /\ UpInv' /\ ReceiveInv'
    BY <1>1, <1>2, <2>2, <2>4 DEF Shape, WaitInv, SendInv, HeaderInv, UpInv, ReceiveInv
  <2>6. DownInv' /\ AskInv'
    BY <1>1, <1>2, <2>2 DEF DownInv, AskInv
  <2>. QED  BY <2>1, <2>4, <2>5, <2>6 DEF Shape
<1>3. CASE /\ connected /\ uploading /\ FinishFileSending("eof")
  <2>1. Shape /\ srcOpen /\ ~downloading
    BY <1>3 DEF Modes
  <2>2. /\ ~uploading' /\ ~srcOpen' /\ buffers' = "freed"
        /\ toViewer' = Append(toViewer, [type |-> "eof"])
    BY <1>3 DEF FinishFileSending
  <2>3. Modes'
    BY <1>1, <2>1, <2>2 DEF Modes
  <2>4. \A i \in 1 .. Len(toViewer) : toViewer[i].type \notin Answers
    BY <1>3, <2>1 DEF Shape, AnswerInv, Answers
  <2>5. AnswerInv'
    <3>1. [type |-> "eof"] \in ToViewer /\ [type |-> "eof"].type \notin Answers
      BY MessagesSent DEF Answers
    <3>. QED  BY <2>2, <2>4, <3>1, RepliedKeeps
  <2>6. \A i \in 1 .. Len(toServer') : toServer'[i].type # "header"
    BY <1>1, <1>3, <2>1, NoHeader
  <2>7. WaitInv' /\ SendInv' /\
        (view'.does = "receive" /\ toServer' # <<>>
           => toServer'[Len(toServer')].type = "header")
    BY <1>1, <2>1 DEF Shape, WaitInv, SendInv, ReceiveInv
  <2>. QED  BY <1>1, <2>1, <2>2, <2>3, <2>5, <2>6, <2>7, FreeShape
<1>4. CASE UNCHANGED <<toViewer, upload, buffers>>
  <2>1. UNCHANGED <<uploading, srcOpen>>
    BY <1>4 DEF upload
  <2>. QED
    BY <1>1, <1>4, <2>1
    DEF Modes, Shape, WaitInv, AnswerInv, SendInv, DownInv, HeaderInv, AskInv, UpInv,
        ReceiveInv, AnswerWaits
<1>. QED  BY <1>2, <1>3, <1>4 DEF SendFileChunk
-----------------------------------------------------------------------------
(* The viewer.                                                             *)

LEMMA ViewerSendsOrder ==
  ASSUME IInv, IInv', Modes, Shape,
         ViewerOffers \/ ViewerRequests \/ ViewerSendsBlock \/ ViewerEnds \/ ViewerAborts
  PROVE  Modes' /\ Shape'
<1>. USE DEF IInv
<1>1. UNCHANGED <<toViewer, downloading, destOpen, uploading, srcOpen, buffers>>
  BY DEF ViewerOffers, ViewerRequests, ViewerSendsBlock, ViewerEnds, ViewerAborts,
         ViewerChanges, download, upload
<1>2. Modes'
  BY <1>1 DEF Modes
<1>3. ASSUME view.does \in {"idle", "send", "receive"}
      PROVE  /\ \A i \in 1 .. Len(toViewer) : toViewer[i].type \notin Answers
             /\ AnswerInv' /\ ~AnswerWaits
  <2>1. \A i \in 1 .. Len(toViewer) : toViewer[i].type \notin Answers
    BY <1>3 DEF Shape, AnswerInv, Answers
  <2>. QED  BY <1>1, <2>1, QueueFacts DEF AnswerInv, AnswerWaits
<1>4. Len(toServer) \in Nat
  BY QueueFacts
<1>5. ASSUME NEW type \in {"offer", "request"}, view.does = "idle",
             Sends(<<[type |-> type]>>), Does(type)
      PROVE  Shape'
  <2>. DEFINE m == [type |-> type]
  <2>1. m \in ToServer /\ m.type = type /\ toServer' = toServer \o <<m>> /\ view'.does = type
    BY <1>5, MessagesSent DEF Sends, Does
  <2>. HIDE DEF m
  <2>2. /\ Len(toServer') = Len(toServer) + 1 /\ toServer' # <<>>
        /\ toServer'[Len(toServer')].type = type
        /\ \A i \in 1 .. Len(toServer) : toServer'[i] = toServer[i]
    BY <2>1, SentFacts
  <2>3. WaitInv' /\ SendInv' /\ ReceiveInv'
    BY <1>4, <1>5, <2>1, <2>2 DEF Shape, WaitInv, SendInv, ReceiveInv
  <2>4. DownInv'
    BY <1>1, <1>4, <1>5, <2>1, <2>2 DEF Shape, DownInv
  <2>5. HeaderInv'
    BY <1>1, <1>4, <1>5, <2>1, <2>2 DEF Shape, HeaderInv
  <2>6. AskInv' /\ UpInv'
    BY <1>1, <1>4, <1>5, <2>1, <2>2, QueueFacts DEF Shape, AskInv, UpInv
  <2>. QED  BY <1>3, <1>5, <2>3, <2>4, <2>5, <2>6 DEF Shape
<1>6. ASSUME view.does = "send"
      PROVE  ~srcOpen /\ ~uploading
  <2>1. \A i \in 1 .. Len(toServer) : toServer[i].type = "packet"
    BY <1>6 DEF Shape, SendInv
  <2>2. ~uploading
    BY <1>6, <2>1, QueueFacts DEF Shape, UpInv
  <2>. QED  BY <1>6, <2>1, <2>2 DEF Shape, AskInv
<1>7. CASE ViewerSendsBlock
  <2>. DEFINE m == Packet(vfile[view.pos + 1], view.sums, view.pos + 1)
  <2>1. /\ toServer' = toServer \o <<m>>
        /\ view.does = "send" /\ view'.does = "send"
    BY <1>7 DEF ViewerSendsBlock, Sends, TypeOK
  <2>2. m \in ToServer /\ m.type = "packet"
    <3>1. vfile \in Contents /\ view.pos \in Nat /\ view.sums \in Seq(Sums)
      BY <1>7 DEF ViewerSendsBlock, TypeOK, FilesExist
    <3>2. vfile[view.pos + 1] \in Blocks \union {Hole, Nothing}
      BY <1>7, <3>1 DEF ViewerSendsBlock, Contents
    <3>3. view.pos + 1 \in Nat
      BY <3>1
    <3>. QED  BY <3>1, <3>2, <3>3, MessagesSent DEF Packet
  <2>. HIDE DEF m
  <2>3. /\ Len(toServer') = Len(toServer) + 1 /\ toServer' # <<>>
        /\ toServer'[Len(toServer')].type = "packet"
        /\ \A i \in 1 .. Len(toServer) : toServer'[i] = toServer[i]
    BY <2>1, <2>2, SentFacts
  <2>4. \A i \in 1 .. Len(toServer') : toServer'[i].type = "packet"
    BY <1>4, <2>1, <2>3 DEF Shape, SendInv
  <2>. QED  BY <1>1, <1>2, <1>3, <1>6, <2>1, <2>4
            DEF Shape, WaitInv, SendInv, DownInv, HeaderInv, AskInv, UpInv, ReceiveInv
<1>8. ASSUME NEW type \in Ending, Sends(<<[type |-> type]>>), Does("idle"),
             \/ view.does = "send"
             \/ view.does = "receive" /\ type = "abort"
      PROVE  Shape'
  <2>. DEFINE m == [type |-> type]
  <2>1. m \in ToServer /\ m.type = type /\ toServer' = toServer \o <<m>> /\ view'.does = "idle"
    BY <1>8, MessagesSent DEF Sends, Does, Ending
  <2>. HIDE DEF m
  <2>2. /\ Len(toServer') = Len(toServer) + 1 /\ toServer' # <<>>
        /\ toServer'[Len(toServer')].type = type
        /\ \A i \in 1 .. Len(toServer) : toServer'[i] = toServer[i]
    BY <2>1, SentFacts
  <2>3. WaitInv' /\ SendInv' /\ ReceiveInv'
    BY <1>4, <1>8, <2>1, <2>2 DEF Shape, WaitInv, SendInv, ReceiveInv, Ending
  <2>4. DownInv'
    <3>1. \A i \in 1 .. Len(toServer') : toServer'[i].type # "packet"
            => (downloading => \E k \in 1 .. i : toServer'[k].type \in Ending)
      BY <1>4, <2>2 DEF Shape, DownInv
    <3>2. \E k \in 1 .. Len(toServer') : toServer'[k].type \in Ending
      BY <1>4, <2>2
    <3>. QED  BY <1>1, <3>1, <3>2 DEF DownInv
  <2>5. HeaderInv'
    <3>1. CASE view.does = "send"
      <4>1. \A i \in 1 .. Len(toServer') : toServer'[i].type # "header"
        BY <1>4, <2>2, <3>1 DEF Shape, SendInv, Ending
      <4>. QED  BY <4>1 DEF HeaderInv
    <3>2. CASE view.does = "receive" /\ type = "abort"
      BY <1>1, <1>4, <2>2, <3>2 DEF Shape, HeaderInv
    <3>. QED  BY <1>8, <3>1, <3>2
  <2>6. AskInv' /\ UpInv'
    <3>1. CASE view.does = "send"
      BY <1>1, <1>6, <3>1 DEF AskInv, UpInv
    <3>2. CASE view.does = "receive" /\ type = "abort"
      <4>1. AskInv'
        BY <1>1, <1>4, <2>2, <3>2 DEF Shape, AskInv
      <4>2. UpInv'
        BY <1>1, <1>4, <2>2, <3>2, QueueFacts DEF Shape, UpInv
      <4>. QED  BY <4>1, <4>2
    <3>. QED  BY <1>8, <3>1, <3>2
  <2>. QED  BY <1>3, <1>8, <2>3, <2>4, <2>5, <2>6 DEF Shape
<1>. QED  BY <1>2, <1>5, <1>7, <1>8
          DEF ViewerOffers, ViewerRequests, ViewerEnds, ViewerAborts, Ending

\* The viewer's end of the other queue.
LEMMA ReadFacts ==
  ASSUME TypeOK, toViewer # <<>>, toViewer' = Tail(toViewer)
  PROVE  /\ Len(toViewer') = Len(toViewer) - 1
         /\ \A i \in 1 .. Len(toViewer') :
               i + 1 \in 1 .. Len(toViewer) /\ toViewer'[i] = toViewer[i + 1]
         /\ toViewer' = <<>> <=> Len(toViewer) = 1
<1>1. toViewer \in Seq(ToViewer)
  BY DEF TypeOK
<1>. DEFINE q == Tail(toViewer)
<1>2. /\ Len(q) = Len(toViewer) - 1 /\ q \in Seq(ToViewer)
      /\ \A i \in 1 .. Len(q) : q[i] = toViewer[i+1]
  BY <1>1, HeadTailProperties
<1>3. Len(toViewer) \in Nat /\ (q = <<>> <=> Len(q) = 0)
  BY <1>1, <1>2, EmptySeq
<1>. HIDE DEF q
<1>. QED  BY <1>2, <1>3 DEF q

\* A message that is no answer leaves what the viewer waits for behind it.
LEMMA LateMessage ==
  ASSUME TypeOK, Shape, toViewer # <<>>, toViewer' = Tail(toViewer),
         Head(toViewer).type \notin Answers, view'.does = view.does,
         UNCHANGED <<toServer, downloading, uploading, srcOpen>>
  PROVE  Shape'
<1>1. Len(toViewer) \in Nat /\ toViewer[1].type \notin Answers
  BY QueueFacts
<1>2. AnswerInv'
  <2>1. ASSUME NEW i \in 1 .. Len(toViewer'), toViewer'[i].type \in Answers
        PROVE  i = Len(toViewer') /\ toViewer'[i] = toViewer[i + 1]
               /\ i + 1 \in 1 .. Len(toViewer) /\ i + 1 = Len(toViewer)
    <3>1. toViewer'[i] = toViewer[i + 1] /\ i + 1 \in 1 .. Len(toViewer)
      BY ReadFacts
    <3>2. i + 1 = Len(toViewer)
      BY <2>1, <3>1 DEF Shape, AnswerInv
    <3>. QED  BY <1>1, <3>1, <3>2, ReadFacts
  <2>. QED  BY <2>1 DEF Shape, AnswerInv
<1>3. AnswerWaits => AnswerWaits'
  <2>. SUFFICES ASSUME AnswerWaits PROVE AnswerWaits'
    OBVIOUS
  <2>1. Len(toViewer) # 1
    BY <1>1 DEF AnswerWaits
  <2>2. toViewer' # <<>> /\ Len(toViewer') \in 1 .. Len(toViewer')
        /\ Len(toViewer') + 1 = Len(toViewer)
    BY <1>1, <2>1, ReadFacts, QueueFacts
  <2>3. toViewer'[Len(toViewer')] = toViewer[Len(toViewer)]
    BY <2>2, ReadFacts
  <2>. QED  BY <2>2, <2>3 DEF AnswerWaits
<1>4. ReceiveInv'
  BY ReadFacts DEF Shape, ReceiveInv
<1>5. WaitInv' /\ SendInv' /\ HeaderInv' /\ UpInv'
  BY DEF Shape, WaitInv, SendInv, HeaderInv, UpInv
<1>6. DownInv' /\ AskInv'
  BY <1>3 DEF Shape, DownInv, AskInv
<1>. QED  BY <1>2, <1>4, <1>5, <1>6 DEF Shape

LEMMA ViewerTakesOrder ==
  ASSUME IInv, IInv', Modes, Shape, ViewerTakes
  PROVE  Modes' /\ Shape'
<1>. USE DEF IInv
<1>. DEFINE m == Head(toViewer)
<1>1. /\ toViewer # <<>> /\ toViewer' = Tail(toViewer)
      /\ UNCHANGED <<downloading, destOpen, uploading, srcOpen, buffers>>
  BY DEF ViewerTakes, ViewerChanges, download, upload
<1>2. Modes'
  BY <1>1 DEF Modes
<1>3. m = toViewer[1] /\ 1 \in 1 .. Len(toViewer)
  BY <1>1, QueueFacts
<1>4. ASSUME m.type \in Answers
      PROVE  /\ toServer = <<>> /\ toViewer' = <<>> /\ Len(toViewer') = 0
             /\ m.type = "accept" =>
                  view.does = "offer" /\ ~srcOpen /\ (m.ok <=> downloading)
             /\ m.type = "header" =>
                  view.does = "request" /\ ~downloading /\ ~uploading /\ (m.ok <=> srcOpen)
  <2>1. 1 = Len(toViewer)
    BY <1>3, <1>4 DEF Shape, AnswerInv
  <2>. QED  BY <1>1, <1>3, <1>4, <2>1, ReadFacts DEF Shape, AnswerInv
<1>5. ASSUME toServer' = <<>>, toViewer' = <<>>, ~srcOpen,
             downloading => view'.does = "send"
      PROVE  Shape'
  <2>1. ~uploading /\ Len(toServer') = 0 /\ Len(toViewer') = 0
    BY <1>5 DEF Modes
  <2>. QED  BY <1>1, <1>5, <2>1
            DEF Shape, WaitInv, AnswerInv, SendInv, DownInv, HeaderInv, AskInv, UpInv,
                ReceiveInv
<1>6. CASE /\ view.does = "offer" /\ m.type = "checksums"
           /\ view' = [view EXCEPT !.sums = m.sums]
           /\ UNCHANGED <<toServer, vfile>>
  <2>1. view'.does = view.does
    BY <1>6 DEF TypeOK
  <2>. QED  BY <1>1, <1>2, <1>6, <2>1, LateMessage DEF Answers
<1>7. CASE /\ view.does = "offer" /\ m.type = "accept"
           /\ view' = [view EXCEPT !.does = IF m.ok THEN "send" ELSE "idle"]
           /\ UNCHANGED <<toServer, vfile>>
  <2>1. /\ toServer = <<>> /\ toViewer' = <<>> /\ ~srcOpen
        /\ m.ok <=> downloading
    BY <1>4, <1>7 DEF Answers
  <2>2. view'.does = IF m.ok THEN "send" ELSE "idle"
    BY <1>7 DEF TypeOK
  <2>. QED  BY <1>2, <1>5, <1>7, <2>1, <2>2
<1>8. CASE /\ view.does = "request" /\ m.type = "header" /\ m.ok
           /\ Sends(IF vfile = NoFile THEN <<[type |-> "header", ok |-> TRUE]>>
                    ELSE <<[type |-> "checksums", sums |-> Checksums(vfile)],
                           [type |-> "header", ok |-> TRUE]>>)
           /\ Does("receive")
  <2>1. /\ toServer = <<>> /\ toViewer' = <<>> /\ Len(toViewer') = 0
        /\ srcOpen /\ ~downloading /\ ~uploading
    BY <1>4, <1>8 DEF Answers
  <2>2. view'.does = "receive"
    BY <1>8 DEF Does
  <2>3. /\ Len(toServer') \in 1 .. 2 /\ toServer' # <<>>
        /\ \A i \in 1 .. Len(toServer') :
              /\ i < Len(toServer') => toServer'[i].type = "checksums"
              /\ i = Len(toServer') => toServer'[i].type = "header"
    BY <1>8, <2>1 DEF Sends
  <2>4. HeaderInv'
    <3>1. \A i, j \in 1 .. Len(toServer') : j < i => j < Len(toServer')
      BY <2>3
    <3>2. \A i \in 1 .. Len(toServer') : toServer'[i].type = "header" => i = Len(toServer')
      BY <2>3
    <3>. QED  BY <1>1, <2>1, <2>2, <2>3, <3>1, <3>2 DEF HeaderInv
  <2>5. AskInv' /\ WaitInv' /\ ReceiveInv'
    <3>1. Len(toServer') \in 1 .. Len(toServer')
      BY <2>3
    <3>2. toServer'[Len(toServer')].type = "header"
      BY <2>3, <3>1
    <3>3. \A i \in 1 .. Len(toServer') : toServer'[i].type \in {"checksums", "header"}
      BY <2>3
    <3>4. AskInv'
      BY <3>1, <3>2 DEF AskInv
    <3>5. WaitInv'
      BY <3>3 DEF WaitInv
    <3>6. ReceiveInv'
      BY <2>1, <3>2 DEF ReceiveInv
    <3>. QED  BY <3>4, <3>5, <3>6
  <2>6. AnswerInv' /\ SendInv' /\ DownInv' /\ UpInv'
    <3>1. AnswerInv'
      BY <2>1 DEF AnswerInv
    <3>2. SendInv'
      BY <2>2 DEF SendInv
    <3>3. DownInv' /\ UpInv'
      BY <1>1, <2>1 DEF DownInv, UpInv
    <3>. QED  BY <3>1, <3>2, <3>3
  <2>. QED  BY <1>2, <2>4, <2>5, <2>6 DEF Shape
<1>9. CASE /\ view.does = "request" /\ m.type = "header" /\ m.ok
           /\ Sends(<<[type |-> "header", ok |-> FALSE]>>)
           /\ Does("idle")
  <2>1. /\ toServer = <<>> /\ toViewer' = <<>> /\ Len(toViewer') = 0
        /\ srcOpen /\ ~downloading /\ ~uploading
    BY <1>4, <1>9 DEF Answers
  <2>2. view'.does = "idle"
    BY <1>9 DEF Does
  <2>3. /\ Len(toServer') = 1 /\ toServer' # <<>>
        /\ toServer'[1].type = "header" /\ ~toServer'[1].ok
    <3>. DEFINE reply == [type |-> "header", ok |-> FALSE]
    <3>1. reply \in ToServer /\ reply.type = "header" /\ ~reply.ok
      BY MessagesSent
    <3>2. toServer' = toServer \o <<reply>> /\ Len(toServer) = 0
      BY <1>9, <2>1 DEF Sends
    <3>. HIDE DEF reply
    <3>. QED  BY <3>1, <3>2, SentFacts
  <2>4. /\ srcOpen' /\ ~uploading'
        /\ \A i \in 1 .. Len(toServer') : i = 1
    BY <1>1, <2>1, <2>3
  <2>5. HeaderInv' /\ AskInv' /\ WaitInv' /\ ReceiveInv'
    <3>1. HeaderInv'
      BY <2>3, <2>4 DEF HeaderInv
    <3>2. 1 \in 1 .. Len(toServer')
      BY <2>3
    <3>3. AskInv'
      BY <2>3, <3>2 DEF AskInv
    <3>4. WaitInv' /\ ReceiveInv'
      BY <2>2, <2>3, <2>4 DEF WaitInv, ReceiveInv
    <3>. QED  BY <3>1, <3>3, <3>4
  <2>6. AnswerInv' /\ SendInv' /\ DownInv' /\ UpInv'
    <3>1. AnswerInv'
      BY <2>1 DEF AnswerInv
    <3>2. SendInv'
      BY <2>2 DEF SendInv
    <3>3. DownInv' /\ UpInv'
      BY <1>1, <2>1 DEF DownInv, UpInv
    <3>. QED  BY <3>1, <3>2, <3>3
  <2>. QED  BY <1>2, <2>5, <2>6 DEF Shape
<1>10. CASE /\ view.does = "request" /\ m.type = "header" /\ ~m.ok
            /\ UNCHANGED <<toServer>>
  <2>1. toServer = <<>> /\ toViewer' = <<>> /\ ~srcOpen /\ ~downloading
    BY <1>4, <1>10 DEF Answers
  <2>. QED  BY <1>2, <1>5, <1>10, <2>1
<1>11. CASE /\ view.does = "receive" /\ m.type = "packet"
            /\ view' = [view EXCEPT !.pos = Advanced(view.pos, m.block)]
            /\ UNCHANGED toServer
  <2>1. view'.does = view.does
    BY <1>11 DEF TypeOK
  <2>. QED  BY <1>1, <1>2, <1>11, <2>1, LateMessage DEF Answers
<1>12. CASE /\ view.does = "receive" /\ m.type \in Ending
            /\ Does("idle") /\ UNCHANGED toServer
  <2>1. ~srcOpen /\ ~uploading
    BY <1>3, <1>12 DEF Shape, ReceiveInv, Modes
  <2>2. toServer = <<>>
    <3>1. \A i \in 1 .. Len(toServer) : toServer[i].type # "header"
      BY <2>1, NoHeader
    <3>2. toServer # <<>> => Len(toServer) \in 1 .. Len(toServer)
      BY QueueFacts
    <3>. QED  BY <1>12, <3>1, <3>2 DEF Shape, ReceiveInv
  <2>3. ~downloading
    BY <1>12, <2>2, QueueFacts DEF Shape, DownInv
  <2>4. \A i \in 1 .. Len(toViewer) : toViewer[i].type \notin Answers
    BY <1>12 DEF Shape, AnswerInv, Answers
  <2>5. AnswerInv'
    BY <1>1, <2>4, ReadFacts DEF AnswerInv
  <2>6. view'.does = "idle" /\ toServer' = <<>> /\ Len(toServer') = 0
    BY <1>12, <2>2 DEF Does
  <2>. QED  BY <1>1, <1>2, <2>1, <2>3, <2>5, <2>6
            DEF Shape, WaitInv, SendInv, DownInv, HeaderInv, AskInv, UpInv, ReceiveInv
<1>13. CASE /\ ~ \/ view.does = "offer" /\ m.type \in {"checksums", "accept"}
                 \/ view.does = "request" /\ m.type = "header"
                 \/ view.does = "receive" /\ m.type \in {"packet", "eof", "abort"}
            /\ UNCHANGED <<toServer, viewer>>
  <2>1. m.type \notin Answers
    BY <1>4, <1>13 DEF Answers
  <2>. QED  BY <1>1, <1>2, <1>13, <2>1, LateMessage DEF viewer
<1>. HIDE DEF m
<1>. QED  BY <1>6, <1>7, <1>8, <1>9, <1>10, <1>11, <1>12, <1>13
          DEF ViewerTakes, Ending, m
-----------------------------------------------------------------------------
(* The order of the messages is kept by every step.                        *)

LEMMA OrderInit == Init => Order
BY DEF Init, Order, Modes, Shape, WaitInv, AnswerInv, SendInv, DownInv, HeaderInv, AskInv,
       UpInv, ReceiveInv

\* Neither the connection nor an unbroken record of it comes back.
LEMMA GoneForGood ==
  ASSUME TypeOK, [Next]_vars
  PROVE  (connected' => connected) /\ (~refused' => ~refused)
<1>1. connected' => connected
  BY DEF Next, ClientThread, Viewer, Offer, OfferRefused, ReceiveFileChunk, DropFileChunk,
         EndOfFile, Request, RequestUnzipped, RequestRefused,
         ReceiveDestinationFileChecksums, Header, HeaderFails, AbortFileTransfer, Takes,
         LoseSync, SendFileChunk, EnableFileTransfer, ViewerOffers, ViewerRequests,
         ViewerSendsBlock, ViewerEnds, ViewerAborts, ViewerTakes, ViewerLeaves,
         ViewerChanges, vars
<1>2. UNCHANGED refused \/ DropFileChunk \/ EndOfFile
  BY DEF Next, ClientThread, Viewer, Offer, OfferRefused, ReceiveFileChunk, Request,
         RequestUnzipped, RequestRefused, ReceiveDestinationFileChecksums, Header,
         HeaderFails, AbortFileTransfer, SendFileChunk, EnableFileTransfer,
         ViewerOffers, ViewerRequests, ViewerSendsBlock, ViewerEnds, ViewerAborts,
         ViewerTakes, ViewerLeaves, ViewerChanges, history, vars
<1>3. refused \in BOOLEAN
  BY DEF TypeOK
<1>. QED  BY <1>1, <1>2, <1>3 DEF DropFileChunk, EndOfFile

LEMMA OrderNext == IInv /\ IInv' /\ Order /\ [Next]_vars => Order'
<1>. SUFFICES ASSUME IInv, IInv', Order, [Next]_vars, ~refused'
              PROVE  Modes' /\ (connected' => Shape')
  BY DEF Order
<1>1. ~refused
  BY GoneForGood DEF IInv
<1>2. Modes /\ (connected => Shape)
  BY <1>1 DEF Order
<1>3. CASE LoseSync
  BY <1>2, <1>3 DEF LoseSync, Modes, download, upload
<1>4. CASE ClientThread /\ ~LoseSync
  <2>1. connected
    BY <1>4 DEF ClientThread, Takes, Offer, OfferRefused, ReceiveFileChunk, DropFileChunk,
                EndOfFile, Request, RequestUnzipped, RequestRefused,
                ReceiveDestinationFileChecksums, Header, HeaderFails, AbortFileTransfer
  <2>. QED  BY <1>2, <1>4, <2>1, OfferOrder, PacketOrder, EndOrder, RequestOrder,
               ChecksumsOrder, HeaderOrder
            DEF ClientThread, OfferRefused, RequestRefused
<1>5. CASE SendFileChunk
  BY <1>2, <1>5, SendFileChunkOrder
<1>6. CASE EnableFileTransfer \/ UNCHANGED vars
  <2>1. UNCHANGED <<toServer, toViewer, connected, downloading, destOpen, uploading,
                    srcOpen, buffers, view>>
    BY <1>6 DEF EnableFileTransfer, vars, wire, download, upload, viewer
  <2>. QED
    BY <1>2, <2>1
    DEF Modes, Shape, WaitInv, AnswerInv, SendInv, DownInv, HeaderInv, AskInv, UpInv,
        ReceiveInv, AnswerWaits
<1>7. CASE Viewer /\ ~LoseSync
  <2>1. CASE connected
    BY <1>2, <1>7, <2>1, ViewerSendsOrder, ViewerTakesOrder DEF Viewer, ViewerLeaves
  <2>2. CASE ~connected
    <3>1. UNCHANGED <<connected, downloading, destOpen, uploading, srcOpen, buffers>>
      BY <1>7, <2>2
      DEF Viewer, ViewerLeaves, ViewerOffers, ViewerRequests, ViewerSendsBlock, ViewerEnds,
          ViewerAborts, ViewerTakes, ViewerChanges, download, upload
    <3>. QED  BY <1>2, <2>2, <3>1 DEF Modes
  <2>. QED  BY <2>1, <2>2
<1>. QED  BY <1>3, <1>4, <1>5, <1>6, <1>7 DEF Next

LEMMA AlwaysOrder == Spec => [](IInv /\ Order)
BY InitIInv, NextIInv, OrderInit, OrderNext, PTL DEF Spec

\* While no message of a running download has been refused, at most one
\* transfer runs and its buffers and its handle are there, whatever the two
\* sides abort, fail to open or leave behind in the connection.
THEOREM BuffersAreLive == Spec => []LiveBuffers
<1>1. Order => LiveBuffers
  BY DEF Order, Modes, LiveBuffers
<1>. QED  BY <1>1, AlwaysOrder, PTL

\* When the viewer is connected and idle and nothing is on its way to the
\* server or posted, nothing runs, no file is open and no buffer is held,
\* unless a message of a running download has been refused.
THEOREM NothingIsLeftOpen == Spec => []NothingLeftOpen
<1>1. IInv /\ Order => NothingLeftOpen
  <2>. SUFFICES ASSUME IInv, Order, connected, ~refused, view.does = "idle", toServer = <<>>
                PROVE  /\ ~downloading /\ ~uploading
                       /\ ~destOpen /\ ~srcOpen /\ buffers # "live"
    BY DEF NothingLeftOpen
  <2>1. Modes /\ Shape /\ Len(toServer) = 0
    BY DEF Order
  <2>2. ~downloading /\ ~uploading
    BY <2>1 DEF Shape, DownInv, UpInv
  <2>3. ~srcOpen
    BY <2>1, <2>2 DEF Shape, AskInv
  <2>. QED  BY <2>1, <2>2, <2>3 DEF Modes
<1>. QED  BY <1>1, AlwaysOrder, PTL
-----------------------------------------------------------------------------
(***************************************************************************)
(* What the receiver has at the end of a transfer.  Up to the receiver's   *)
(* file pointer the two files agree, and each packet in the connection     *)
(* carries the next block, or says Here of a block that they share.  The   *)
(* packets before the end of the file are as many as the sender's file has *)
(* blocks left.                                                            *)
(***************************************************************************)
Same(a, b, i) == i \in 1 .. Len(a) /\ i \in 1 .. Len(b) /\ a[i] = b[i]

\* The packet m brings block i of the file `from` to who has the file `to`.
Carries(m, from, to, i) ==
    /\ i \in 1 .. Len(from)
    /\ \/ m.block = from[i]
       \/ m.block = Here /\ Same(from, to, i)

\* Checksums are right for the blocks that have not been written since.
Matches(sums, file, pos) ==
    \A i \in 1 .. Len(sums) : i > pos => i \in 1 .. Len(file) /\ sums[i] = Sum(file[i])

\* An offer is answered with checksums and the answer, one after the other.
OfferInSync ==
    /\ view.does = "offer" /\ ~AnswerWaits => view.pos = 0 /\ view.sums = <<>>
    /\ \A i \in 1 .. Len(toViewer) : toViewer[i].type = "checksums" => AnswerWaits

OnlyPackets(q, n) == \A k \in 1 .. n : q[k].type = "packet"

DownloadInSync ==
    downloading =>
        /\ vfile # NoFile
        /\ \A i \in 1 .. destPos : Same(vfile, disk, i)
        /\ \A j \in 1 .. Len(toServer) :
              OnlyPackets(toServer, j) => Carries(toServer[j], vfile, disk, destPos + j)
        /\ \A j \in 1 .. Len(toServer) :
              OnlyPackets(toServer, j - 1) /\ toServer[j].type = "eof"
                  => Len(vfile) = destPos + (j - 1)
        /\ view.does = "send" => /\ view.pos = destPos + Len(toServer)
                                 /\ Matches(view.sums, disk, view.pos)
        /\ view.does = "offer" /\ AnswerWaits =>
              /\ destPos = 0 /\ view.pos = 0 /\ Matches(view.sums, disk, 0)
              /\ \A i \in 1 .. Len(toViewer) :
                    toViewer[i].type = "checksums" => Matches(toViewer[i].sums, disk, 0)

-----------------------------------------------------------------------------
LEMMA WrittenFacts ==
  ASSUME NEW file \in Contents, NEW pos \in Nat, NEW block
  PROVE  LET w == Written(file, pos, block) IN
         /\ Len(w) \in Nat /\ pos + 1 \in 1 .. Len(w) /\ w[pos + 1] = block
         /\ \A i \in 1 .. Len(file) : i \in 1 .. Len(w) /\ (i # pos + 1 => w[i] = file[i])
<1>. DEFINE size == IF Len(file) > pos THEN Len(file) ELSE pos + 1
            w == Written(file, pos, block)
<1>1. Len(file) \in Nat /\ DOMAIN file = 1 .. Len(file)
  BY DEF Contents
<1>2. size \in Nat /\ size >= Len(file) /\ size >= pos + 1
  BY <1>1
<1>3. w = [k \in 1 .. size |-> IF k = pos + 1 THEN block ELSE At(file, k)]
  BY DEF Written
<1>. HIDE DEF w, size
<1>4. Len(w) = size
  BY <1>2, <1>3
<1>5. pos + 1 \in 1 .. size /\ w[pos + 1] = block
  BY <1>2, <1>3
<1>6. \A i \in 1 .. Len(file) : i \in 1 .. size /\ (i # pos + 1 => w[i] = file[i])
  BY <1>1, <1>2, <1>3 DEF At
<1>. QED  BY <1>2, <1>4, <1>5, <1>6 DEF w

\* A block received brings the two files one block closer.
LEMMA ReceivedFacts ==
  ASSUME NEW from \in Contents, NEW to \in Contents, NEW pos \in Nat, NEW m,
         \A i \in 1 .. pos : Same(from, to, i), Carries(m, from, to, pos + 1)
  PROVE  LET r == Received(to, pos, m.block) IN
         /\ Advanced(pos, m.block) = pos + 1
         /\ \A i \in 1 .. pos + 1 : Same(from, r, i)
         /\ \A i \in 1 .. Len(to) : i \in 1 .. Len(r) /\ (i # pos + 1 => r[i] = to[i])
<1>. DEFINE r == Received(to, pos, m.block)
<1>1. pos + 1 \in 1 .. Len(from) /\ from[pos + 1] \in Blocks \union {Hole}
  BY DEF Carries, Contents
<1>2. m.block = Here \/ m.block \notin {Here, Nothing}
  BY <1>1, FileAssumption DEF Carries
<1>3. Advanced(pos, m.block) = pos + 1
  BY <1>2, FileAssumption DEF Advanced
<1>4. CASE m.block = Here
  <2>1. r = to
    BY <1>4 DEF Received
  <2>2. Same(from, to, pos + 1)
    BY <1>1, <1>4, FileAssumption DEF Carries
  <2>3. \A i \in 1 .. pos + 1 : i \in 1 .. pos \/ i = pos + 1
    OBVIOUS
  <2>. HIDE DEF r
  <2>4. \A i \in 1 .. pos + 1 : Same(from, r, i)
    BY <2>1, <2>2, <2>3
  <2>. QED  BY <1>3, <2>1, <2>4 DEF r
<1>5. CASE m.block \notin {Here, Nothing}
  <2>1. r = Written(to, pos, m.block) /\ m.block = from[pos + 1]
    BY <1>5 DEF Received, Carries
  <2>2. /\ Len(r) \in Nat /\ pos + 1 \in 1 .. Len(r) /\ r[pos + 1] = m.block
        /\ \A i \in 1 .. Len(to) : i \in 1 .. Len(r) /\ (i # pos + 1 => r[i] = to[i])
    BY <2>1, WrittenFacts
  <2>. HIDE DEF r
  <2>3. ASSUME NEW i \in 1 .. pos + 1 PROVE Same(from, r, i)
    <3>1. CASE i = pos + 1
      BY <1>1, <2>1, <2>2, <3>1 DEF Same
    <3>2. CASE i # pos + 1
      <4>1. i \in 1 .. pos
        BY <3>2
      <4>2. Same(from, to, i)
        BY <4>1
      <4>. QED  BY <2>2, <3>2, <4>2 DEF Same
    <3>. QED  BY <3>1, <3>2
  <2>. QED  BY <1>3, <2>2, <2>3 DEF r
<1>. QED  BY <1>2, <1>4, <1>5

\* Cut off where the other file ends, the two files are the same.
LEMMA TruncatedFacts ==
  ASSUME NEW from \in Contents, NEW to \in Contents, NEW pos \in Nat,
         \A i \in 1 .. pos : Same(from, to, i), Len(from) = pos
  PROVE  Truncated(to, pos) = from
<1>1. from = [i \in 1 .. pos |-> from[i]]
  BY DEF Contents
<1>2. \A i \in 1 .. pos : At(to, i) = from[i]
  <2>1. DOMAIN to = 1 .. Len(to)
    BY DEF Contents
  <2>. QED  BY <2>1 DEF At, Same
<1>. QED  BY <1>1, <1>2 DEF Truncated

\* What a sender puts on the wire carries the block, if its checksums are right.
LEMMA PacketCarries ==
  ASSUME NEW from \in Contents, NEW to, NEW sums \in Seq(Sums), NEW pos \in Nat,
         NEW i \in 1 .. Len(from), i > pos, Matches(sums, to, pos),
         NEW k \in Nat, k \in 1 .. Len(sums) => k = i
  PROVE  Carries(Packet(from[i], sums, k), from, to, i)
<1>. DEFINE m == Packet(from[i], sums, k)
<1>1. m.block = IF k \in DOMAIN sums /\ sums[k] = Sum(from[i]) THEN Here ELSE from[i]
  BY DEF Packet
<1>2. ASSUME k \in DOMAIN sums, sums[k] = Sum(from[i]) PROVE Same(from, to, i)
  <2>1. k = i /\ i \in 1 .. Len(sums)
    BY <1>2
  <2>2. i \in 1 .. Len(to) /\ sums[i] = Sum(to[i])
    BY <2>1 DEF Matches
  <2>3. Sum(to[i]).adler32 = Sum(from[i]).adler32
    BY <1>2, <2>1, <2>2
  <2>. QED  BY <2>2, <2>3 DEF Same, Sum
<1>. HIDE DEF m
<1>. QED  BY <1>1, <1>2 DEF Carries, m

\* A message is added to those on their way to the viewer, or none.
Adds(m) == m \in ToViewer /\ toViewer' = Append(toViewer, m)

AddsNoAnswer ==
    \/ toViewer' = toViewer
    \/ \E m \in ToViewer : m.type \notin Answers \union {"checksums"} /\ Adds(m)

\* Only an offer and a request are answered.
LEMMA OthersAnswerNothing ==
  ASSUME IInv, ReceiveFileChunk \/ DropFileChunk \/ EndOfFile \/ RequestUnzipped
               \/ ReceiveDestinationFileChecksums \/ Header \/ HeaderFails
               \/ AbortFileTransfer \/ SendFileChunk
  PROVE  LoseSync \/ AddsNoAnswer
<1>1. \A type \in {"eof", "abort"} : [type |-> type] \in ToViewer
  BY MessagesSent
<1>2. Confirm \in ToViewer /\ Confirm.type \notin Answers \union {"checksums"}
  BY MessagesSent DEF Confirm, Answers
<1>3. ASSUME NEW type \in {"eof", "abort"}, toViewer' = Append(toViewer, [type |-> type])
      PROVE  AddsNoAnswer
  <2>. DEFINE m == [type |-> type]
  <2>1. m \in ToViewer /\ m.type \notin Answers \union {"checksums"}
        /\ toViewer' = Append(toViewer, m)
    BY <1>1, <1>3 DEF Answers
  <2>. HIDE DEF m
  <2>. QED  BY <2>1 DEF AddsNoAnswer, Adds
<1>4. ASSUME NEW queued, ReadAndSend(queued) PROVE AddsNoAnswer
  BY <1>4, ReadAndSendSends DEF AddsNoAnswer, Adds, Answers
<1>5. CASE ReceiveFileChunk
  BY <1>2, <1>5 DEF ReceiveFileChunk, AddsNoAnswer, Adds
<1>6. CASE DropFileChunk \/ EndOfFile \/ RequestUnzipped \/ ReceiveDestinationFileChecksums
           \/ HeaderFails
  BY <1>6 DEF DropFileChunk, EndOfFile, RequestUnzipped, ReceiveDestinationFileChecksums,
              HeaderFails, AddsNoAnswer
<1>7. CASE Header
  BY <1>4, <1>7 DEF Header
<1>8. CASE AbortFileTransfer
  <2>1. \/ toViewer' = toViewer
        \/ toViewer' = Append(toViewer, [type |-> "abort"])
    BY <1>8 DEF AbortFileTransfer, FinishFileSending
  <2>. QED  BY <1>3, <2>1 DEF AddsNoAnswer
<1>9. CASE SendFileChunk
  <2>1. \/ toViewer' = toViewer
        \/ toViewer' = Append(toViewer, [type |-> "eof"])
        \/ ReadAndSend(posted - 1)
    BY <1>9 DEF SendFileChunk, FinishFileSending
  <2>. QED  BY <1>3, <1>4, <2>1 DEF AddsNoAnswer
<1>. QED  BY <1>5, <1>6, <1>7, <1>8, <1>9

\* Then the viewer has no answer to wait for, and no checksums either.
LEMMA NoAnswerThere ==
  ASSUME TypeOK, Shape, OfferInSync, AddsNoAnswer, toServer # <<>> \/ uploading, Modes
  PROVE  /\ ~AnswerWaits /\ ~AnswerWaits'
         /\ \A i \in 1 .. Len(toViewer') : toViewer'[i].type # "checksums"
<1>1. \A i \in 1 .. Len(toViewer) : toViewer[i].type \notin Answers
  BY DEF Shape, AnswerInv, Modes, Answers
<1>2. ~AnswerWaits
  BY <1>1, QueueFacts DEF AnswerWaits
<1>3. \A i \in 1 .. Len(toViewer) : toViewer[i].type # "checksums"
  BY <1>2 DEF OfferInSync
<1>4. CASE toViewer' = toViewer
  BY <1>2, <1>3, <1>4 DEF AnswerWaits
<1>5. CASE \E m \in ToViewer : m.type \notin Answers \union {"checksums"} /\ Adds(m)
  <2>1. PICK m \in ToViewer : /\ m.type \notin Answers \union {"checksums"}
                              /\ toViewer' = Append(toViewer, m)
    BY <1>5 DEF Adds
  <2>2. /\ Len(toViewer') = Len(toViewer) + 1 /\ Len(toViewer) \in Nat
        /\ toViewer'[Len(toViewer')] = m
        /\ \A i \in 1 .. Len(toViewer) : toViewer'[i] = toViewer[i]
    BY <2>1, RepliedFacts, QueueFacts
  <2>. QED  BY <1>2, <1>3, <2>1, <2>2 DEF AnswerWaits
<1>. QED  BY <1>2, <1>4, <1>5 DEF AddsNoAnswer
-----------------------------------------------------------------------------
(* Offers.                                                                 *)

\* The client thread and the window thread.
LEMMA ServerOfferInSync ==
  ASSUME IInv, IInv', Modes, Shape, OfferInSync, ClientThread \/ SendFileChunk, connected'
  PROVE  OfferInSync'
<1>. USE DEF IInv
<1>0. ~LoseSync
  BY DEF LoseSync
<1>1. UNCHANGED view
  BY <1>0 DEF ClientThread, Offer, OfferRefused, ReceiveFileChunk, DropFileChunk, EndOfFile,
         Request, RequestUnzipped, RequestRefused, ReceiveDestinationFileChecksums, Header,
         HeaderFails, AbortFileTransfer, SendFileChunk, viewer
<1>2. ASSUME toServer # <<>> \/ uploading, AddsNoAnswer PROVE OfferInSync'
  BY <1>1, <1>2, NoAnswerThere DEF OfferInSync
<1>3. CASE Offer
  <2>1. PICK fits \in BOOLEAN : Accept(fits)
    BY <1>3 DEF Offer
  <2>2. \A i \in 1 .. Len(toViewer) : toViewer[i].type \notin Answers
    BY <1>3 DEF Shape, AnswerInv, Offer, Takes
  <2>3. toViewer' # <<>> /\ toViewer'[Len(toViewer')] = [type |-> "accept", ok |-> fits]
    BY <2>1, <2>2, AcceptFacts
  <2>4. AnswerWaits'
    BY <2>3 DEF AnswerWaits, Answers
  <2>. QED  BY <2>4 DEF OfferInSync
<1>4. CASE Request
  <2>1. toServer # <<>> /\ Head(toServer).type = "request"
    BY <1>4 DEF Request, Takes
  <2>2. view.does = "request"
    BY <2>1, HeadTells
  <2>3. PICK opens \in BOOLEAN : toViewer' = Append(toViewer, [type |-> "header", ok |-> opens])
    BY <1>4 DEF Request
  <2>. DEFINE answer == [type |-> "header", ok |-> opens]
  <2>4. answer \in ToViewer /\ answer.type = "header" /\ toViewer' = Append(toViewer, answer)
    BY <2>3, MessagesSent
  <2>. HIDE DEF answer
  <2>5. toViewer' # <<>> /\ toViewer'[Len(toViewer')].type = "header"
    BY <2>4, RepliedFacts
  <2>. QED  BY <1>1, <2>2, <2>5 DEF OfferInSync, AnswerWaits, Answers
<1>5. CASE SendFileChunk
  <2>1. CASE uploading
    BY <1>0, <1>2, <1>5, <2>1, OthersAnswerNothing
  <2>2. CASE ~uploading
    <3>1. toViewer' = toViewer
      BY <1>5, <2>2 DEF SendFileChunk
    <3>. QED  BY <1>1, <3>1 DEF OfferInSync, AnswerWaits
  <2>. QED  BY <2>1, <2>2
<1>6. CASE ReceiveFileChunk \/ DropFileChunk \/ EndOfFile \/ RequestUnzipped
           \/ ReceiveDestinationFileChecksums \/ Header \/ HeaderFails \/ AbortFileTransfer
  <2>1. toServer # <<>>
    BY <1>6 DEF ReceiveFileChunk, DropFileChunk, EndOfFile, RequestUnzipped, Takes,
                ReceiveDestinationFileChecksums, Header, HeaderFails, AbortFileTransfer
  <2>. QED  BY <1>0, <1>2, <1>6, <2>1, OthersAnswerNothing
<1>. QED  BY <1>0, <1>3, <1>4, <1>5, <1>6 DEF ClientThread, OfferRefused, RequestRefused

\* The viewer takes something that is no answer, or the answer, the last.
LEMMA ReadAnswer ==
  ASSUME TypeOK, Shape, toViewer # <<>>, toViewer' = Tail(toViewer)
  PROVE  /\ Head(toViewer).type \in Answers => toViewer' = <<>> /\ Len(toViewer') = 0
         /\ Head(toViewer).type \notin Answers => (AnswerWaits <=> AnswerWaits')
<1>1. /\ Len(toViewer) \in Nat /\ 1 \in 1 .. Len(toViewer)
      /\ Head(toViewer) = toViewer[1] /\ (toViewer' = <<>> <=> Len(toViewer') = 0)
  <2>1. TypeOK => (toViewer' = <<>> <=> Len(toViewer') = 0)
    BY ReadFacts, QueueFacts
  <2>. QED  BY <2>1, QueueFacts
<1>2. ASSUME Head(toViewer).type \in Answers
      PROVE  toViewer' = <<>> /\ Len(toViewer') = 0
  BY <1>1, <1>2, ReadFacts DEF Shape, AnswerInv
<1>3. ASSUME Head(toViewer).type \notin Answers
      PROVE  AnswerWaits <=> AnswerWaits'
  <2>1. CASE Len(toViewer) = 1
    BY <1>1, <1>3, <2>1, ReadFacts DEF AnswerWaits
  <2>2. CASE Len(toViewer) > 1
    <3>1. toViewer' # <<>> /\ Len(toViewer') \in 1 .. Len(toViewer')
          /\ Len(toViewer') + 1 = Len(toViewer)
      BY <1>1, <2>2, ReadFacts
    <3>2. toViewer'[Len(toViewer')] = toViewer[Len(toViewer)]
      BY <3>1, ReadFacts
    <3>. QED  BY <3>1, <3>2 DEF AnswerWaits
  <2>. QED  BY <1>1, <2>1, <2>2
<1>. QED  BY <1>2, <1>3

LEMMA ViewerOfferInSync ==
  ASSUME IInv, IInv', Modes, Shape, OfferInSync, Viewer, connected'
  PROVE  OfferInSync'
<1>. USE DEF IInv
<1>0. ~LoseSync
  BY DEF LoseSync
<1>1. CASE ViewerTakes
  <2>1. toViewer # <<>> /\ toViewer' = Tail(toViewer)
    BY <1>1 DEF ViewerTakes
  <2>2. \A i \in 1 .. Len(toViewer') : toViewer'[i].type = "checksums" => AnswerWaits'
    <3>1. CASE Head(toViewer).type \in Answers
      BY <2>1, <3>1, ReadAnswer
    <3>2. CASE Head(toViewer).type \notin Answers
      BY <2>1, <3>2, ReadAnswer, ReadFacts DEF OfferInSync
    <3>. QED  BY <3>1, <3>2
  <2>3. ASSUME view'.does = "offer", ~AnswerWaits' PROVE view'.pos = 0 /\ view'.sums = <<>>
    <3>. DEFINE m == Head(toViewer)
    <3>1. \/ /\ view.does = "offer" /\ m.type = "checksums"
             /\ view' = [view EXCEPT !.sums = m.sums]
          \/ /\ view.does = "offer" /\ m.type = "accept"
             /\ view' = [view EXCEPT !.does = IF m.ok THEN "send" ELSE "idle"]
          \/ Does("idle") \/ Does("receive")
          \/ view.does = "receive" /\ view' = [view EXCEPT !.pos = Advanced(view.pos, m.block)]
          \/ /\ ~(view.does = "offer" /\ m.type \in {"checksums", "accept"})
             /\ view' = view
      BY <1>1 DEF ViewerTakes, viewer
    <3>. HIDE DEF m
    <3>2. view'.does # "offer" \/ (view.does = "offer" /\ m.type # "accept")
      <4>1. CASE view' = [view EXCEPT !.does = IF m.ok THEN "send" ELSE "idle"]
        <5>1. view'.does = IF m.ok THEN "send" ELSE "idle"
          BY <4>1 DEF TypeOK
        <5>. QED  BY <5>1
      <4>2. CASE Does("idle") \/ Does("receive")
        BY <4>2 DEF Does
      <4>3. CASE view.does = "receive" /\ view' = [view EXCEPT !.pos = Advanced(view.pos, m.block)]
        <5>1. view'.does = view.does
          BY <4>3 DEF TypeOK
        <5>. QED  BY <4>3, <5>1
      <4>. QED  BY <3>1, <4>1, <4>2, <4>3
    <3>3. view.does = "offer" /\ m.type \notin Answers
      <4>1. view.does = "offer" /\ m.type # "accept"
        BY <2>3, <3>2
      <4>2. m = toViewer[1] /\ 1 \in 1 .. Len(toViewer)
        BY <2>1, QueueFacts DEF m
      <4>3. m.type # "header"
        BY <4>1, <4>2 DEF Shape, AnswerInv, Answers
      <4>. QED  BY <4>1, <4>3 DEF Answers
    <3>4. ~AnswerWaits
      BY <2>1, <2>3, <3>3, ReadAnswer DEF m
    <3>5. m.type # "checksums"
      BY <2>1, <3>4, QueueFacts DEF OfferInSync, m
    <3>6. view' = view
      BY <2>3, <3>1, <3>3, <3>5 DEF Does, Answers
    <3>. QED  BY <3>3, <3>4, <3>6 DEF OfferInSync
  <2>. QED  BY <2>2, <2>3 DEF OfferInSync
<1>2. CASE ViewerOffers \/ ViewerRequests \/ ViewerSendsBlock \/ ViewerEnds \/ ViewerAborts
  <2>1. toViewer' = toViewer
    BY <1>2 DEF ViewerOffers, ViewerRequests, ViewerSendsBlock, ViewerEnds, ViewerAborts
  <2>2. view'.does = "offer" => view'.pos = 0 /\ view'.sums = <<>>
    <3>1. CASE \E what \in {"offer", "request", "idle"} : Does(what)
      BY <3>1 DEF Does
    <3>2. CASE ViewerSendsBlock
      BY <3>2 DEF ViewerSendsBlock, TypeOK
    <3>. QED  BY <1>2, <3>1, <3>2 DEF ViewerOffers, ViewerRequests, ViewerEnds, ViewerAborts
  <2>. QED  BY <2>1, <2>2 DEF OfferInSync, AnswerWaits
<1>. QED  BY <1>0, <1>1, <1>2 DEF Viewer, ViewerLeaves
-----------------------------------------------------------------------------
(* Downloads: from the viewer to the server.                               *)

\* A viewer that receives has sent nothing but the answer to the header.
LEMMA ReceivesAlone ==
  ASSUME TypeOK, Modes, Shape, view.does = "receive"
  PROVE  /\ ~downloading
         /\ toServer # <<>> => /\ srcOpen /\ ~uploading
                               /\ Head(toServer).type \in {"checksums", "header"}
<1>1. CASE toServer = <<>>
  BY <1>1, QueueFacts DEF Shape, DownInv
<1>2. CASE toServer # <<>>
  <2>1. /\ Len(toServer) \in 1 .. Len(toServer) /\ 1 \in 1 .. Len(toServer)
        /\ Head(toServer) = toServer[1]
    BY <1>2, QueueFacts
  <2>2. toServer[Len(toServer)].type = "header"
    BY <1>2 DEF Shape, ReceiveInv
  <2>3. /\ srcOpen /\ ~uploading
        /\ \A j \in 1 .. Len(toServer) : j < Len(toServer) => toServer[j].type = "checksums"
    BY <2>1, <2>2 DEF Shape, HeaderInv
  <2>4. 1 < Len(toServer) \/ 1 = Len(toServer)
    BY <2>1
  <2>. QED  BY <2>1, <2>2, <2>3, <2>4 DEF Modes
<1>. QED  BY <1>1, <1>2

LEMMA OfferDownload ==
  ASSUME IInv, IInv', Modes, Shape, OfferInSync, Offer
  PROVE  DownloadInSync'
<1>. USE DEF IInv
<1>1. /\ toServer # <<>> /\ Taken /\ Head(toServer).type = "offer"
      /\ UNCHANGED <<view, vfile>>
  BY DEF Offer, Takes, viewer
<1>2. ~downloading /\ Len(toServer) = 1 /\ view.does = "offer"
  BY <1>1, HeadTells
<1>3. \A i \in 1 .. Len(toViewer) : toViewer[i].type \notin Answers
  BY <1>1 DEF Shape, AnswerInv
<1>4. ~AnswerWaits
  BY <1>3, QueueFacts DEF AnswerWaits
<1>5. SUFFICES ASSUME downloading' PROVE DownloadInSync'
  BY DEF DownloadInSync
<1>6. /\ disk' = IF disk = NoFile THEN <<>> ELSE disk
      /\ Accept(TRUE) /\ destPos' = 0
  BY <1>2, <1>5 DEF Offer
<1>7. toServer' = <<>> /\ Len(toServer') = 0
  BY <1>1, <1>2, TakenFacts
<1>8. vfile # NoFile /\ view.pos = 0 /\ view.sums = <<>> /\ Len(view.sums) = 0
  BY <1>2, <1>4 DEF FilesExist, OfferInSync
<1>9. Matches(view'.sums, disk', 0)
  BY <1>1, <1>8 DEF Matches
<1>10. ASSUME NEW i \in 1 .. Len(toViewer'), toViewer'[i].type = "checksums"
       PROVE  Matches(toViewer'[i].sums, disk', 0)
  <2>1. disk # NoFile /\ toViewer'[i].sums = Checksums(disk)
    <3>1. \/ i \in 1 .. Len(toViewer) /\ toViewer'[i] = toViewer[i]
          \/ disk # NoFile /\ toViewer'[i].sums = Checksums(disk)
      BY <1>3, <1>6, <1>10, AcceptFacts
    <3>. QED  BY <1>4, <1>10, <3>1 DEF OfferInSync
  <2>2. Len(disk) \in Nat /\ disk' = disk
    BY <1>6, <2>1 DEF TypeOK, Contents
  <2>3. Len(Checksums(disk)) = Len(disk)
        /\ \A k \in 1 .. Len(disk) : Checksums(disk)[k] = Sum(disk[k])
    BY <2>2 DEF Checksums
  <2>. QED  BY <2>1, <2>2, <2>3 DEF Matches
<1>11. view'.does = "offer" /\ view'.pos = 0 /\ vfile' # NoFile
  BY <1>1, <1>2, <1>8
<1>. QED  BY <1>6, <1>7, <1>9, <1>10, <1>11 DEF DownloadInSync

LEMMA ChunkDownload ==
  ASSUME IInv, IInv', Modes, Shape, OfferInSync, DownloadInSync, ReceiveFileChunk
  PROVE  DownloadInSync'
<1>. USE DEF IInv
<1>. DEFINE m == Head(toServer)
<1>1. /\ toServer # <<>> /\ Taken /\ m.type = "packet" /\ downloading
      /\ UNCHANGED <<view, vfile>>
  BY DEF ReceiveFileChunk, Takes, viewer
<1>2. SUFFICES ASSUME downloading' PROVE DownloadInSync'
  BY DEF DownloadInSync
<1>3. disk' = Received(disk, destPos, m.block) /\ destPos' = Advanced(destPos, m.block)
  BY <1>2 DEF ReceiveFileChunk, FinishFileReception
<1>4. /\ m = toServer[1] /\ 1 \in 1 .. Len(toServer) /\ Len(toServer) \in Nat
      /\ Len(toServer') = Len(toServer) - 1
  BY <1>1, QueueFacts, TakenFacts
<1>. HIDE DEF m
<1>5. vfile \in Contents /\ disk \in Contents /\ destPos \in Nat
  BY <1>1 DEF TypeOK, FilesExist, DownloadInSync
<1>6. Carries(m, vfile, disk, destPos + 1)
  <2>1. OnlyPackets(toServer, 1)
    BY <1>1, <1>4 DEF OnlyPackets
  <2>. QED  BY <1>1, <1>4, <2>1 DEF DownloadInSync
<1>7. \A i \in 1 .. destPos : Same(vfile, disk, i)
  BY <1>1 DEF DownloadInSync
<1>8. /\ destPos' = destPos + 1
      /\ \A i \in 1 .. destPos + 1 : Same(vfile, disk', i)
      /\ \A i \in 1 .. Len(disk) : i \in 1 .. Len(disk') /\ (i # destPos + 1 => disk'[i] = disk[i])
  BY <1>3, <1>5, <1>6, <1>7, ReceivedFacts
<1>9. ASSUME NEW j \in 1 .. Len(toServer')
      PROVE  /\ j + 1 \in 1 .. Len(toServer) /\ toServer'[j] = toServer[j + 1]
             /\ OnlyPackets(toServer', j) => OnlyPackets(toServer, j + 1)
             /\ OnlyPackets(toServer', j - 1) => OnlyPackets(toServer, j)
  <2>1. j + 1 \in 1 .. Len(toServer) /\ toServer'[j] = toServer[j + 1]
    BY <1>1, TakenFacts
  <2>2. \A n \in 0 .. j : OnlyPackets(toServer', n) => OnlyPackets(toServer, n + 1)
    <3>. SUFFICES ASSUME NEW n \in 0 .. j, OnlyPackets(toServer', n), NEW k \in 1 .. n + 1
                  PROVE  toServer[k].type = "packet"
      BY DEF OnlyPackets
    <3>1. CASE k = 1
      BY <1>1, <1>4, <3>1
    <3>2. CASE k # 1
      <4>1. k - 1 \in 1 .. n /\ k - 1 \in 1 .. Len(toServer') /\ (k - 1) + 1 = k
        BY <1>4, <3>2
      <4>2. toServer'[k - 1].type = "packet"
        BY <4>1 DEF OnlyPackets
      <4>. QED  BY <1>1, <4>1, <4>2, TakenFacts
    <3>. QED  BY <3>1, <3>2
  <2>3. j \in 0 .. j /\ j - 1 \in 0 .. j /\ (j - 1) + 1 = j
    OBVIOUS
  <2>4. OnlyPackets(toServer', j) => OnlyPackets(toServer, j + 1)
    BY <2>2, <2>3
  <2>5. OnlyPackets(toServer', j - 1) => OnlyPackets(toServer, (j - 1) + 1)
    BY <2>2, <2>3
  <2>. QED  BY <2>1, <2>3, <2>4, <2>5
<1>10. ASSUME NEW j \in 1 .. Len(toServer'), OnlyPackets(toServer', j)
       PROVE  Carries(toServer'[j], vfile, disk', destPos' + j)
  <2>1. Carries(toServer[j + 1], vfile, disk, destPos + (j + 1))
    BY <1>1, <1>9, <1>10 DEF DownloadInSync
  <2>2. destPos' + j = destPos + (j + 1) /\ destPos + (j + 1) # destPos + 1
    BY <1>5, <1>8
  <2>. QED  BY <1>8, <1>9, <2>1, <2>2 DEF Carries, Same
<1>11. ASSUME NEW j \in 1 .. Len(toServer'), OnlyPackets(toServer', j - 1), toServer'[j].type = "eof"
       PROVE  Len(vfile) = destPos' + (j - 1)
  <2>1. OnlyPackets(toServer, (j + 1) - 1) /\ toServer[j + 1].type = "eof" /\ j + 1 \in 1 .. Len(toServer)
    <3>1. (j + 1) - 1 = j
      OBVIOUS
    <3>. QED  BY <1>9, <1>11, <3>1
  <2>2. Len(vfile) = destPos + ((j + 1) - 1)
    BY <1>1, <2>1 DEF DownloadInSync
  <2>. QED  BY <1>5, <1>8, <2>2
<1>12. view.does = "send" => /\ view.pos = destPos' + Len(toServer')
                             /\ Matches(view.sums, disk', view.pos)
  <2>. SUFFICES ASSUME view.does = "send"
                PROVE  /\ view.pos = destPos' + Len(toServer')
                       /\ Matches(view.sums, disk', view.pos)
    OBVIOUS
  <2>1. view.pos = destPos + Len(toServer) /\ Matches(view.sums, disk, view.pos)
    BY <1>1 DEF DownloadInSync
  <2>2. view.pos >= destPos + 1 /\ view.pos \in Nat
    BY <1>4, <1>5, <2>1
  <2>3. \A i \in 1 .. Len(view.sums) : i > view.pos => i # destPos + 1
    BY <1>5, <2>2
  <2>4. view.pos = destPos' + Len(toServer')
    BY <1>4, <1>5, <1>8, <2>1
  <2>5. Matches(view.sums, disk', view.pos)
    BY <1>8, <2>1, <2>3 DEF Matches
  <2>. QED  BY <2>4, <2>5
<1>13. ~AnswerWaits'
  <2>1. ~LoseSync
    BY DEF ReceiveFileChunk, Takes, LoseSync
  <2>2. AddsNoAnswer
    BY <2>1, OthersAnswerNothing
  <2>. QED  BY <1>1, <2>2, NoAnswerThere
<1>14. vfile' # NoFile
  BY <1>1 DEF DownloadInSync
<1>. QED  BY <1>1, <1>8, <1>10, <1>11, <1>12, <1>13, <1>14 DEF DownloadInSync

\* The viewer sends a block, the end, or something after it.
LEMMA ViewerSendsDownload ==
  ASSUME IInv, IInv', Modes, Shape, DownloadInSync,
         ViewerOffers \/ ViewerRequests \/ ViewerSendsBlock \/ ViewerEnds \/ ViewerAborts
  PROVE  DownloadInSync'
<1>. USE DEF IInv
<1>1. SUFFICES ASSUME downloading' PROVE DownloadInSync'
  BY DEF DownloadInSync
<1>2. UNCHANGED <<toViewer, downloading, disk, destPos, vfile>>
  BY DEF ViewerOffers, ViewerRequests, ViewerSendsBlock, ViewerEnds, ViewerAborts,
         ViewerChanges, download
<1>3. /\ downloading /\ vfile \in Contents /\ destPos \in Nat /\ Len(toServer) \in Nat
      /\ vfile # NoFile
  BY <1>1, <1>2, QueueFacts DEF TypeOK, DownloadInSync
\* What has been sent before is in the same place.
<1>4. ASSUME NEW m \in ToServer, toServer' = toServer \o <<m>>
      PROVE  /\ Len(toServer') = Len(toServer) + 1
             /\ toServer'[Len(toServer) + 1] = m
             /\ \A j \in 1 .. Len(toServer) : toServer'[j] = toServer[j]
             /\ \A n \in 0 .. Len(toServer) : OnlyPackets(toServer', n) <=> OnlyPackets(toServer, n)
             /\ OnlyPackets(toServer', Len(toServer) + 1) => m.type = "packet"
  <2>1. /\ Len(toServer') = Len(toServer) + 1
        /\ toServer'[Len(toServer')] = m
        /\ \A j \in 1 .. Len(toServer) : toServer'[j] = toServer[j]
    BY <1>4, SentFacts
  <2>2. Len(toServer) + 1 \in 1 .. Len(toServer) + 1
    BY <1>3
  <2>3. \A n \in 0 .. Len(toServer) : \A k \in 1 .. n : toServer'[k] = toServer[k]
    BY <1>3, <2>1
  <2>. QED  BY <2>1, <2>2, <2>3 DEF OnlyPackets
<1>5. ASSUME NEW m \in ToServer, toServer' = toServer \o <<m>>,
             m.type = "packet" =>
               (OnlyPackets(toServer, Len(toServer)) =>
                  Carries(m, vfile, disk, destPos + (Len(toServer) + 1))),
             m.type = "eof" =>
               (OnlyPackets(toServer, Len(toServer)) =>
                  Len(vfile) = destPos + Len(toServer)),
             view'.does = "send" => /\ view'.pos = destPos + (Len(toServer) + 1)
                                    /\ Matches(view'.sums, disk, view'.pos),
             ~(view'.does = "offer" /\ AnswerWaits')
      PROVE  DownloadInSync'
  <2>1. \A j \in 1 .. Len(toServer') : j \in 1 .. Len(toServer) \/ j = Len(toServer) + 1
    BY <1>3, <1>4, <1>5
  <2>2. ASSUME NEW j \in 1 .. Len(toServer'), OnlyPackets(toServer', j)
        PROVE  Carries(toServer'[j], vfile, disk, destPos + j)
    <3>1. CASE j \in 1 .. Len(toServer)
      <4>1. j \in 0 .. Len(toServer)
        BY <1>3, <3>1
      <4>2. OnlyPackets(toServer, j) /\ toServer'[j] = toServer[j]
        BY <1>4, <1>5, <2>2, <3>1, <4>1
      <4>. QED  BY <1>3, <3>1, <4>2 DEF DownloadInSync
    <3>2. CASE j = Len(toServer) + 1
      <4>1. m.type = "packet" /\ toServer'[j] = m
        BY <1>4, <1>5, <2>2, <3>2
      <4>2. OnlyPackets(toServer', Len(toServer))
        BY <1>3, <2>2, <3>2 DEF OnlyPackets
      <4>3. OnlyPackets(toServer, Len(toServer))
        BY <1>3, <1>4, <1>5, <4>2
      <4>. QED  BY <1>5, <3>2, <4>1, <4>3
    <3>. QED  BY <2>1, <3>1, <3>2
  <2>3. ASSUME NEW j \in 1 .. Len(toServer'), OnlyPackets(toServer', j - 1), toServer'[j].type = "eof"
        PROVE  Len(vfile) = destPos + (j - 1)
    <3>0. j - 1 \in 0 .. Len(toServer)
      BY <1>3, <1>4, <1>5
    <3>1. OnlyPackets(toServer, j - 1)
      BY <1>4, <1>5, <2>3, <3>0
    <3>2. CASE j \in 1 .. Len(toServer)
      <4>1. toServer[j].type = "eof"
        BY <1>4, <1>5, <2>3, <3>2
      <4>. QED  BY <1>3, <3>1, <3>2, <4>1 DEF DownloadInSync
    <3>3. CASE j = Len(toServer) + 1
      <4>1. m.type = "eof" /\ j - 1 = Len(toServer)
        BY <1>3, <1>4, <1>5, <2>3, <3>3
      <4>. QED  BY <1>5, <3>1, <4>1
    <3>. QED  BY <2>1, <3>2, <3>3
  <2>4. Len(toServer') = Len(toServer) + 1
    BY <1>4, <1>5
  <2>. QED  BY <1>2, <1>3, <1>5, <2>2, <2>3, <2>4 DEF DownloadInSync
<1>6. view.does \in {"idle", "send", "receive"} => ~AnswerWaits'
  <2>1. view.does \in {"idle", "send", "receive"} => ~AnswerWaits
    BY QueueFacts DEF AnswerWaits, Shape, AnswerInv, Answers
  <2>. QED  BY <1>2, <2>1 DEF AnswerWaits
<1>7. view.does = "send" => /\ view.pos = destPos + Len(toServer)
                            /\ Matches(view.sums, disk, view.pos)
  BY <1>3 DEF DownloadInSync
<1>8. CASE ViewerSendsBlock
  <2>. DEFINE i == view.pos + 1
              m == Packet(vfile[i], view.sums, i)
  <2>1. /\ view.does = "send" /\ view.pos < Len(vfile) /\ toServer' = toServer \o <<m>>
        /\ view' = [view EXCEPT !.pos = i]
    BY <1>8 DEF ViewerSendsBlock, Sends
  <2>2. /\ view.pos \in Nat /\ view.sums \in Seq(Sums) /\ Len(view.sums) \in Nat
        /\ Len(vfile) \in Nat
    <3>1. view.pos \in Nat /\ view.sums \in Seq(Sums)
      BY DEF TypeOK
    <3>2. Len(vfile) \in Nat
      BY <1>3 DEF Contents
    <3>. QED  BY <3>1, <3>2
  <2>3. i \in 1 .. Len(vfile) /\ i \in Nat /\ i > view.pos
    BY <2>1, <2>2
  <2>4. view'.does = "send" /\ view'.pos = i /\ view'.sums = view.sums
    BY <2>1 DEF TypeOK
  <2>5. vfile[i] \in Blocks \union {Hole, Nothing}
    BY <1>3, <2>3 DEF Contents
  <2>6. m \in ToServer
    BY <2>2, <2>3, <2>5, MessagesSent
  <2>7. Carries(m, vfile, disk, i)
    BY <1>3, <1>7, <2>1, <2>2, <2>3, PacketCarries
  <2>8. m.type = "packet"
    BY DEF Packet
  <2>9. i = destPos + (Len(toServer) + 1)
    BY <1>3, <1>7, <2>1, <2>2
  <2>10. Matches(view.sums, disk, i)
    BY <1>7, <2>1, <2>2 DEF Matches
  <2>. HIDE DEF m, i
  <2>. QED  BY <1>5, <2>1, <2>4, <2>6, <2>7, <2>8, <2>9, <2>10
<1>9. ASSUME NEW type \in {"offer", "request", "eof", "abort"},
             Sends(<<[type |-> type]>>), \E what \in {"offer", "request", "idle"} : Does(what),
             view.does \in {"idle", "send", "receive"},
             type = "eof" => view.does = "send" /\ view.pos = Len(vfile)
      PROVE  DownloadInSync'
  <2>. DEFINE m == [type |-> type]
  <2>1. m \in ToServer /\ m.type = type /\ toServer' = toServer \o <<m>>
    BY <1>9, MessagesSent DEF Sends
  <2>2. view'.does # "send" /\ ~AnswerWaits'
    BY <1>6, <1>9 DEF Does
  <2>3. m.type # "packet" /\ (m.type = "eof" => Len(vfile) = destPos + Len(toServer))
    BY <1>7, <1>9, <2>1
  <2>. HIDE DEF m
  <2>. QED  BY <1>5, <2>1, <2>2, <2>3
<1>. QED  BY <1>8, <1>9 DEF ViewerOffers, ViewerRequests, ViewerEnds, ViewerAborts

\* While a download runs, the viewer takes nothing but the answer to its offer,
\* and what is left of earlier transfers.
LEMMA ViewerTakesDownload ==
  ASSUME IInv, IInv', Modes, Shape, OfferInSync, DownloadInSync, ViewerTakes
  PROVE  DownloadInSync'
<1>. USE DEF IInv
<1>. DEFINE m == Head(toViewer)
<1>1. SUFFICES ASSUME downloading' PROVE DownloadInSync'
  BY DEF DownloadInSync
<1>2. /\ toViewer # <<>> /\ toViewer' = Tail(toViewer)
      /\ UNCHANGED <<downloading, disk, destPos>>
  BY DEF ViewerTakes, ViewerChanges, download
<1>3. m = toViewer[1] /\ 1 \in 1 .. Len(toViewer)
  BY <1>2, QueueFacts
<1>4. downloading /\ view.does # "receive"
  BY <1>1, <1>2, ReceivesAlone
<1>5. ~(view.does = "request" /\ m.type = "header")
  BY <1>3, <1>4 DEF Shape, AnswerInv, Answers
<1>6. ASSUME view'.does = view.does, view'.pos = view.pos, m.type \notin Answers,
             UNCHANGED <<toServer, vfile>>,
             view.does = "send" => view'.sums = view.sums,
             view.does = "offer" /\ AnswerWaits => Matches(view'.sums, disk, 0)
      PROVE  DownloadInSync'
  <2>1. AnswerWaits <=> AnswerWaits'
    BY <1>2, <1>6, ReadAnswer
  <2>2. ASSUME view.does = "offer", AnswerWaits,
               NEW i \in 1 .. Len(toViewer'), toViewer'[i].type = "checksums"
        PROVE  Matches(toViewer'[i].sums, disk, 0)
    <3>1. i + 1 \in 1 .. Len(toViewer) /\ toViewer'[i] = toViewer[i + 1]
      BY <1>2, ReadFacts
    <3>. QED  BY <1>4, <2>2, <3>1 DEF DownloadInSync
  <2>. QED  BY <1>2, <1>4, <1>6, <2>1, <2>2 DEF DownloadInSync
<1>7. CASE /\ view.does = "offer" /\ m.type = "checksums"
           /\ view' = [view EXCEPT !.sums = m.sums]
           /\ UNCHANGED <<toServer, vfile>>
  <2>1. view'.does = view.does /\ view'.pos = view.pos /\ view'.sums = m.sums
    BY <1>7 DEF TypeOK
  <2>2. AnswerWaits /\ m.type \notin Answers
    BY <1>3, <1>7 DEF OfferInSync, Answers
  <2>3. Matches(m.sums, disk, 0)
    BY <1>3, <1>4, <1>7, <2>2 DEF DownloadInSync
  <2>. HIDE DEF m
  <2>. QED  BY <1>6, <1>7, <2>1, <2>2, <2>3
<1>8. CASE /\ view.does = "offer" /\ m.type = "accept"
           /\ view' = [view EXCEPT !.does = IF m.ok THEN "send" ELSE "idle"]
           /\ UNCHANGED <<toServer, vfile>>
  <2>1. 1 = Len(toViewer) /\ toServer = <<>> /\ Len(toServer) = 0
    BY <1>3, <1>8, QueueFacts DEF Shape, AnswerInv, Answers
  <2>2. AnswerWaits
    BY <1>2, <1>3, <1>8, <2>1 DEF AnswerWaits, Answers
  <2>3. destPos = 0 /\ view.pos = 0 /\ Matches(view.sums, disk, 0) /\ vfile # NoFile
    BY <1>4, <1>8, <2>2 DEF DownloadInSync
  <2>4. view'.does \in {"send", "idle"} /\ view'.pos = 0 /\ view'.sums = view.sums
    BY <1>8, <2>3 DEF TypeOK
  <2>5. toServer' = <<>> /\ Len(toServer') = 0 /\ UNCHANGED vfile
    BY <1>8, <2>1
  <2>. HIDE DEF m
  <2>. QED  BY <1>2, <2>3, <2>4, <2>5 DEF DownloadInSync
<1>9. CASE /\ ~ \/ view.does = "offer" /\ m.type \in {"checksums", "accept"}
                \/ view.does = "request" /\ m.type = "header"
                \/ view.does = "receive" /\ m.type \in {"packet", "eof", "abort"}
           /\ UNCHANGED <<toServer, viewer>>
  <2>1. m.type \notin Answers
    BY <1>3, <1>9 DEF Shape, AnswerInv, Answers
  <2>2. view' = view /\ UNCHANGED <<toServer, vfile>>
    BY <1>9 DEF viewer
  <2>3. view.does = "offer" /\ AnswerWaits => Matches(view'.sums, disk, 0)
    BY <1>4, <2>2 DEF DownloadInSync
  <2>. HIDE DEF m
  <2>. QED  BY <1>6, <2>1, <2>2, <2>3
<1>. HIDE DEF m
<1>. QED  BY <1>4, <1>5, <1>7, <1>8, <1>9 DEF ViewerTakes, m

LEMMA DownloadNext ==
  ASSUME IInv, IInv', Modes, Shape, OfferInSync, DownloadInSync, ~refused', connected',
         [Next]_vars
  PROVE  DownloadInSync'
<1>. USE DEF IInv
<1>0. ~LoseSync
  BY DEF LoseSync
<1>1. CASE Offer
  BY <1>1, OfferDownload
<1>2. CASE ReceiveFileChunk
  BY <1>2, ChunkDownload
<1>3. CASE DropFileChunk \/ EndOfFile
  <2>1. ~downloading'
    BY <1>0, <1>3 DEF DropFileChunk, EndOfFile, FinishFileReception, download
  <2>. QED  BY <2>1 DEF DownloadInSync
<1>4. CASE Request \/ RequestUnzipped \/ ReceiveDestinationFileChecksums
           \/ Header \/ HeaderFails
  <2>1. ~downloading
    BY <1>4, HeadTells
    DEF Request, RequestUnzipped, ReceiveDestinationFileChecksums, Header, HeaderFails, Takes
  <2>2. UNCHANGED downloading
    BY <1>4 DEF Request, RequestUnzipped, ReceiveDestinationFileChecksums, Header,
                HeaderFails, download
  <2>. QED  BY <2>1, <2>2 DEF DownloadInSync
<1>5. CASE AbortFileTransfer
  <2>1. ~downloading'
    BY <1>5 DEF AbortFileTransfer, FinishFileReception, download
  <2>. QED  BY <2>1 DEF DownloadInSync
<1>6. ASSUME UNCHANGED <<toServer, toViewer, downloading, disk, destPos, view, vfile>>
      PROVE  DownloadInSync'
  <2>1. AnswerWaits <=> AnswerWaits'
    BY <1>6 DEF AnswerWaits
  <2>. QED  BY <1>6, <2>1 DEF DownloadInSync
<1>7. CASE SendFileChunk
  <2>1. UNCHANGED <<toServer, downloading, disk, destPos, view, vfile>>
    BY <1>7 DEF SendFileChunk, download, viewer
  <2>2. CASE uploading
    BY <2>1, <2>2 DEF DownloadInSync, Modes
  <2>3. CASE ~uploading
    <3>1. UNCHANGED toViewer
      BY <1>7, <2>3 DEF SendFileChunk
    <3>. QED  BY <1>6, <2>1, <3>1
  <2>. QED  BY <2>2, <2>3
<1>8. CASE EnableFileTransfer \/ UNCHANGED vars
  BY <1>6, <1>8 DEF EnableFileTransfer, vars, wire, download, viewer
<1>9. CASE Viewer
  BY <1>0, <1>9, ViewerSendsDownload, ViewerTakesDownload DEF Viewer, ViewerLeaves
<1>. QED  BY <1>0, <1>1, <1>2, <1>3, <1>4, <1>5, <1>7, <1>8, <1>9
          DEF Next, ClientThread, OfferRefused, RequestRefused

LEMMA OfferNext ==
  ASSUME IInv, IInv', Modes, Shape, OfferInSync, connected', [Next]_vars
  PROVE  OfferInSync'
<1>1. CASE EnableFileTransfer \/ UNCHANGED vars
  <2>1. UNCHANGED <<toViewer, view>>
    BY <1>1 DEF EnableFileTransfer, vars, wire, viewer
  <2>. QED  BY <2>1 DEF OfferInSync, AnswerWaits
<1>. QED  BY <1>1, ServerOfferInSync, ViewerOfferInSync DEF Next

Downloaded == connected /\ ~refused => OfferInSync /\ DownloadInSync

LEMMA AlwaysDownloaded == Spec => [](IInv /\ Order /\ Downloaded)
<1>1. Init => Downloaded
  <2>. SUFFICES ASSUME Init PROVE OfferInSync /\ DownloadInSync
    BY DEF Downloaded
  <2>1. view.does = "idle" /\ Len(toViewer) = 0 /\ ~downloading
    BY DEF Init
  <2>. QED  BY <2>1 DEF OfferInSync, DownloadInSync
<1>2. IInv /\ IInv' /\ Order /\ Downloaded /\ [Next]_vars => Downloaded'
  <2>. SUFFICES ASSUME IInv, IInv', Order, Downloaded, [Next]_vars, connected', ~refused'
                PROVE  OfferInSync' /\ DownloadInSync'
    BY DEF Downloaded
  <2>1. connected /\ ~refused
    BY GoneForGood DEF IInv
  <2>2. Modes /\ Shape /\ OfferInSync /\ DownloadInSync
    BY <2>1 DEF Order, Downloaded
  <2>. QED  BY <2>2, OfferNext, DownloadNext
<1>. QED  BY <1>1, <1>2, NextIInv, InitIInv, AlwaysOrder, PTL DEF Spec

\* A download that ends with the viewer's rfbEndOfFile leaves the server with
\* the viewer's file, block for block: whatever the server had before, however
\* many blocks the checksums spared, and whatever went before in the session.
THEOREM DownloadsDeliver == Spec => DownloadDelivers
<1>1. ASSUME IInv, Order, Downloaded, EndOfFile, downloading, enabled, ~refused
      PROVE  disk' = vfile
  <2>. USE DEF IInv
  <2>1. /\ toServer # <<>> /\ Head(toServer).type = "eof" /\ connected
        /\ disk' = Truncated(disk, destPos)
    BY <1>1 DEF EndOfFile, Takes, FinishFileReception
  <2>2. DownloadInSync
    BY <1>1, <2>1 DEF Downloaded
  <2>3. /\ disk \in Contents /\ vfile \in Contents /\ destPos \in Nat
        /\ \A i \in 1 .. destPos : Same(vfile, disk, i)
    BY <1>1, <2>2 DEF TypeOK, FilesExist, DownloadInSync
  <2>4. Len(vfile) = destPos
    <3>1. 1 \in 1 .. Len(toServer) /\ toServer[1].type = "eof"
      BY <1>1, <2>1, QueueFacts
    <3>2. OnlyPackets(toServer, 1 - 1)
      BY DEF OnlyPackets
    <3>3. Len(vfile) = destPos + (1 - 1)
      BY <1>1, <2>2, <3>1, <3>2 DEF DownloadInSync
    <3>. QED  BY <2>3, <3>3
  <2>. QED  BY <2>1, <2>3, <2>4, TruncatedFacts
<1>2. IInv /\ Order /\ Downloaded /\ [Next]_vars
        => [EndOfFile /\ downloading /\ enabled /\ ~refused => disk' = vfile]_vars
  BY <1>1
<1>. QED  BY <1>2, AlwaysDownloaded, PTL DEF Spec, DownloadDelivers
-----------------------------------------------------------------------------
(* Uploads: from the server to the viewer, which may make a new file or    *)
(* receive into an old one, whose checksums it sends before its answer.    *)

\* The viewer has read view.pos packets; the rest is still in the connection,
\* with the end of the file last.  Checksums are only needed for what has not
\* been read yet by the server, and are used in step with it.
Receiving ==
    /\ disk # NoFile
    /\ \A i \in 1 .. view.pos : Same(disk, vfile, i)
    /\ \A j \in 1 .. Len(toViewer) :
          \/ /\ toViewer[j].type = "packet"
             /\ Carries(toViewer[j], disk, vfile, view.pos + j)
          \/ /\ toViewer[j].type = "eof" /\ j = Len(toViewer)
             /\ ~srcOpen /\ Len(disk) = view.pos + (j - 1)
    /\ srcOpen =>
          /\ srcPos = view.pos + Len(toViewer) /\ srcPos <= Len(disk)
          /\ csOffset = IF srcPos < Len(csBuffer) THEN srcPos ELSE Len(csBuffer)
          /\ Matches(csBuffer, vfile, view.pos)
    /\ srcOpen /\ ~uploading =>
          /\ srcPos = 0 /\ csOffset = 0
          /\ \A i \in 1 .. Len(toServer) :
                toServer[i].type = "checksums" => Matches(toServer[i].sums, vfile, 0)
    /\ uploading => (eof => srcPos = Len(disk))

UploadInSync ==
    /\ view.does = "request" /\ AnswerWaits /\ srcOpen
         => srcPos = 0 /\ csOffset = 0 /\ csBuffer = <<>>
    /\ view.does = "receive" => Receiving

\* SendFileChunk reads and sends the next block, or finds the end.
LEMMA ReadAndSendUpload ==
  ASSUME IInv, Modes, Shape, view.does = "receive", Receiving, srcOpen,
         NEW queued, ReadAndSend(queued), ~readFailed', uploading',
         UNCHANGED <<disk, vfile, view, csBuffer, srcOpen>>
  PROVE  Receiving'
<1>. USE DEF IInv
<1>1. /\ disk \in Contents /\ Len(disk) \in Nat /\ srcPos \in Nat /\ view.pos \in Nat
      /\ csBuffer \in Seq(Sums) /\ Len(csBuffer) \in Nat /\ csOffset \in Nat
      /\ Len(toViewer) \in Nat
  BY QueueFacts DEF TypeOK, FilesExist, Contents
<1>2. /\ srcPos = view.pos + Len(toViewer) /\ srcPos <= Len(disk)
      /\ csOffset = IF srcPos < Len(csBuffer) THEN srcPos ELSE Len(csBuffer)
      /\ Matches(csBuffer, vfile, view.pos)
  BY DEF Receiving
<1>3. CASE /\ srcPos >= Len(disk) /\ eof' = TRUE
           /\ UNCHANGED <<toViewer, srcPos, csOffset>>
  <2>1. srcPos' = Len(disk)
    BY <1>1, <1>2, <1>3
  <2>. QED  BY <1>3, <2>1 DEF Receiving
<1>4. CASE /\ srcPos < Len(disk) /\ ReadBlock(disk[srcPos + 1])
           /\ srcPos' = srcPos + 1
  <2>. DEFINE m == Packet(disk[srcPos + 1], csBuffer, csOffset + 1)
  <2>1. /\ toViewer' = Append(toViewer, m) /\ ~eof'
        /\ csOffset' = IF csOffset < Len(csBuffer) THEN csOffset + 1 ELSE csOffset
    BY <1>4 DEF ReadBlock, NextSum
  <2>2. srcPos + 1 \in 1 .. Len(disk) /\ csOffset + 1 \in Nat /\ srcPos + 1 > view.pos
    BY <1>1, <1>2, <1>4
  <2>3. disk[srcPos + 1] \in Blocks \union {Hole, Nothing}
    BY <1>1, <2>2 DEF Contents
  <2>4. m \in ToViewer /\ m.type = "packet"
    <3>1. m \in ToViewer
      BY <1>1, <2>2, <2>3, MessagesSent
    <3>. QED  BY <3>1 DEF Packet
  <2>5. csOffset + 1 \in 1 .. Len(csBuffer) => csOffset + 1 = srcPos + 1
    BY <1>1, <1>2
  <2>6. Carries(m, disk, vfile, srcPos + 1)
    BY <1>1, <1>2, <2>2, <2>5, PacketCarries
  <2>. HIDE DEF m
  <2>7. /\ Len(toViewer') = Len(toViewer) + 1
        /\ toViewer'[Len(toViewer) + 1] = m
        /\ \A i \in 1 .. Len(toViewer) : toViewer'[i] = toViewer[i]
    BY <2>1, <2>4, RepliedFacts
  <2>8. ASSUME NEW j \in 1 .. Len(toViewer')
        PROVE  /\ toViewer'[j].type = "packet"
               /\ Carries(toViewer'[j], disk, vfile, view.pos + j)
    <3>1. CASE j \in 1 .. Len(toViewer)
      <4>1. /\ toViewer[j].type = "packet"
            /\ Carries(toViewer[j], disk, vfile, view.pos + j)
        BY <3>1 DEF Receiving
      <4>. QED  BY <2>7, <3>1, <4>1
    <3>2. CASE j = Len(toViewer) + 1
      <4>1. view.pos + j = srcPos + 1
        BY <1>1, <1>2, <3>2
      <4>. QED  BY <2>4, <2>6, <2>7, <3>2, <4>1
    <3>. QED  BY <1>1, <2>7, <3>1, <3>2
  <2>9. srcPos' = view.pos + Len(toViewer') /\ srcPos' <= Len(disk)
    BY <1>1, <1>2, <1>4, <2>7
  <2>10. csOffset' = IF srcPos' < Len(csBuffer) THEN srcPos' ELSE Len(csBuffer)
    BY <1>1, <1>2, <1>4, <2>1
  <2>. QED  BY <1>2, <2>1, <2>8, <2>9, <2>10 DEF Receiving
<1>5. ASSUME ReadBlock(Nothing), readFailed' = TRUE PROVE FALSE
  BY <1>5
<1>. QED  BY <1>3, <1>4, <1>5 DEF ReadAndSend

\* The client thread and the window thread.
LEMMA ServerUpload ==
  ASSUME IInv, IInv', Modes, Shape, OfferInSync, ~readFailed => UploadInSync,
         ~readFailed', ClientThread \/ SendFileChunk, connected'
  PROVE  UploadInSync'
<1>. USE DEF IInv
<1>0. ~LoseSync
  BY DEF LoseSync
<1>1. UNCHANGED <<view, vfile>>
  BY <1>0 DEF ClientThread, Offer, OfferRefused, ReceiveFileChunk, DropFileChunk, EndOfFile,
         Request, RequestUnzipped, RequestRefused, ReceiveDestinationFileChecksums, Header,
         HeaderFails, AbortFileTransfer, SendFileChunk, viewer
<1>2. CASE Offer
  <2>1. view.does = "offer"
    BY <1>2, HeadTells DEF Offer, Takes
  <2>. QED  BY <1>1, <2>1 DEF UploadInSync
<1>3. CASE Request
  <2>1. view.does = "request"
    BY <1>3, HeadTells DEF Request, Takes
  <2>2. srcPos' = 0 /\ csOffset' = 0 /\ csBuffer' = <<>>
    BY <1>3 DEF Request
  <2>. QED  BY <1>1, <2>1, <2>2 DEF UploadInSync
\* The others answer nothing, so that only a viewer that receives matters.
<1>4. ASSUME toServer # <<>> \/ uploading, LoseSync \/ AddsNoAnswer,
             view.does = "receive" => Receiving'
      PROVE  UploadInSync'
  BY <1>0, <1>1, <1>4, NoAnswerThere DEF UploadInSync
<1>5. CASE ReceiveFileChunk \/ DropFileChunk \/ EndOfFile \/ RequestUnzipped
           \/ AbortFileTransfer
  <2>1. toServer # <<>> /\ Head(toServer).type \notin {"checksums", "header"}
    BY <1>5 DEF ReceiveFileChunk, DropFileChunk, EndOfFile, RequestUnzipped, Takes,
                AbortFileTransfer
  <2>2. view.does # "receive"
    BY <2>1, ReceivesAlone
  <2>. QED  BY <1>4, <1>5, <2>1, <2>2, OthersAnswerNothing
<1>6. CASE ReceiveDestinationFileChecksums
  <2>1. /\ toServer # <<>> /\ Taken /\ Head(toServer).type = "checksums" /\ ~readFailed
        /\ csBuffer' = Head(toServer).sums
        /\ UNCHANGED <<toViewer, disk, uploading, srcOpen, srcPos, eof, csOffset>>
    BY <1>6 DEF ReceiveDestinationFileChecksums, Takes, history
  <2>2. ~uploading
    BY <2>1, HeadTells
  <2>3. Head(toServer) = toServer[1] /\ 1 \in 1 .. Len(toServer)
    BY <2>1, QueueFacts
  <2>4. view.does = "receive" => Receiving'
    <3>. SUFFICES ASSUME view.does = "receive" PROVE Receiving'
      OBVIOUS
    <3>1. Receiving
      BY <2>1 DEF UploadInSync
    <3>2. srcOpen
      BY <2>1, ReceivesAlone
    <3>3. /\ srcPos = 0 /\ csOffset = 0 /\ Matches(csBuffer', vfile, 0)
          /\ srcPos = view.pos + Len(toViewer)
      BY <2>1, <2>2, <2>3, <3>1, <3>2 DEF Receiving
    <3>4. view.pos = 0 /\ Len(csBuffer') \in Nat
      <4>1. view.pos \in Nat /\ Len(toViewer) \in Nat /\ (TypeOK => Len(csBuffer) \in Nat)'
        BY QueueFacts DEF TypeOK
      <4>. QED  BY <3>3, <4>1
    <3>5. csOffset = IF srcPos < Len(csBuffer') THEN srcPos ELSE Len(csBuffer')
      BY <3>3, <3>4
    <3>6. \A i \in 1 .. Len(toServer') :
             toServer'[i].type = "checksums" => Matches(toServer'[i].sums, vfile, 0)
      BY <2>1, <2>2, <3>1, <3>2, TakenFacts DEF Receiving
    <3>. QED  BY <1>1, <2>1, <2>2, <3>1, <3>3, <3>4, <3>5, <3>6 DEF Receiving
  <2>. QED  BY <1>4, <1>6, <2>1, <2>4, OthersAnswerNothing
<1>7. CASE Header
  <2>1. /\ toServer # <<>> /\ Head(toServer).type = "header"
        /\ uploading' /\ ReadAndSend(posted) /\ UNCHANGED <<disk, srcOpen, csBuffer>>
    BY <1>7 DEF Header, Takes
  <2>2. srcOpen
    BY <2>1, HeadTells
  <2>3. ~readFailed \/ readFailed' = readFailed \/ readFailed' = TRUE
    BY <2>1 DEF ReadAndSend
  <2>4. view.does = "receive" => Receiving'
    BY <1>1, <2>1, <2>2, <2>3, ReadAndSendUpload DEF UploadInSync
  <2>. QED  BY <1>4, <1>7, <2>1, <2>4, OthersAnswerNothing
<1>8. CASE HeaderFails
  <2>1. /\ toServer # <<>> /\ ~srcOpen' /\ ~readFailed
        /\ Head(toServer).type = "header"
        /\ UNCHANGED <<toViewer, disk, uploading>>
    BY <1>8 DEF HeaderFails, Takes, history
  <2>2. ~uploading
    BY <2>1, HeadTells
  <2>3. view.does = "receive" => Receiving'
    <3>. SUFFICES ASSUME view.does = "receive", Receiving PROVE Receiving'
      BY <2>1 DEF UploadInSync
    <3>1. \A j \in 1 .. Len(toViewer) :
             /\ toViewer[j].type = "packet"
             /\ Carries(toViewer[j], disk, vfile, view.pos + j)
      BY <2>1, HeadTells DEF Receiving
    <3>. QED  BY <1>1, <2>1, <2>2, <3>1 DEF Receiving
  <2>. QED  BY <1>4, <1>8, <2>1, <2>3, OthersAnswerNothing
<1>9. CASE SendFileChunk
  <2>1. UNCHANGED <<toServer, disk>>
    BY <1>9 DEF SendFileChunk
  <2>2. CASE /\ uploading /\ ReadAndSend(posted - 1)
             /\ UNCHANGED <<uploading, srcOpen, csBuffer>>
    <3>1. srcOpen
      BY <2>2 DEF Modes
    <3>2. ~readFailed
      BY <2>2 DEF ReadAndSend, TypeOK
    <3>3. view.does = "receive" => Receiving'
      BY <1>1, <2>1, <2>2, <3>1, <3>2, ReadAndSendUpload DEF UploadInSync
    <3>. QED  BY <1>4, <1>9, <2>2, <3>3, OthersAnswerNothing
  <2>3. CASE uploading /\ eof /\ FinishFileSending("eof") /\ UNCHANGED readFailed
    <3>. DEFINE m == [type |-> "eof"]
    <3>1. /\ m \in ToViewer /\ m.type = "eof" /\ toViewer' = Append(toViewer, m)
          /\ ~uploading' /\ ~srcOpen' /\ srcOpen /\ ~readFailed
      BY <2>3, MessagesSent DEF FinishFileSending, Modes
    <3>. HIDE DEF m
    <3>2. /\ Len(toViewer') = Len(toViewer) + 1 /\ Len(toViewer) \in Nat
          /\ toViewer'[Len(toViewer')] = m
          /\ \A i \in 1 .. Len(toViewer) : toViewer'[i] = toViewer[i]
      BY <3>1, RepliedFacts, QueueFacts
    <3>3. view.does = "receive" => Receiving'
      <4>. SUFFICES ASSUME view.does = "receive", Receiving PROVE Receiving'
        BY <3>1 DEF UploadInSync
      <4>1. Len(disk) = view.pos + Len(toViewer)
        BY <2>3, <3>1 DEF Receiving
      <4>2. \A j \in 1 .. Len(toViewer) :
               /\ toViewer[j].type = "packet"
               /\ Carries(toViewer[j], disk, vfile, view.pos + j)
        BY <3>1 DEF Receiving
      <4>3. \A j \in 1 .. Len(toViewer') : j \in 1 .. Len(toViewer) \/ j = Len(toViewer')
        BY <3>2
      <4>4. Len(disk) = view.pos + (Len(toViewer') - 1)
        BY <3>2, <4>1
      <4>5. disk # NoFile /\ \A i \in 1 .. view.pos : Same(disk, vfile, i)
        BY DEF Receiving
      <4>. QED  BY <1>1, <2>1, <3>1, <3>2, <4>2, <4>3, <4>4, <4>5 DEF Receiving
    <3>. QED  BY <1>4, <1>9, <2>3, <3>3, OthersAnswerNothing
  <2>4. CASE UNCHANGED <<toViewer, upload, readFailed>>
    BY <1>1, <2>1, <2>4 DEF UploadInSync, Receiving, AnswerWaits, upload
  <2>. QED  BY <1>9, <2>2, <2>3, <2>4 DEF SendFileChunk
<1>. QED  BY <1>0, <1>2, <1>3, <1>5, <1>6, <1>7, <1>8, <1>9
          DEF ClientThread, OfferRefused, RequestRefused

\* Where the next packet belongs, before and after the first has been read.
LEMMA OneFurther ==
  \A p, q, k \in Int : q = p + 1 => /\ p + (k + 1) = q + k
                                    /\ p + ((k + 1) - 1) = q + (k - 1)
OBVIOUS

\* The viewer accepts the file, reads the packets, or is busy with something else.
LEMMA ViewerTakesUpload ==
  ASSUME IInv, IInv', Modes, Shape, UploadInSync, ViewerTakes
  PROVE  UploadInSync'
<1>. USE DEF IInv
<1>. DEFINE m == Head(toViewer)
<1>1. /\ toViewer # <<>> /\ toViewer' = Tail(toViewer)
      /\ UNCHANGED <<disk, uploading, srcOpen, srcPos, eof, csBuffer, csOffset>>
  BY DEF ViewerTakes, ViewerChanges, upload
<1>2. m = toViewer[1] /\ 1 \in 1 .. Len(toViewer) /\ Len(toViewer) \in Nat
  BY <1>1, QueueFacts
<1>3. ASSUME view'.does \notin {"request", "receive"} PROVE UploadInSync'
  BY <1>3 DEF UploadInSync
<1>4. CASE view.does = "offer"
  <2>1. view'.does \in {"offer", "send", "idle"}
    BY <1>4 DEF ViewerTakes, TypeOK, viewer
  <2>. QED  BY <1>3, <2>1
<1>5. CASE /\ view.does = "request" /\ m.type = "header" /\ m.ok
           /\ Sends(IF vfile = NoFile THEN <<[type |-> "header", ok |-> TRUE]>>
                    ELSE <<[type |-> "checksums", sums |-> Checksums(vfile)],
                           [type |-> "header", ok |-> TRUE]>>)
           /\ vfile' = IF vfile = NoFile THEN <<>> ELSE vfile
           /\ Does("receive")
  <2>1. 1 = Len(toViewer) /\ toServer = <<>> /\ srcOpen /\ ~uploading
    BY <1>2, <1>5 DEF Shape, AnswerInv, Answers
  <2>2. srcPos = 0 /\ csOffset = 0 /\ csBuffer = <<>> /\ Len(csBuffer) = 0
    <3>1. AnswerWaits
      BY <1>1, <1>2, <1>5, <2>1 DEF AnswerWaits, Answers
    <3>. QED  BY <1>5, <2>1, <3>1 DEF UploadInSync
  <2>3. Len(toViewer') = 0
    BY <1>1, <2>1, ReadFacts
  <2>4. view'.does = "receive" /\ view'.pos = 0
    BY <1>5 DEF Does
  <2>5. disk # NoFile /\ Len(disk) \in Nat
    BY <2>1 DEF FilesExist, TypeOK, Contents
  <2>6. ASSUME NEW i \in 1 .. Len(toServer'), toServer'[i].type = "checksums"
        PROVE  Matches(toServer'[i].sums, vfile', 0)
    <3>1. vfile # NoFile /\ toServer'[i].sums = Checksums(vfile) /\ vfile' = vfile
      BY <1>5, <2>1, <2>6 DEF Sends
    <3>2. Len(vfile) \in Nat
      BY <3>1 DEF TypeOK, Contents
    <3>3. Len(Checksums(vfile)) = Len(vfile)
          /\ \A k \in 1 .. Len(vfile) : Checksums(vfile)[k] = Sum(vfile[k])
      BY <3>2 DEF Checksums
    <3>. QED  BY <3>1, <3>2, <3>3 DEF Matches
  <2>7. Matches(csBuffer, vfile', 0)
    BY <2>2 DEF Matches
  <2>8. /\ \A i \in 1 .. view'.pos : Same(disk, vfile', i)
        /\ \A j \in 1 .. Len(toViewer') : FALSE
    BY <2>3, <2>4
  <2>9. /\ srcPos = view'.pos + Len(toViewer') /\ srcPos <= Len(disk)
        /\ csOffset = IF srcPos < Len(csBuffer) THEN srcPos ELSE Len(csBuffer)
        /\ Matches(csBuffer, vfile', view'.pos)
    BY <2>2, <2>3, <2>4, <2>5, <2>7
  <2>10. Receiving'
    BY <1>1, <2>1, <2>2, <2>5, <2>6, <2>8, <2>9 DEF Receiving
  <2>. QED  BY <2>4, <2>10 DEF UploadInSync
<1>6. CASE /\ view.does = "receive" /\ m.type = "packet"
           /\ vfile' = Received(vfile, view.pos, m.block)
           /\ view' = [view EXCEPT !.pos = Advanced(view.pos, m.block)]
           /\ UNCHANGED toServer
  <2>1. Receiving
    BY <1>6 DEF UploadInSync
  <2>2. /\ disk \in Contents /\ vfile \in Contents /\ view.pos \in Nat /\ srcPos \in Nat
        /\ \A i \in 1 .. view.pos : Same(disk, vfile, i)
    BY <1>6, <2>1 DEF TypeOK, FilesExist, Receiving
  <2>3. Carries(m, disk, vfile, view.pos + 1)
    BY <1>2, <1>6, <2>1 DEF Receiving
  <2>4. /\ Advanced(view.pos, m.block) = view.pos + 1
        /\ \A i \in 1 .. view.pos + 1 : Same(disk, vfile', i)
        /\ \A i \in 1 .. Len(vfile) :
              i \in 1 .. Len(vfile') /\ (i # view.pos + 1 => vfile'[i] = vfile[i])
    BY <1>6, <2>2, <2>3, ReceivedFacts
  <2>5. view'.does = "receive" /\ view'.pos = view.pos + 1
    <3>. HIDE DEF m
    <3>. QED  BY <1>6, <2>4 DEF TypeOK
  <2>. HIDE DEF m
  <2>6. /\ Len(toViewer') = Len(toViewer) - 1
        /\ \A j \in 1 .. Len(toViewer') :
              j + 1 \in 1 .. Len(toViewer) /\ toViewer'[j] = toViewer[j + 1]
    BY <1>1, ReadFacts
  <2>7. ASSUME NEW j \in 1 .. Len(toViewer')
        PROVE  \/ /\ toViewer'[j].type = "packet"
                  /\ Carries(toViewer'[j], disk, vfile', view'.pos + j)
               \/ /\ toViewer'[j].type = "eof" /\ j = Len(toViewer')
                  /\ ~srcOpen /\ Len(disk) = view'.pos + (j - 1)
    <3>1. j + 1 \in 1 .. Len(toViewer) /\ toViewer'[j] = toViewer[j + 1]
      BY <2>6
    <3>2. j \in Int /\ view.pos \in Int /\ view'.pos \in Int /\ view'.pos = view.pos + 1
      BY <2>2, <2>5
    <3>3. /\ view.pos + (j + 1) = view'.pos + j
          /\ view.pos + ((j + 1) - 1) = view'.pos + (j - 1)
      BY <3>2, OneFurther, Zenon
    <3>4. CASE /\ toViewer[j + 1].type = "packet"
               /\ Carries(toViewer[j + 1], disk, vfile, view.pos + (j + 1))
      <4>1. view.pos + (j + 1) # view.pos + 1
        BY <3>2
      <4>2. Carries(toViewer'[j], disk, vfile', view.pos + (j + 1))
        BY <2>4, <3>1, <3>4, <4>1 DEF Carries, Same
      <4>. QED  BY <3>1, <3>3, <3>4, <4>2
    <3>5. CASE /\ toViewer[j + 1].type = "eof" /\ j + 1 = Len(toViewer)
               /\ ~srcOpen /\ Len(disk) = view.pos + ((j + 1) - 1)
      BY <1>2, <2>6, <3>1, <3>3, <3>5
    <3>. QED  BY <2>1, <3>1, <3>4, <3>5 DEF Receiving
  <2>8. ASSUME srcOpen
        PROVE  /\ uploading /\ srcPos = view'.pos + Len(toViewer')
               /\ Matches(csBuffer, vfile', view'.pos)
    <3>1. /\ srcPos = view.pos + Len(toViewer)
          /\ ~uploading => srcPos = 0
          /\ Matches(csBuffer, vfile, view.pos)
      BY <2>1, <2>8 DEF Receiving
    <3>2. uploading /\ srcPos = view'.pos + Len(toViewer')
      BY <1>2, <2>2, <2>5, <2>6, <3>1
    <3>3. \A i \in 1 .. Len(csBuffer) : i > view'.pos => i > view.pos /\ i # view.pos + 1
      BY <2>2, <2>5
    <3>4. Matches(csBuffer, vfile', view'.pos)
      BY <2>4, <3>1, <3>3 DEF Matches
    <3>. QED  BY <3>2, <3>4
  <2>9. Receiving'
    BY <1>1, <2>1, <2>4, <2>5, <2>7, <2>8 DEF Receiving
  <2>. QED  BY <2>5, <2>9 DEF UploadInSync
<1>7. CASE Does("idle")
  BY <1>3, <1>7 DEF Does
<1>8. CASE /\ view.does # "offer"
           /\ ~(view.does = "request" /\ m.type = "header")
           /\ ~(view.does = "receive" /\ m.type \in {"packet", "eof", "abort"})
           /\ UNCHANGED <<toServer, viewer>>
  <2>1. view' = view
    BY <1>8 DEF viewer
  <2>2. view.does # "receive"
    BY <1>2, <1>8 DEF UploadInSync, Receiving
  <2>3. m.type \notin Answers
    BY <1>2, <1>8 DEF Shape, AnswerInv, Answers
  <2>. HIDE DEF m
  <2>4. AnswerWaits <=> AnswerWaits'
    BY <1>1, <2>3, ReadAnswer DEF m
  <2>. QED  BY <1>1, <2>1, <2>2, <2>4 DEF UploadInSync
<1>. HIDE DEF m
<1>. QED  BY <1>4, <1>5, <1>6, <1>7, <1>8 DEF ViewerTakes, m

LEMMA ViewerSendsUpload ==
  ASSUME IInv, Modes, Shape,
         ViewerOffers \/ ViewerRequests \/ ViewerSendsBlock \/ ViewerEnds \/ ViewerAborts
  PROVE  UploadInSync'
<1>1. CASE ViewerRequests
  <2>1. view.does = "idle" /\ view'.does = "request" /\ toViewer' = toViewer
    BY <1>1 DEF ViewerRequests, Does
  <2>2. ~AnswerWaits
    BY <2>1, QueueFacts DEF IInv, AnswerWaits, Shape, AnswerInv, Answers
  <2>. QED  BY <2>1, <2>2 DEF UploadInSync, AnswerWaits
<1>2. CASE ViewerOffers \/ ViewerSendsBlock \/ ViewerEnds \/ ViewerAborts
  <2>1. view'.does \in {"offer", "send", "idle"}
    BY <1>2 DEF ViewerOffers, ViewerSendsBlock, ViewerEnds, ViewerAborts, Does, IInv, TypeOK
  <2>. QED  BY <2>1 DEF UploadInSync
<1>. QED  BY <1>1, <1>2

\* readFailed is a record of the running upload only: a new request clears it.
Uploaded == connected /\ ~refused /\ ~readFailed => UploadInSync

LEMMA UploadNext ==
  ASSUME IInv, IInv', Modes, Shape, OfferInSync, ~readFailed => UploadInSync,
         [Next]_vars, connected', ~readFailed'
  PROVE  UploadInSync'
<1>0. ~LoseSync
  BY DEF LoseSync
<1>1. CASE ClientThread \/ SendFileChunk
  BY <1>1, ServerUpload
<1>2. CASE EnableFileTransfer \/ UNCHANGED vars
  <2>1. UNCHANGED <<toServer, toViewer, disk, upload, view, vfile, readFailed>>
    BY <1>2 DEF EnableFileTransfer, vars, wire, viewer, history
  <2>. QED  BY <2>1 DEF UploadInSync, Receiving, AnswerWaits, upload
<1>3. CASE Viewer
  <2>1. ~readFailed
    BY <1>3 DEF Viewer, ViewerOffers, ViewerRequests, ViewerSendsBlock, ViewerEnds,
                ViewerAborts, ViewerTakes, ViewerLeaves, ViewerChanges, history
  <2>. QED  BY <1>0, <1>3, <2>1, ViewerSendsUpload, ViewerTakesUpload
            DEF Viewer, ViewerLeaves
<1>. QED  BY <1>1, <1>2, <1>3 DEF Next

LEMMA AlwaysUploaded == Spec => [](IInv /\ Order /\ Uploaded)
<1>1. Init => Uploaded
  BY DEF Init, Uploaded, UploadInSync
<1>2. /\ IInv /\ IInv' /\ Order /\ Downloaded /\ Uploaded /\ [Next]_vars
      => Uploaded'
  <2>. SUFFICES ASSUME IInv, IInv', Order, Downloaded, Uploaded, [Next]_vars,
                       connected', ~refused', ~readFailed'
                PROVE  UploadInSync'
    BY DEF Uploaded
  <2>1. connected /\ ~refused
    BY GoneForGood DEF IInv
  <2>2. Modes /\ Shape /\ OfferInSync /\ (~readFailed => UploadInSync)
    BY <2>1 DEF Order, Downloaded, Uploaded
  <2>. QED  BY <2>2, UploadNext
<1>. QED  BY <1>1, <1>2, AlwaysDownloaded, PTL DEF Spec

\* An upload that ends with the server's rfbEndOfFile leaves the viewer with the
\* server's file, also when the viewer received into an old file: SetEndOfFile
\* cuts off its tail, and a block is only spared if the viewer has it.
THEOREM UploadsDeliver == Spec => UploadDelivers
<1>. DEFINE Ends == /\ view.does = "receive" /\ view'.does = "idle"
                    /\ toViewer' # toViewer /\ Head(toViewer).type = "eof"
                    /\ ~refused /\ ~readFailed
<1>1. ASSUME IInv, Order, Uploaded, Next, Ends PROVE vfile' = disk
  <2>. USE DEF IInv
  <2>1. ViewerTakes
    <3>1. ~LoseSync
      BY <1>1 DEF LoseSync, TypeOK
    <3>. QED
      BY <1>1, <3>1
      DEF Next, ClientThread, Viewer, Offer, OfferRefused, ReceiveFileChunk, DropFileChunk,
          EndOfFile, Request, RequestUnzipped, RequestRefused,
          ReceiveDestinationFileChecksums, Header, HeaderFails, AbortFileTransfer,
          SendFileChunk, EnableFileTransfer, ViewerOffers, ViewerRequests,
          ViewerSendsBlock, ViewerEnds, ViewerAborts, ViewerLeaves, viewer, wire
  <2>2. /\ toViewer # <<>> /\ connected
        /\ vfile' = Truncated(vfile, view.pos)
    BY <1>1, <2>1 DEF ViewerTakes
  <2>3. Receiving
    BY <1>1, <2>2 DEF Uploaded, UploadInSync
  <2>4. /\ disk \in Contents /\ vfile \in Contents /\ view.pos \in Nat
        /\ \A i \in 1 .. view.pos : Same(disk, vfile, i)
    BY <1>1, <2>3 DEF TypeOK, FilesExist, Receiving
  <2>5. Len(disk) = view.pos
    <3>1. 1 \in 1 .. Len(toViewer) /\ toViewer[1].type = "eof"
      BY <1>1, <2>2, QueueFacts
    <3>2. Len(disk) = view.pos + (1 - 1)
      BY <2>3, <3>1 DEF Receiving
    <3>. QED  BY <2>4, <3>2
  <2>. QED  BY <2>2, <2>4, <2>5, TruncatedFacts
<1>2. IInv /\ Order /\ Uploaded /\ [Next]_vars => [Ends => vfile' = disk]_vars
  BY <1>1
<1>. QED  BY <1>2, AlwaysUploaded, PTL DEF Spec, UploadDelivers
=============================================================================
