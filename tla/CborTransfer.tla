---------------------------- MODULE CborTransfer ----------------------------
(***************************************************************************)
(* The transfer of a 3D image to the master node: its CBOR text is cut     *)
(* into CAN messages (splitCborToCanMsgs), sent one by one                 *)
(* (CommunicationManager::sendData) and put together by the master's       *)
(* simulator (scripts/CommunicationMasterNodeSimulator.py).                *)
(*                                                                         *)
(* A byte of a text is known by its image and its position.  The tasks of  *)
(* the repository's build do not call these functions.                     *)
(***************************************************************************)
EXTENDS Naturals, FiniteSets, SequencesExt

CONSTANTS
  Ids,        \* values of captureId, a byte in the code
  ByteBase,   \* values of a byte of the index
  Payload,    \* MAXIMUM_CAN_MSG_SIZE - ID_FIELD_SIZE
  Lengths,    \* lengths of a text, in bytes
  Images,     \* bound: images sent
  Faults,     \* bound: frames refused, lost, or sent by others
  None        \* a model value

ASSUME TransferAssumption ==
  /\ {Ids, ByteBase, Payload} \subseteq Nat \ {0} /\ Lengths \subseteq Nat \ {0}
  /\ {Images, Faults} \subseteq Nat
  /\ \A n \in Lengths : n <= Payload * ByteBase * ByteBase

VARIABLES
  image,      \* number of the image being sent
  frames,     \* its messages still to be sent
  result,     \* what sendData will return
  listening,  \* the receiving thread of the master runs
  tramas,     \* CBORAssembler: payload by image id and index
  file,       \* image_<id>.txt, None before there is one
  sent,       \* history: text of the image; whether a frame of it was refused, lost
  others,     \* history: ids that a frame of another sender was filed under
  longest     \* history: for each id, the longest text before this image
vars == <<image, frames, result, listening, tramas, file, sent, others, longest>>

ImageIds == 0 .. Ids - 1
IdOf(n) == n % Ids
TextOf(n, length) == [j \in 1 .. length |-> <<n, j>>]

(* Indices travel as two bytes, low one first; the last message has 0xFFFF. *)
IndexBytes(i) == <<i % ByteBase, (i \div ByteBase) % ByteBase>>
LastIndex == <<ByteBase - 1, ByteBase - 1>>
\* Mutant: the bytes are taken the other way round.
IndexOfSwapped(bytes) == bytes[1] * ByteBase + bytes[2]
IndexOf(bytes) == bytes[2] * ByteBase + bytes[1]

NumberOfMsgs(length) == (length + Payload - 1) \div Payload
\* Mutant: a message takes the first byte of the next one too.
SplitOver(id, text) ==
  [i \in 1 .. NumberOfMsgs(Len(text)) |->
    [id |-> id, index |-> IF i * Payload < Len(text) THEN IndexBytes(i - 1) ELSE LastIndex,
     payload |-> SubSeq(text, (i - 1) * Payload + 1,
                        IF i * Payload < Len(text) THEN i * Payload + 1 ELSE Len(text))]]

SplitCborToCanMsgs(id, text) ==
  LET count == NumberOfMsgs(Len(text))
      End(i) == IF i * Payload < Len(text) THEN i * Payload ELSE Len(text)
  IN  [i \in 1 .. count |->
        [id      |-> id,
         index   |-> IF i = count THEN LastIndex ELSE IndexBytes(i - 1),
         payload |-> SubSeq(text, (i - 1) * Payload + 1, End(i))]]

Init ==
  /\ image = 0 /\ frames = <<>> /\ result = TRUE /\ listening = TRUE
  /\ tramas = [id \in ImageIds |-> <<>>]
  /\ file = [id \in ImageIds |-> None]
  /\ sent = [text |-> <<>>, refused |-> FALSE, lost |-> FALSE, faults |-> 0]
  /\ others = {} /\ longest = [id \in ImageIds |-> 0]

-----------------------------------------------------------------------------
(* An image is captured, serialized and split. *)
Capture ==
  /\ image < Images /\ frames = <<>>
  /\ image' = image + 1 /\ result' = TRUE
  /\ \E length \in Lengths :
       LET text == TextOf(image', length)
       IN  /\ frames' = SplitCborToCanMsgs(IdOf(image'), text)
           /\ sent' = [sent EXCEPT !.text = text, !.refused = FALSE, !.lost = FALSE]
  /\ longest' = [longest EXCEPT ![IdOf(image)] =
                   IF @ > Len(sent.text) THEN @ ELSE Len(sent.text)]
  /\ UNCHANGED <<listening, tramas, file, others>>

(* receive_can_messages: file the frame; at the last index put together     *)
(* whatever has been filed under the id, gaps and leftovers included, and   *)
(* write it if it parses.                                                   *)
With(payloads, index, payload) ==
  [i \in DOMAIN payloads \cup {index} |-> IF i = index THEN payload ELSE payloads[i]]

Filed(frame) ==
  [tramas EXCEPT ![frame.id] = With(@, IndexOf(frame.index), frame.payload)]

(* sorted(keys): the k-th element of a set has k - 1 elements below it.     *)
Sorted(keys) ==
  [k \in 1 .. Cardinality(keys) |->
    CHOOSE i \in keys : Cardinality({j \in keys : j < i}) = k - 1]

AssembleData(payloads) ==
  LET indices == Sorted(DOMAIN payloads)
  IN  FlattenSeq([k \in DOMAIN indices |-> payloads[indices[k]]])

Parses(text) == IF text = sent.text THEN {TRUE} ELSE BOOLEAN

ReceiveCanMessages(frame) ==
  IF ~listening THEN UNCHANGED <<tramas, file>>
  ELSE /\ tramas' = Filed(frame)
       /\ LET text == AssembleData(tramas'[frame.id])
          IN  IF frame.index = LastIndex
              THEN \E parses \in Parses(text) :
                     file' = IF parses THEN [file EXCEPT ![frame.id] = text] ELSE file
              ELSE UNCHANGED file

Fault == sent.faults < Faults

\* Mutant: only the last frame's result is returned.
TransmitMsgForgets ==
  /\ frames # <<>> /\ frames' = Tail(frames)
  /\ \/ ReceiveCanMessages(Head(frames)) /\ result' = TRUE /\ UNCHANGED sent
     \/ /\ Fault /\ sent' = [sent EXCEPT !.refused = TRUE, !.faults = @ + 1]
        /\ result' = FALSE /\ UNCHANGED <<tramas, file>>
  /\ UNCHANGED <<image, listening, others, longest>>

(* sendData sends the next message, whatever became of the one before.      *)
TransmitMsg ==
  /\ frames # <<>> /\ frames' = Tail(frames)
  /\ \/ ReceiveCanMessages(Head(frames)) /\ UNCHANGED <<result, sent>>
     \/ /\ Fault /\ sent' = [sent EXCEPT !.refused = TRUE, !.faults = @ + 1]
        /\ result' = FALSE /\ UNCHANGED <<tramas, file>>
     \/ /\ Fault /\ sent' = [sent EXCEPT !.lost = TRUE, !.faults = @ + 1]
        /\ UNCHANGED <<result, tramas, file>>
  /\ UNCHANGED <<image, listening, others, longest>>

(* The master looks at no arbitration id: a frame of any sender is filed;   *)
(* one of fewer than three bytes ends the thread.                           *)
OtherSender ==
  /\ Fault /\ sent' = [sent EXCEPT !.faults = @ + 1]
  /\ \/ \E id \in ImageIds, lsb, msb \in 0 .. ByteBase - 1 :
          /\ ReceiveCanMessages([id |-> id, index |-> <<lsb, msb>>, payload |-> <<<<0, 0>>>>])
          /\ others' = others \cup {id} /\ UNCHANGED listening
     \/ listening' = FALSE /\ UNCHANGED <<tramas, file, others>>
  /\ UNCHANGED <<image, frames, result, longest>>

Next == Capture \/ TransmitMsg \/ OtherSender
Spec == Init /\ [][Next]_vars

-----------------------------------------------------------------------------
(* Types of the sender's and the master's state. *)
TypeOK ==
  /\ image \in 0 .. Images /\ result \in BOOLEAN /\ listening \in BOOLEAN
  /\ \A k \in 1 .. Len(frames) :
       frames[k].id \in ImageIds /\ Len(frames[k].payload) \in 1 .. Payload
  /\ \A id \in ImageIds : DOMAIN tramas[id] \subseteq 0 .. ByteBase * ByteBase - 1
  /\ others \subseteq ImageIds

(* The file of an image sent is the image, or there is a reason: a frame    *)
(* was refused or lost, the master's thread ended, another sender's frame   *)
(* was filed under the id, or an earlier image of that id was longer; in no *)
(* case does assemble_data notice                                           *)
(* (SystemTaskManager.cpp:397-430, CommunicationMasterNodeSimulator.py:115-174). *)
FileIsTheImage ==
  image > 0 /\ frames = <<>> =>
    \/ file[IdOf(image)] = sent.text
    \/ sent.refused \/ sent.lost \/ ~listening
    \/ IdOf(image) \in others \/ longest[IdOf(image)] > Len(sent.text)

(* sendData goes on after a refused frame and still says FALSE in the end;  *)
(* of a frame lost on the bus it knows nothing                              *)
(* (CommunicationManager.cpp:55-82).                                        *)
SendDataTells == frames = <<>> => result = ~sent.refused
=============================================================================
