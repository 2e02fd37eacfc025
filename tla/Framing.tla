------------------------------ MODULE Framing ------------------------------
(***************************************************************************)
(* How a port puts messages on the wire and takes them off again (Port.cpp *)
(* lines 92-369): an address frame, an empty frame and one frame for each  *)
(* message; one message or a vector of them at either end; and what the    *)
(* receiving side does when the frames do not match its messages, or are   *)
(* too many.                                                               *)
(*                                                                         *)
(* A datum is named by the package it is written for, the message and its  *)
(* place, so that data of two packages cannot be confused.  The messages   *)
(* of a vector are made for the package; letter is a message its owner     *)
(* keeps and sends again.  A receive that would write outside the buffer   *)
(* of a message is left out: what it does is undefined (Port.cpp:162, 265).*)
(***************************************************************************)
EXTENDS Message, SequencesExt

CONSTANTS
  MaxFrames,        (* frames a receive has room for: 10 (Port.cpp:199)    *)
  Slots,            (* messages the receiver passes to Receive             *)
  Packages,         (* the packages sent: lengths of their messages        *)
  Offsets,          (* bound: the offsets that messages are given          *)
  MaxPackages       (* bound: packages sent                                *)

ASSUME FramingAssumption ==
  /\ MaxFrames \in Nat /\ MaxFrames >= 3 /\ Slots \in Nat \ {0}
  /\ Offsets \subseteq Nat /\ MaxPackages \in Nat
  /\ \A lengths \in Packages : lengths \in Seq(Nat)

VARIABLES
  queue,            (* the frames at the socket of the receiver            *)
  slots,            (* the messages of the receiver                        *)
  letter,           (* a message of the sender                             *)
  unread,           (* history: the packages with frames in the queue      *)
  count,            (* packages sent so far                                *)
  fit,              (* history: letter was resized since it was last sent  *)
  result            (* how the last receive ended                          *)

vars == <<queue, slots, letter, unread, count, fit, result>>

Init ==
  /\ queue  = <<>> /\ unread = <<>> /\ count = 0 /\ result = "none"
  /\ slots  = [i \in 1 .. Slots |-> NewMessage]
  /\ letter = NewMessage /\ fit = FALSE

-----------------------------------------------------------------------------
(* Sending                                                                 *)

(* A frame of its own data, one that points at the buffer of letter, and   *)
(* the address of a port.                                                  *)
Frame(data) == [address |-> FALSE, letter |-> FALSE, data |-> data]
LetterFrame == [address |-> FALSE, letter |-> TRUE, data |-> frame(letter)]
Address     == [address |-> TRUE, letter |-> FALSE, data |-> <<>>]

(* Mutant: no empty frame before the messages.                             *)
LoadMultipartBare(contents) == <<Address>> \o contents

(* The address, which the receiving socket replaces by that of the sender, *)
(* the empty frame, and the messages.                                      *)
LoadMultipart(contents) == <<Address, Frame(<<>>)>> \o contents

(* Every frame but the last announces more (Port.cpp:335-336).             *)
SendData(frames) ==
  /\ count < MaxPackages
  /\ queue' = queue \o [i \in DOMAIN frames |->
       [address |-> frames[i].address, letter |-> frames[i].letter,
        data |-> frames[i].data, more |-> i < Len(frames)]]
  /\ count' = count + 1

Tagged(lengths) ==
  [m \in DOMAIN lengths |-> [k \in 1 .. lengths[m] |-> <<count + 1, m, k>>]]

Send(lengths) ==
  /\ SendData(LoadMultipart([m \in DOMAIN lengths |-> Frame(Tagged(lengths)[m])]))
  /\ unread' = Append(unread, [messages |-> Tagged(lengths), plain |-> TRUE])
  /\ UNCHANGED <<slots, letter, fit, result>>

(* One message: its frame points at its buffer, and the contents are gone. *)
SendLetter ==
  /\ SendData(LoadMultipart(<<LetterFrame>>))
  /\ letter' = sent(letter) /\ fit' = FALSE
  /\ unread' = Append(unread, [messages |-> <<shown(letter)>>,
                               plain |-> fit /\ letter.offset = 0])
  /\ UNCHANGED <<slots, result>>

(* Its owner resizes it, within its capacity or not, ...                   *)
ResizeLetter(size, offset) ==
  /\ letter' = resize(letter, size, offset)
  /\ fit'    = (fit \/ size + offset <= Capacity)
  /\ UNCHANGED <<queue, slots, unread, count, result>>

(* ... empties it, ...                                                     *)
ResetLetter ==
  /\ letter' = reset(letter) /\ fit' = FALSE
  /\ UNCHANGED <<queue, slots, unread, count, result>>

(* ... or writes from buffer() to the end of its capacity.                 *)
WriteLetter ==
  /\ letter' = write(letter, 0,
                     [k \in 1 .. Capacity - letter.offset |-> <<count + 1, 1, k>>])
  /\ UNCHANGED <<queue, slots, unread, count, fit, result>>

-----------------------------------------------------------------------------
(* Receiving                                                               *)

Least(a, b) == IF a < b THEN a ELSE b

(* The frames up to the first that announces no more.                      *)
FirstLen == CHOOSE n \in DOMAIN queue :
  ~queue[n].more /\ \A k \in 1 .. n - 1 : queue[k].more

(* What a frame holds when it is read: a frame of letter is read where it  *)
(* was written.                                                            *)
data(f) == IF f.letter THEN SubSeq(letter.buffer, 1, Len(f.data)) ELSE f.data

(* The data of a frame that are copied.                                    *)
fragment(f) == SubSeq(data(f), 1, Least(Len(data(f)), Capacity))

(* Mutant: the empty frame is taken for a message.                         *)
ContentsWithEmpty == SubSeq(queue, 2, FirstLen)

(* The frames of the first package that go to the messages.                *)
Contents == SubSeq(queue, 3, FirstLen)

Start == [slots |-> slots, slot |-> 1, offset |-> 0]

(* Mutant: the last message starts over with each further frame.           *)
CopyFrameOver(at, f) ==
  [ slots  |-> [at.slots EXCEPT ![at.slot] =
                  resize(write(@, 0, fragment(f)), Len(fragment(f)), 0)],
    slot   |-> Least(at.slot + 1, Slots),
    offset |-> 0 ]

(* memcpy of what fits to buffer + offset, and resize to all copied so far;*)
(* the last message takes all the frames that are left.                    *)
CopyFrame(at, f) ==
  LET end == at.offset + Len(fragment(f)) IN
    [ slots  |-> [at.slots EXCEPT ![at.slot] =
                    resize(write(@, at.offset, fragment(f)), end, 0)],
      slot   |-> Least(at.slot + 1, Slots),
      offset |-> IF at.slot < Slots THEN 0 ELSE end ]

Copied(frames) == FoldLeft(CopyFrame, Start, frames).slots

(* Mutant: every frame is written to the start of the message.             *)
CopyFrameAtStart(at, f) ==
  [ message |-> write(at.message, 0, fragment(f)),
    offset  |-> at.offset + Len(fragment(f)) ]

(* The same into one message, which is resized once at the end.            *)
CopyFrameToOne(at, f) ==
  [ message |-> write(at.message, at.offset, fragment(f)),
    offset  |-> at.offset + Len(fragment(f)) ]

CopiedToOne(frames) ==
  LET end == FoldLeft(CopyFrameToOne, [message |-> slots[1], offset |-> 0], frames) IN
    [slots EXCEPT ![1] = resize(end.message, end.offset, 0)]

(* Whether one message takes these frames without being written outside:   *)
(* its offset is added to where each of them is copied.                    *)
copiedSize(frames) == FoldLeft(LAMBDA sum, f : sum + Len(fragment(f)), 0, frames)

FitInOne(frames) == slots[1].offset + copiedSize(frames) <= Capacity

(* Of the messages of a vector each is resized behind every frame, so that *)
(* the offset is in use for its first frame only.                          *)
AllFit(frames) ==
  /\ \A i \in 1 .. Least(Slots, Len(frames)) :
       slots[i].offset + Len(fragment(frames[i])) <= Capacity
  /\ copiedSize(SubSeq(frames, Slots, Len(frames))) <= Capacity

(* There is no room for another frame: at() throws, and the frames that    *)
(* were read are gone while the rest of the package stays at the socket.   *)
ReceiveTooMany ==
  /\ queue # <<>> /\ FirstLen > MaxFrames
  /\ queue'  = SubSeq(queue, MaxFrames + 1, Len(queue))
  /\ result' = "thrown"
  /\ UNCHANGED <<slots, letter, unread, count, fit>>

(* Fewer than three frames: nothing is copied, and without a port name the *)
(* hub throws (Hub.hpp:50).                                                *)
ReceiveIncomplete ==
  /\ queue # <<>> /\ FirstLen < 3
  /\ queue'  = SubSeq(queue, FirstLen + 1, Len(queue))
  /\ unread' = Tail(unread)
  /\ result' = "thrown"
  /\ UNCHANGED <<slots, letter, count, fit>>

(* How a receive ends once the name of the sender is read off a frame: an  *)
(* address has one.  Other data are taken for a name as well if a number   *)
(* follows a '-' in what PortNameFromSocketID leaves of them, which may be *)
(* so of any data; stoi throws if it is not.                               *)
SetPortName(f) ==
  IF f.address THEN {"returned"}
  ELSE {"thrown"} \cup (IF data(f) = <<>> THEN {} ELSE {"returned"})

(* The messages are copied when the second frame is empty.  Only then does *)
(* the hub take the port name from the first one, and throw if it is none: *)
(* it may return with nothing copied.                                      *)
ReceivePackage(fits, copied) ==
  /\ queue # <<>> /\ FirstLen \in 3 .. MaxFrames
  /\ queue'  = SubSeq(queue, FirstLen + 1, Len(queue))
  /\ unread' = Tail(unread)
  /\ IF data(queue[2]) = <<>>
     THEN fits /\ slots' = copied
     ELSE UNCHANGED slots
  /\ result' \in SetPortName(queue[1])
  /\ UNCHANGED <<letter, count, fit>>

(* Into the vector of messages.                                            *)
ReceiveMessages == ReceivePackage(AllFit(Contents), Copied(Contents))

Receive == ReceiveTooMany \/ ReceiveIncomplete \/ ReceiveMessages

(* Into one message.                                                       *)
ReceiveOne == ReceivePackage(FitInOne(Contents), CopiedToOne(Contents))

(* The receiver sets the offset of one of its messages.                    *)
ResizeSlot(i, offset) ==
  /\ slots' = [slots EXCEPT ![i] = resize(@, 0, offset)]
  /\ UNCHANGED <<queue, letter, unread, count, fit, result>>

Next ==
  \/ \E lengths \in Packages : Send(lengths)
  \/ SendLetter \/ ResetLetter \/ WriteLetter
  \/ \E size \in 0 .. Capacity, offset \in Offsets : ResizeLetter(size, offset)
  \/ Receive \/ ReceiveOne
  \/ \E i \in 1 .. Slots, offset \in Offsets : ResizeSlot(i, offset)

Spec == Init /\ [][Next]_vars

-----------------------------------------------------------------------------
(* What the messages of the receiver ought to show after a package: each   *)
(* message of the package in the message of the same number, as much of it *)
(* as fits; the messages that are left over in the last one; and nothing   *)
(* changed where the package has no message.                               *)
kept(message) == SubSeq(message, 1, Least(Len(message), Capacity))

Together(messages) == FlattenSeq([m \in DOMAIN messages |-> kept(messages[m])])

Delivered(messages) ==
  [i \in 1 .. Slots |->
     IF i > Len(messages) THEN shown(slots[i])
     ELSE IF i < Slots THEN kept(messages[i])
     ELSE Together(SubSeq(messages, Slots, Len(messages)))]

DeliveredToOne(messages) ==
  [i \in 1 .. Slots |-> IF i = 1 THEN Together(messages) ELSE shown(slots[i])]

(* The frames from a to b are those of a package, all of them, ...         *)
WholePackage(q, a, b, package) ==
  /\ b = a + 1 + Len(package.messages)
  /\ \A k \in a .. b : q[k].address <=> k = a
  /\ q[a + 1].data = <<>> /\ ~q[a + 1].letter
  /\ package.plain =>
       \A m \in DOMAIN package.messages : q[a + 1 + m].data = package.messages[m]

(* ... or the last messages of one that had too many.                      *)
LeftOver(q, a, b, package) ==
  LET n == Len(package.messages) IN
    /\ n > MaxFrames - 2 /\ b < a + n
    /\ \A k \in a .. b : ~q[k].address
    /\ package.plain => \A k \in a .. b : q[k].data = package.messages[n - (b - k)]

FirstFrame(last, i) == IF i = 1 THEN 1 ELSE last[i - 1] + 1

(* The frames q are the packages u, whose last frames are at last.         *)
Framed(q, u, last) ==
  /\ IF u = <<>> THEN q = <<>> ELSE last[Len(u)] = Len(q)
  /\ \A i, j \in DOMAIN u : i < j => last[i] < last[j]
  /\ \A i \in DOMAIN u :
       /\ \A k \in FirstFrame(last, i) .. last[i] : q[k].more <=> k < last[i]
       /\ \/ WholePackage(q, FirstFrame(last, i), last[i], u[i])
          \/ i = 1 /\ LeftOver(q, 1, last[1], u[1])

Datum == {Blank} \cup (Nat \X Nat \X Nat)

(* The frames at the socket are those of the packages that were sent and   *)
(* not received, each as it was sent: only of the first some may be gone,  *)
(* and only if it had too many (Port.cpp:199-224, 316-340).  A message     *)
(* that was resized is sent as it is shown (Message.cpp:20-41).            *)
FramesInv ==
  /\ queue \in Seq([address : BOOLEAN, letter : BOOLEAN, data : Seq(Datum), more : BOOLEAN])
  /\ unread \in Seq([messages : Seq(Seq(Datum)), plain : BOOLEAN])
  /\ letter \in [size : 0 .. Capacity, offset : 0 .. Capacity, contents : 0 .. Capacity,
                 buffer : [1 .. Capacity -> Datum]]
  /\ letter.size + letter.offset <= Capacity
  /\ count \in Nat /\ fit \in BOOLEAN
  /\ fit => letter.contents = letter.size
  /\ \E last \in [DOMAIN unread -> DOMAIN queue] : Framed(queue, unread, last)

(* No offset is in use, the letter was resized before it was sent, and its *)
(* owner has left it alone since.                                          *)
Plain ==
  /\ Head(unread).plain /\ \A i \in 1 .. Slots : slots[i].offset = 0
  /\ \A n \in DOMAIN queue : queue[n].letter => data(queue[n]) = queue[n].data

(* A package with more frames than a receive has room for, or with no      *)
(* message at all.                                                         *)
Odd(package) == LET n == Len(package.messages) IN n = 0 \/ n > MaxFrames - 2

(* A package is received whole and in its order, also after one that was   *)
(* too long (Port.cpp:205-281, 105-166): what the messages of the receiver *)
(* show is what those of the sender showed when it was sent, though a      *)
(* message that is kept was sent, refused a size or was written before.    *)
ReturnsOnePackage == [][
  /\ (Receive /\ ~Odd(Head(unread)) /\ Plain) =>
       [i \in 1 .. Slots |-> shown(slots'[i])] = Delivered(Head(unread).messages)
  /\ (ReceiveOne /\ ~Odd(Head(unread)) /\ Plain) =>
       [i \in 1 .. Slots |-> shown(slots'[i])] = DeliveredToOne(Head(unread).messages) ]_vars

(* Only odd packages are lost: what is left of a long one does not take a  *)
(* later package with it (Port.cpp:199-224).                               *)
OnlyOddPackagesLost ==
  [][ ((Receive \/ ReceiveOne) /\ result' = "thrown") => Odd(Head(unread)) ]_vars

(* A receive that returns takes messages of one package, and copies from   *)
(* what the sender wrote, if that has not changed since: all the messages  *)
(* in their order or, of a package that had too many, the last of them     *)
(* (Port.cpp:105-166, 205-281).  The latter it can: to Hub.hpp:43-51 data  *)
(* may look like a name.                                                   *)
TakesOnePackage == [][
  ((Receive \/ ReceiveOne) /\ result' = "returned") =>
    LET messages == Head(unread).messages
        missing  == Len(messages) - Len(Contents)
    IN  /\ Len(Contents) <= Len(messages)
        /\ ~Odd(Head(unread)) => missing = 0
        /\ Plain => \A m \in DOMAIN Contents : data(Contents[m]) = messages[missing + m] ]_vars

=============================================================================
