--------------------------- MODULE RecvFrameProofs ---------------------------
(***************************************************************************)
(* Proofs about RecvFrame for every size of buffer, header and message     *)
(* that keeps the order the code's sizes have, and for every length word:   *)
(* the invariants of the receive path, where alone it can write beyond its *)
(* buffer, and that every step of it is a step of MsgStream.               *)
(***************************************************************************)
EXTENDS RecvFrame, SequenceTheorems, TLAPS

(* The place of the k-th message of s, or of the one to come.               *)
EndOf(s) == IF s = <<>> THEN 0 ELSE s[Len(s)].at + s[Len(s)].bytes
StartIn(s, k) == IF k <= Len(s) THEN s[k].at ELSE EndOf(s)

(* The messages of s lie one behind the other.                              *)
Laid(s) == s \in Seq([at : Nat, len : Headers, bytes : Nat]) /\ Len(s) <= MaxSent
Shaped(s) == \A k \in 1 .. Len(s) : s[k] = Message(s[k].at, s[k].len)
Adjacent(s) == \A k \in 1 .. Len(s) : s[k].at + s[k].bytes = StartIn(s, k + 1)
Ordered(s) == \A i, j \in 1 .. Len(s) : i < j => s[i].at + s[i].bytes <= s[j].at
Near(s) == \A k \in 1 .. Len(s) : s[k].at <= (k - 1) * MaxWord
Row(s) == Laid(s) /\ Shaped(s) /\ Adjacent(s) /\ Ordered(s) /\ Near(s)

StartOf(k) == StartIn(sent, k)
SentOK == Row(sent)

TypeOK ==
  /\ pc \in {"recv", "frame", "returned", "handle", "idle", "closed", "overrun"}
  /\ pass \in {1, 2} /\ times \in {0, 1} /\ rtn \in {"ok", "error", "close"}
  /\ left \in Int /\ got \in BOOLEAN /\ has_closed \in BOOLEAN
  /\ recv_pos \in Nat /\ last_finish \in Nat /\ handle_pos \in Nat /\ base \in Nat
  /\ recv_mark \in BOOLEAN /\ edge \in BOOLEAN /\ fin \in BOOLEAN /\ rst \in BOOLEAN
  /\ kernel \in Nat /\ wire \in Nat
  /\ delivered \in Seq([at : Nat, len : Nat, bytes : Nat])

(* Bytes that were received, wait, or are under way were all sent.          *)
Sourced == base + recv_pos + kernel + wire <= SentEnd

(* What was framed ends where a message ends, and all its messages have      *)
(* valid length words.                                                      *)
Framed ==
  /\ handle_pos <= last_finish /\ last_finish <= recv_pos /\ recv_pos <= Block
  /\ \E k \in 1 .. Len(sent) + 1 : base + last_finish = StartOf(k)
  /\ \A k \in 1 .. Len(sent) : sent[k].at < base + last_finish => sent[k].len > Hdr

(* What is delivered next lies at handle_pos.                               *)
NextUp ==
  /\ Len(delivered) <= Len(sent)
  /\ base + handle_pos = StartOf(Len(delivered) + 1)

Front == ReadBuf - MinItf

(* A pass ends in the front part of the buffer, or with the header or the   *)
(* rest of the one message that straddles its end, unless the length word   *)
(* of that one is beyond what is ever framed.                               *)
Refused == HeaderAt(last_finish) \notin 0 .. MaxMsg

Within(end) ==
  \/ end <= Front \/ end <= last_finish + Hdr
  \/ end <= last_finish + HeaderAt(last_finish)
  \/ Refused

Windows ==
  /\ last_finish <= Front \/ last_finish = recv_pos
  /\ pc = "recv" => last_finish <= Front /\ Within(recv_pos + left)
  /\ pc = "frame" => Within(recv_pos)
  /\ pc = "recv" /\ got => left > 0

(* The buffer was left through such a word.                                 *)
Overran == pc = "overrun" => Refused

(* Once a pass has ended well, recv_mark tells whether a message is          *)
(* under way.                                                               *)
Settled ==
  \/ pc = "idle"
  \/ pc = "returned" /\ rtn # "close"
  \/ pc = "handle" /\ ~has_closed
Marked == Settled => (recv_mark <=> last_finish # recv_pos)

(* After an error a pass receives nothing more.                             *)
Errors ==
  /\ rtn = "error" => rst /\ kernel = 0
  /\ times = 0 =>
       /\ rst /\ kernel = 0 /\ pass = 1 /\ pc # "frame"
       /\ pc = "recv" => ~got
       /\ pc = "returned" => rtn = "close"

(* Input waits without an event only behind the front part.                 *)
Waiting ==
  pc \in {"frame", "returned", "handle"} /\ ~edge /\ kernel > 0 => ~HasRoom

(* A pass that begins with room in front never goes beyond the front part.   *)
Reach == pc = "recv" => ~HasRoom \/ recv_pos + left = Front

IInv ==
  /\ SentOK /\ TypeOK /\ Sourced /\ Framed /\ NextUp
  /\ Windows /\ Overran /\ Marked /\ Errors /\ Waiting /\ Reach
  /\ NothingHeldBack /\ StallsAtTheEnd

-----------------------------------------------------------------------------
(* The messages the peer sent.                                             *)

LEMMA Sizes ==
  /\ Peek \in Nat /\ Hdr \in Nat /\ MinItf \in Nat /\ ReadBuf \in Nat /\ MaxMsg \in Nat
  /\ MaxSent \in Nat /\ Front \in Nat /\ Block \in Nat
  /\ Hdr < MaxMsg /\ Front + MaxMsg <= Block /\ 0 < Hdr /\ Front > 0
  /\ Front = ReadBuf - MinItf
  /\ MaxWord \in Nat /\ Block <= MaxWord /\ Hdr < MaxWord /\ MaxMsg < MaxWord
  BY SizesAssumption, WordAssumption DEF Front, Block

LEMMA OneMessage ==
  ASSUME NEW s, Row(s), NEW k \in 1 .. Len(s)
  PROVE  /\ s[k].at \in Nat /\ s[k].len \in Int /\ s[k].bytes \in Nat
         /\ s[k].bytes > Hdr /\ s[k].bytes <= MaxWord
         /\ s[k].len > Hdr => s[k].bytes = s[k].len
         /\ s[k].len \in Headers
<1>1. s[k] \in [at : Nat, len : Headers, bytes : Nat]
  <2> DEFINE M == [at : Nat, len : Headers, bytes : Nat]
  <2>1. s \in Seq(M)
    BY DEF Row, Laid
  <2> HIDE DEF M
  <2>2. s[k] \in M
    BY <2>1
  <2> QED
    BY <2>2 DEF M
<1>2. s[k].at \in Nat /\ s[k].len \in Headers /\ s[k].bytes \in Nat
  BY <1>1
<1>3. s[k].bytes = IF s[k].len > Hdr THEN s[k].len ELSE Hdr + 1
  <2>1. s[k] = Message(s[k].at, s[k].len)
    BY DEF Row, Shaped
  <2>2. Message(s[k].at, s[k].len).bytes = IF s[k].len > Hdr THEN s[k].len ELSE Hdr + 1
    BY DEF Message
  <2> QED
    BY <2>1, <2>2
<1>4. s[k].len \in Int /\ s[k].len <= MaxWord
  <2>1. s[k].len \in -MaxWord - 1 .. MaxWord
    BY <1>2, HeadersAssumption, Zenon
  <2> QED
    BY <2>1, Sizes
<1> QED
  BY <1>2, <1>3, <1>4, Sizes

LEMMA Lengths ==
  ASSUME NEW s, Row(s)
  PROVE  /\ Len(s) \in Nat /\ Len(s) <= MaxSent
         /\ s # <<>> => Len(s) \in 1 .. Len(s)
         /\ s = <<>> => Len(s) = 0
  BY DEF Row, Laid

LEMMA Starting ==
  ASSUME NEW s, Row(s)
  PROVE  /\ EndOf(s) \in Nat
         /\ \A k \in 1 .. Len(s) + 1 : StartIn(s, k) \in Nat /\ StartIn(s, k) <= EndOf(s)
         /\ \A k \in 1 .. Len(s) : StartIn(s, k) = s[k].at
         /\ StartIn(s, Len(s) + 1) = EndOf(s)
         /\ \A k \in 1 .. Len(s) : s[k].at + s[k].bytes <= EndOf(s)
<1>1. Len(s) \in Nat /\ (s # <<>> => Len(s) \in 1 .. Len(s))
  BY Lengths
<1>2. EndOf(s) \in Nat
  <2>1. CASE s = <<>>
    BY <2>1 DEF EndOf
  <2>2. CASE s # <<>>
    BY <2>2, <1>1, OneMessage DEF EndOf
  <2> QED
    BY <2>1, <2>2
<1>3. StartIn(s, Len(s) + 1) = EndOf(s)
  BY <1>1 DEF StartIn
<1>4. \A k \in 1 .. Len(s) : StartIn(s, k) = s[k].at
  BY <1>1 DEF StartIn
<1>5. ASSUME NEW k \in 1 .. Len(s)
      PROVE  s[k].at + s[k].bytes <= EndOf(s) /\ s[k].at \in Nat /\ s[k].bytes \in Nat
  <2>1. Len(s) \in 1 .. Len(s) /\ s # <<>>
    BY <1>1, Lengths
  <2>2. EndOf(s) = s[Len(s)].at + s[Len(s)].bytes
    BY <2>1 DEF EndOf
  <2>3. k = Len(s) \/ k < Len(s)
    BY <1>1
  <2>4. k < Len(s) => s[k].at + s[k].bytes <= s[Len(s)].at
    BY <2>1 DEF Row, Ordered
  <2>5. /\ s[k].at \in Nat /\ s[k].bytes \in Nat
        /\ s[Len(s)].at \in Nat /\ s[Len(s)].bytes \in Nat
    BY <2>1, OneMessage
  <2> QED
    BY <2>2, <2>3, <2>4, <2>5
<1>6. \A k \in 1 .. Len(s) + 1 : k \in 1 .. Len(s) \/ k = Len(s) + 1
  BY <1>1
<1> QED
  BY <1>1, <1>2, <1>3, <1>4, <1>5, <1>6

LEMMA Apart ==
  ASSUME NEW s, Row(s), NEW i \in 1 .. Len(s), NEW j \in 1 .. Len(s)
  PROVE  /\ s[i].at = s[j].at => i = j
         /\ s[i].at < s[j].at => s[i].at + s[i].bytes <= s[j].at
<1>1. /\ i < j => s[i].at + s[i].bytes <= s[j].at
      /\ j < i => s[j].at + s[j].bytes <= s[i].at
  BY DEF Row, Ordered
<1>2. /\ s[i].at \in Nat /\ s[i].bytes \in Nat /\ s[i].bytes > 0
      /\ s[j].at \in Nat /\ s[j].bytes \in Nat /\ s[j].bytes > 0
  BY OneMessage, Sizes
<1>3. i \in Int /\ j \in Int /\ (i < j \/ j < i \/ i = j)
  BY Lengths
<1> QED
  BY <1>1, <1>2, <1>3

(* A length word is that of the one message that starts where it is read.   *)
WordAt(s, place) ==
  IF \E k \in 1 .. Len(s) : s[k].at = place
    THEN s[CHOOSE k \in 1 .. Len(s) : s[k].at = place].len
    ELSE 0

LEMMA Word ==
  ASSUME NEW s, Row(s), NEW place
  PROVE  /\ WordAt(s, place) \in Int
         /\ WordAt(s, place) # 0 => \E k \in 1 .. Len(s) : s[k].at = place
         /\ \A k \in 1 .. Len(s) : s[k].at = place => WordAt(s, place) = s[k].len
<1>1. CASE \E k \in 1 .. Len(s) : s[k].at = place
  <2> DEFINE c == CHOOSE k \in 1 .. Len(s) : s[k].at = place
  <2>1. c \in 1 .. Len(s) /\ s[c].at = place
    BY <1>1
  <2>2. WordAt(s, place) = s[c].len
    BY <1>1 DEF WordAt
  <2> HIDE DEF c
  <2>3. ASSUME NEW k \in 1 .. Len(s), s[k].at = place PROVE k = c
    BY <2>1, <2>3, Apart
  <2> QED
    BY <1>1, <2>1, <2>2, <2>3, OneMessage
<1>2. CASE ~ \E k \in 1 .. Len(s) : s[k].at = place
  BY <1>2, Sizes DEF WordAt
<1> QED
  BY <1>1, <1>2

LEMMA Headered ==
  ASSUME SentOK, NEW pos
  PROVE  /\ HeaderAt(pos) \in Int
         /\ HeaderAt(pos) # 0 => \E k \in 1 .. Len(sent) : sent[k].at = base + pos
         /\ \A k \in 1 .. Len(sent) : sent[k].at = base + pos => HeaderAt(pos) = sent[k].len
<1>1. HeaderAt(pos) = WordAt(sent, base + pos)
  BY DEF HeaderAt, WordAt
<1> QED
  BY <1>1, Word DEF SentOK

(* A message that starts before what is framed ends within it.               *)
LEMMA FramedWhole ==
  ASSUME SentOK, Framed, NEW k \in 1 .. Len(sent), sent[k].at < base + last_finish
  PROVE  sent[k].at + sent[k].bytes <= base + last_finish
<1>1. PICK j \in 1 .. Len(sent) + 1 : base + last_finish = StartIn(sent, j)
  BY DEF Framed, StartOf
<1>2. CASE j = Len(sent) + 1
  BY <1>1, <1>2, Starting DEF SentOK
<1>3. CASE j \in 1 .. Len(sent)
  BY <1>1, <1>3, Starting, Apart DEF SentOK
<1> QED
  BY <1>1, <1>2, <1>3, Lengths DEF SentOK

-----------------------------------------------------------------------------
(* The peer sends one more message.                                        *)

LEMMA OneRowMore == ASSUME NEW n \in Nat, NEW m \in Nat PROVE (n - 1) * m + m = n * m
  BY SMT

LEMMA Sending ==
  ASSUME SentOK, PeerSends
  PROVE  /\ SentOK'
         /\ Len(sent') = Len(sent) + 1
         /\ \A k \in 1 .. Len(sent) : sent'[k] = sent[k]
         /\ sent'[Len(sent) + 1].at = SentEnd
         /\ SentEnd' = SentEnd + wire' /\ wire' \in Nat /\ wire' > 0
         /\ \A k \in 1 .. Len(sent) + 1 : StartOf(k)' = StartOf(k)
<1> DEFINE n == Len(sent)
           e == EndOf(sent)
<1>1. PICK h \in Headers : /\ sent' = Append(sent, Message(SentEnd, h))
                           /\ wire' = Message(SentEnd, h).bytes
  BY DEF PeerSends
<1>2. n \in Nat /\ n < MaxSent /\ e \in Nat /\ SentEnd = e /\ h \in Int /\ h <= MaxWord
  BY Sizes, Lengths, Starting, HeadersAssumption DEF SentOK, PeerSends, SentEnd, EndOf
<1> DEFINE b == IF h > Hdr THEN h ELSE Hdr + 1
<1>3. Message(e, h) = [at |-> e, len |-> h, bytes |-> b]
  BY DEF Message
<1>4. b \in Nat /\ b > 0 /\ b <= MaxWord
  BY <1>2, Sizes
<1>5. /\ sent' = Append(sent, Message(e, h))
      /\ Len(sent') = n + 1
      /\ \A k \in 1 .. n : sent'[k] = sent[k]
      /\ sent'[n + 1] = Message(e, h)
      /\ sent' # <<>>
  <2> DEFINE M == [at : Nat, len : Headers, bytes : Nat]
  <2>1. sent \in Seq(M)
    BY DEF SentOK, Row, Laid
  <2>2. sent' = Append(sent, Message(e, h))
    BY <1>1, <1>2
  <2> HIDE DEF M, e
  <2> QED
    BY <2>1, <2>2
<1>6. sent'[n + 1].at = e /\ sent'[n + 1].len = h /\ sent'[n + 1].bytes = b
  BY <1>3, <1>5
<1>7. EndOf(sent') = e + b /\ wire' = b
  BY <1>1, <1>2, <1>3, <1>5, <1>6 DEF EndOf
<1> HIDE DEF b, e
<1>8. \A k \in 1 .. n + 1 : StartIn(sent', k) = StartIn(sent, k)
  <2>1. ASSUME NEW k \in 1 .. n PROVE StartIn(sent', k) = StartIn(sent, k)
    BY <1>2, <1>5 DEF StartIn
  <2>2. StartIn(sent', n + 1) = e /\ StartIn(sent, n + 1) = e
    BY <1>2, <1>5, <1>6, Starting DEF StartIn, SentOK, e
  <2>3. \A k \in 1 .. n + 1 : k \in 1 .. n \/ k = n + 1
    BY <1>2
  <2> QED
    BY <2>1, <2>2, <2>3
<1>9. Laid(sent')
  <2> DEFINE M == [at : Nat, len : Headers, bytes : Nat]
  <2>1. sent \in Seq(M)
    BY DEF SentOK, Row, Laid
  <2>2. Message(e, h) \in M
    BY <1>2, <1>3, <1>4
  <2> HIDE DEF M
  <2>3. sent' \in Seq(M)
    BY <1>5, <2>1, <2>2
  <2>4. Len(sent') <= MaxSent
    BY <1>2, <1>5, Sizes
  <2> QED
    BY <2>3, <2>4 DEF Laid, M
<1>10. \A k \in 1 .. Len(sent') : k \in 1 .. n \/ k = n + 1
  BY <1>2, <1>5
<1>11. Shaped(sent')
  BY <1>3, <1>5, <1>6, <1>10 DEF Shaped, SentOK, Row
<1>12. Adjacent(sent')
  <2>1. ASSUME NEW k \in 1 .. n PROVE sent'[k].at + sent'[k].bytes = StartIn(sent', k + 1)
    <3>1. sent[k].at + sent[k].bytes = StartIn(sent, k + 1)
      BY DEF SentOK, Row, Adjacent
    <3>2. k + 1 \in 1 .. n + 1
      BY <1>2
    <3> QED
      BY <1>5, <1>8, <3>1, <3>2
  <2>2. StartIn(sent', n + 2) = e + b
    BY <1>2, <1>5, <1>7 DEF StartIn
  <2>3. n + 1 + 1 = n + 2
    BY <1>2
  <2> QED
    BY <1>6, <1>10, <2>1, <2>2, <2>3 DEF Adjacent
<1>13. Ordered(sent')
  <2>1. ASSUME NEW i \in 1 .. n, NEW j \in 1 .. n, i < j
        PROVE  sent'[i].at + sent'[i].bytes <= sent'[j].at
    BY <1>5, <2>1 DEF SentOK, Row, Ordered
  <2>2. ASSUME NEW i \in 1 .. n PROVE sent'[i].at + sent'[i].bytes <= sent'[n + 1].at
    BY <1>5, <1>6, Starting DEF SentOK, e
  <2>3. ASSUME NEW i \in 1 .. Len(sent'), NEW j \in 1 .. Len(sent'), i < j
        PROVE  i \in 1 .. n
    BY <1>2, <1>5, <2>3
  <2> QED
    BY <1>10, <2>1, <2>2, <2>3 DEF Ordered
<1>14. Near(sent')
  <2>1. ASSUME NEW k \in 1 .. n PROVE sent'[k].at <= (k - 1) * MaxWord
    BY <1>5 DEF SentOK, Row, Near
  <2>2. e <= n * MaxWord
    <3>1. CASE sent = <<>>
      <4>1. e = 0 /\ n = 0
        BY <3>1 DEF EndOf, e
      <4> QED
        BY <4>1, Sizes
    <3>2. CASE sent # <<>>
      <4>1. n \in 1 .. n /\ n \in Nat
        BY <3>2, Lengths DEF SentOK
      <4>2. e = sent[n].at + sent[n].bytes
        BY <3>2 DEF EndOf, e
      <4>3. sent[n].at <= (n - 1) * MaxWord
        BY <4>1 DEF SentOK, Row, Near
      <4>4. sent[n].at \in Nat /\ sent[n].bytes \in Nat /\ sent[n].bytes <= MaxWord
        BY <4>1, OneMessage DEF SentOK
      <4>5. (n - 1) * MaxWord + MaxWord = n * MaxWord
        BY <4>1, Sizes, OneRowMore
      <4>6. (n - 1) * MaxWord \in Int /\ MaxWord \in Nat
        BY <4>1, Sizes
      <4> DEFINE q == (n - 1) * MaxWord
      <4> HIDE DEF q
      <4>7. e <= q + MaxWord
        BY <4>2, <4>3, <4>4, <4>6 DEF q
      <4> QED
        BY <4>5, <4>7 DEF q
    <3> QED
      BY <3>1, <3>2
  <2>3. (n + 1) - 1 = n
    BY <1>2
  <2> QED
    BY <1>6, <1>10, <2>1, <2>2, <2>3 DEF Near
<1>15. Row(sent')
  BY <1>9, <1>11, <1>12, <1>13, <1>14 DEF Row
<1>16. SentEnd' = e + b
  BY <1>5, <1>7 DEF SentEnd, EndOf
<1> QED
  BY <1>2, <1>4, <1>5, <1>6, <1>7, <1>8, <1>15, <1>16 DEF SentOK, StartOf

-----------------------------------------------------------------------------
(* What single steps do.                                                   *)

LEMMA HeaderSame ==
  ASSUME UNCHANGED <<sent, base>>, NEW pos
  PROVE  HeaderAt(pos)' = HeaderAt(pos)
  BY DEF HeaderAt

LEMMA WindowFits ==
  ASSUME SentOK, TypeOK
  PROVE  /\ Window \in Int
         /\ last_finish <= recv_pos /\ recv_pos <= Block => Within(recv_pos + Window)
         /\ HasRoom => Window > 0 /\ recv_pos + Window = Front /\ recv_pos < Front
<1>1. HeaderAt(last_finish) \in Int
  BY Headered, Sizes
<1>2. recv_pos \in Nat /\ last_finish \in Nat /\ Peek \in Nat
  BY Sizes DEF TypeOK
<1>3. CASE HasRoom
  BY <1>2, <1>3, Sizes DEF Window, HasRoom, Within
<1>4. CASE ~HasRoom
  <2>1. CASE recv_pos - last_finish < Peek
    BY <1>2, <1>4, <2>1, Sizes DEF Window, WindowNoRoom, Within
  <2>2. CASE ~(recv_pos - last_finish < Peek)
    <3> DEFINE h == HeaderAt(last_finish)
    <3>1. Window = Wrapped(h - (recv_pos - last_finish))
      BY <1>4, <2>2 DEF Window, WindowNoRoom
    <3>2. h \in Int /\ (Refused <=> h \notin 0 .. MaxMsg)
      BY <1>1 DEF Refused
    <3> HIDE DEF h
    <3>3. Window \in Int
      BY <1>2, <3>1, <3>2, Sizes DEF Wrapped
    <3>4. ASSUME last_finish <= recv_pos, recv_pos <= Block, ~Refused
          PROVE  recv_pos + Window <= last_finish + h
      BY <1>2, <3>1, <3>2, <3>4, Sizes DEF Wrapped
    <3> QED
      BY <1>4, <3>3, <3>4 DEF Within, h
  <2> QED
    BY <2>1, <2>2
<1> QED
  BY <1>3, <1>4

LEMMA WithinBlock ==
  ASSUME SentOK, TypeOK, last_finish <= Front, NEW end \in Int, Within(end)
  PROVE  end <= Block \/ Refused
<1>1. CASE ~Refused
  <2>1. HeaderAt(last_finish) \in Nat /\ HeaderAt(last_finish) <= MaxMsg
    BY <1>1, Sizes DEF Refused
  <2> QED
    BY <1>1, <2>1, Sizes DEF Within, TypeOK
<1> QED
  BY <1>1

LEMMA Receiving ==
  ASSUME TypeOK, Recv
  PROVE  \E n \in Nat :
           /\ n > 0 /\ n <= left /\ n <= kernel
           /\ recv_pos' = recv_pos + n /\ kernel' = kernel - n /\ left' = left - n
           /\ recv_pos' + left' = recv_pos + left /\ recv_pos' <= Block
           /\ (pc' = "frame" /\ (kernel' = 0 \/ left' = 0)) \/ (pc' = "recv" /\ left' > 0)
<1> DEFINE n == Least(kernel, left)
<1>1. n \in Nat /\ n > 0 /\ n <= left /\ n <= kernel /\ (n = kernel \/ n = left)
  BY DEF TypeOK, Recv, Least
<1>2. /\ recv_pos' = recv_pos + n /\ kernel' = kernel - n /\ left' = left - n
      /\ recv_pos' <= Block
      /\ pc' = IF n <= left' \/ left' = 0 THEN "frame" ELSE "recv"
  BY DEF Recv
<1> HIDE DEF n
<1>3. left' \in Nat /\ recv_pos \in Nat /\ kernel \in Nat /\ left \in Int
  BY <1>1, <1>2 DEF TypeOK
<1>4. recv_pos' + left' = recv_pos + left
  BY <1>1, <1>2, <1>3
<1>5. kernel' = 0 \/ left' = 0
  BY <1>1, <1>2, <1>3
<1>6. pc' = "frame" \/ (pc' = "recv" /\ left' > 0)
  <2>1. CASE n <= left' \/ left' = 0
    BY <1>1, <1>2, <1>3, <2>1
  <2>2. CASE ~(n <= left' \/ left' = 0)
    <3>1. left' > 0
      BY <1>3, <2>2
    <3> QED
      BY <1>1, <1>2, <1>3, <2>2, <3>1
  <2> QED
    BY <2>1, <2>2
<1> QED
  BY <1>1, <1>2, <1>4, <1>5, <1>6

(* The message that is framed.                                              *)
LEMMA Framing ==
  ASSUME SentOK, TypeOK, FrameOne
  PROVE  \E k \in 1 .. Len(sent) :
           /\ sent[k].at = base + last_finish
           /\ HeaderAt(last_finish) = sent[k].len /\ sent[k].bytes = sent[k].len
           /\ sent[k].len > Hdr /\ sent[k].len \in Nat
           /\ last_finish' = last_finish + sent[k].len
           /\ last_finish + sent[k].len <= recv_pos
           /\ base + last_finish' = StartOf(k + 1)
<1>1. HeaderAt(last_finish) > Hdr
  BY DEF FrameOne, ValidHeader
<1>2. PICK k \in 1 .. Len(sent) : sent[k].at = base + last_finish
  BY <1>1, Headered, Sizes
<1>3. HeaderAt(last_finish) = sent[k].len
  BY <1>2, Headered
<1>4. sent[k].bytes = sent[k].len /\ sent[k].len \in Nat
  BY <1>1, <1>3, OneMessage DEF SentOK
<1>5. last_finish' = last_finish + sent[k].len /\ recv_pos - last_finish >= sent[k].len
  BY <1>3 DEF FrameOne, Complete
<1>6. base + last_finish + sent[k].len = StartOf(k + 1)
  BY <1>2, <1>4 DEF SentOK, Row, Adjacent, StartOf
<1>7. base + last_finish' = StartOf(k + 1) /\ last_finish + sent[k].len <= recv_pos
  <2>1. base \in Nat /\ last_finish \in Nat /\ recv_pos \in Nat
    BY DEF TypeOK
  <2>2. base + last_finish' = base + last_finish + sent[k].len
    BY <1>4, <1>5, <2>1
  <2> QED
    BY <1>4, <1>5, <1>6, <2>1, <2>2
<1>8. sent[k].len > Hdr
  BY <1>1, <1>3
<1> QED
  BY <1>2, <1>3, <1>4, <1>5, <1>7, <1>8

(* The message that handle_pos is at, when it is not at last_finish.        *)
LEMMA Next1 ==
  ASSUME SentOK, TypeOK, Framed, NextUp, handle_pos < last_finish
  PROVE  LET k == Len(delivered) + 1
         IN  /\ k \in 1 .. Len(sent) /\ sent[k].at = base + handle_pos
             /\ HeaderAt(handle_pos) = sent[k].len /\ sent[k].bytes = sent[k].len
             /\ sent[k].len \in Nat /\ sent[k].len > Hdr
             /\ handle_pos + sent[k].len <= last_finish
             /\ base + handle_pos + sent[k].len = StartOf(k + 1)
             /\ Message(base + handle_pos, HeaderAt(handle_pos)) = sent[k]
<1> DEFINE k == Len(delivered) + 1
<1>0. Len(delivered) \in Nat /\ base \in Nat /\ handle_pos \in Nat /\ last_finish \in Nat
  BY DEF TypeOK
<1>1. base + last_finish <= SentEnd /\ SentEnd = EndOf(sent)
  BY Starting DEF SentOK, Framed, StartOf, SentEnd, EndOf
<1>2. k \in 1 .. Len(sent) + 1 /\ base + handle_pos = StartIn(sent, k)
  BY <1>0, Lengths DEF SentOK, NextUp, StartOf
<1>3. k # Len(sent) + 1
  BY <1>0, <1>1, <1>2, Starting DEF SentOK
<1>4. k \in 1 .. Len(sent)
  BY <1>2, <1>3, Lengths DEF SentOK
<1> HIDE DEF k
<1>5. sent[k].at = base + handle_pos
  BY <1>2, <1>4, Starting DEF SentOK
<1>6. HeaderAt(handle_pos) = sent[k].len
  BY <1>4, <1>5, Headered
<1>7. sent[k].at < base + last_finish
  BY <1>0, <1>5
<1>8. sent[k].len > Hdr
  BY <1>4, <1>7 DEF Framed
<1>9. sent[k].bytes = sent[k].len /\ sent[k].len \in Nat
  BY <1>4, <1>8, OneMessage DEF SentOK
<1>10. sent[k].at + sent[k].bytes <= base + last_finish
  BY <1>4, <1>7, FramedWhole
<1>11. handle_pos + sent[k].len <= last_finish
  BY <1>0, <1>5, <1>9, <1>10
<1>12. sent[k].at + sent[k].bytes = StartOf(k + 1)
  BY <1>4 DEF SentOK, Row, Adjacent, StartOf
<1>13. Message(base + handle_pos, HeaderAt(handle_pos)) = sent[k]
  BY <1>4, <1>5, <1>6 DEF SentOK, Row, Shaped
<1> QED
  BY <1>4, <1>5, <1>6, <1>8, <1>9, <1>11, <1>12, <1>13 DEF k

LEMMA Handling ==
  ASSUME SentOK, TypeOK, Framed, NextUp, Handle
  PROVE  LET k == Len(delivered) + 1
         IN  /\ k \in 1 .. Len(sent)
             /\ handle_pos' \in Nat /\ handle_pos' <= last_finish
             /\ base + handle_pos' = StartOf(k + 1)
             /\ delivered' = Append(delivered, sent[k]) /\ sent[k].len \in Nat
             /\ sent[k].at + sent[k].bytes <= base + last_finish
<1>1. handle_pos < last_finish
  BY DEF Handle, Deliverable, TypeOK
<1>2. handle_pos' = handle_pos + HeaderAt(handle_pos)
  BY DEF Handle
<1>3. delivered' = Append(delivered, Message(base + handle_pos, HeaderAt(handle_pos)))
  BY DEF Handle
<1>4. base \in Nat /\ handle_pos \in Nat /\ last_finish \in Nat
  BY DEF TypeOK
<1> DEFINE k == Len(delivered) + 1
<1>5. /\ k \in 1 .. Len(sent) /\ sent[k].at = base + handle_pos
      /\ HeaderAt(handle_pos) = sent[k].len /\ sent[k].bytes = sent[k].len
      /\ sent[k].len \in Nat
      /\ handle_pos + sent[k].len <= last_finish
      /\ base + handle_pos + sent[k].len = StartOf(k + 1)
      /\ Message(base + handle_pos, HeaderAt(handle_pos)) = sent[k]
  BY <1>1, Next1
<1> HIDE DEF k
<1>6. /\ handle_pos' \in Nat /\ handle_pos' <= last_finish
      /\ base + handle_pos' = StartOf(k + 1)
      /\ sent[k].at + sent[k].bytes <= base + last_finish
  BY <1>2, <1>4, <1>5
<1>7. delivered' = Append(delivered, sent[k])
  BY <1>3, <1>5
<1> QED
  BY <1>5, <1>6, <1>7 DEF k

(* When nothing is deliverable and nothing wraps, all that was framed was    *)
(* delivered.                                                               *)
LEMMA AllHandled ==
  ASSUME SentOK, TypeOK, Framed, NextUp, ~Deliverable
  PROVE  handle_pos = last_finish
<1>1. CASE Wraps
  BY <1>1 DEF Wraps, Framed, TypeOK
<1>2. CASE ~Wraps
  <2> SUFFICES ASSUME handle_pos < last_finish PROVE FALSE
    BY DEF Framed, TypeOK
  <2>1. HeaderAt(handle_pos) \in Nat /\ handle_pos + HeaderAt(handle_pos) <= last_finish
    BY Next1
  <2> QED
    BY <1>2, <2>1 DEF Deliverable, TypeOK
<1> QED
  BY <1>1, <1>2

-----------------------------------------------------------------------------
(* Types.                                                                  *)

LEMMA TypeStep ==
  ASSUME SentOK, TypeOK, Framed, NextUp, Next
  PROVE  TypeOK'
<1> USE DEF TypeOK
<1>1. CASE PeerSends
  BY <1>1, Sending DEF PeerSends, passVars, posVars
<1>2. CASE Arrive \/ PeerFin \/ PeerReset \/ Wakeup
  <2>1. UNCHANGED <<pc, passVars, posVars, sent, delivered>>
    BY <1>2 DEF Arrive, PeerFin, PeerReset, Wakeup
  <2>2. edge' \in BOOLEAN /\ fin' \in BOOLEAN /\ rst' \in BOOLEAN
    BY <1>2 DEF Arrive, PeerFin, PeerReset, Wakeup
  <2>3. wire' \in Nat /\ kernel' \in Nat
    <3>1. CASE Arrive
      <4>1. PICK n \in 1 .. wire : wire' = wire - n /\ kernel' = kernel + n
        BY <3>1 DEF Arrive
      <4> QED
        BY <4>1
    <3>2. CASE PeerFin \/ PeerReset \/ Wakeup
      BY <3>2 DEF PeerFin, PeerReset, Wakeup
    <3> QED
      BY <1>2, <3>1, <3>2
  <2> QED
    BY <2>1, <2>2, <2>3 DEF passVars, posVars
<1>3. ASSUME EnterRead, UNCHANGED <<posVars, kernel, wire, fin, rst, sent, delivered>>,
             edge' \in BOOLEAN, times' \in {0, 1}
      PROVE  TypeOK'
  BY <1>3, WindowFits DEF EnterRead, posVars
<1>4. CASE Readable
  BY <1>3, <1>4 DEF Readable
<1>5. CASE Hangup \/ RecvOverrun \/ RecvWraps \/ RecvAgain \/ RecvEnds \/ FrameNone
        \/ FramePartial \/ FrameBad
  <2>1. /\ UNCHANGED <<netVars, delivered, pass, left, got, has_closed, times>>
        /\ UNCHANGED <<recv_pos, last_finish, handle_pos, base>>
    BY <1>5 DEF Hangup, RecvOverrun, RecvWraps, RecvAgain, RecvEnds, FrameNone, FramePartial,
         FrameBad, passVars, posVars
  <2>2. pc' \in {"recv", "frame", "returned", "handle", "idle", "closed", "overrun"}
    BY <1>5 DEF Hangup, RecvOverrun, RecvWraps, RecvAgain, RecvEnds, FrameNone, FramePartial,
         FrameBad, ConnClose
  <2>3. rtn' \in {"ok", "error", "close"} /\ recv_mark' \in BOOLEAN
    BY <1>5 DEF Hangup, RecvOverrun, RecvWraps, RecvAgain, RecvEnds, FrameNone, FramePartial,
         FrameBad, passVars, posVars
  <2> QED
    BY <2>1, <2>2, <2>3 DEF netVars
<1>6. CASE Recv
  <2>1. recv_pos' \in Nat /\ kernel' \in Nat /\ left' \in Int
        /\ pc' \in {"recv", "frame"}
    BY <1>6, Receiving
  <2> QED
    BY <1>6, <2>1 DEF Recv
<1>7. CASE FrameOne
  <2>1. last_finish' \in Nat
    BY <1>7, Framing
  <2> QED
    BY <1>7, <2>1 DEF FrameOne, passVars, netVars
<1>8. CASE ReturnRepeat
  BY <1>8, WindowFits DEF ReturnRepeat, StartPass, posVars, netVars
<1>9. CASE ReturnFirst \/ ReturnSecond \/ ReturnLost
  BY <1>9 DEF ReturnFirst, ReturnSecond, ReturnLost, ConnClose, passVars, posVars, netVars
<1>10. CASE ReturnError
  <2>1. CASE times = 0
    BY <1>10, <2>1 DEF ReturnError, passVars, posVars, netVars
  <2>2. CASE times # 0
    BY <1>3, <1>10, <2>2 DEF ReturnError, netVars
  <2> QED
    BY <2>1, <2>2
<1>11. CASE Handle
  <2> DEFINE k == Len(delivered) + 1
             M == [at : Nat, len : Nat, bytes : Nat]
  <2>1. /\ k \in 1 .. Len(sent) /\ handle_pos' \in Nat
        /\ delivered' = Append(delivered, sent[k]) /\ sent[k].len \in Nat
    BY <1>11, Handling
  <2> HIDE DEF k
  <2>2. sent[k] \in M
    <3>1. sent[k] = Message(sent[k].at, sent[k].len)
      BY <2>1 DEF SentOK, Row, Shaped
    <3>2. sent[k].at \in Nat /\ sent[k].len \in Nat
      <4>1. Row(sent) /\ k \in 1 .. Len(sent)
        BY <2>1 DEF SentOK
      <4>2. sent[k].at \in Nat
        BY <4>1, OneMessage
      <4> QED
        BY <2>1, <4>2
    <3>3. Message(sent[k].at, sent[k].len) \in M
      BY <3>2, Sizes DEF Message
    <3> QED
      BY <3>1, <3>3
  <2>3. delivered \in Seq(M)
    OBVIOUS
  <2> HIDE DEF M
  <2>4. delivered' \in Seq(M)
    BY <2>1, <2>2, <2>3
  <2> QED
    BY <1>11, <2>1, <2>4 DEF Handle, M, ConnClose, passVars, netVars
<1>12. CASE HandleDone
  BY <1>12 DEF HandleDone, Wrap, ConnClose, passVars, netVars
<1>13. CASE Timeout
  BY <1>13 DEF Timeout, ConnClose, passVars, posVars, netVars
<1> QED
  BY <1>1, <1>2, <1>4, <1>5, <1>6, <1>7, <1>8, <1>9, <1>10, <1>11, <1>12, <1>13
     DEF Next, Peer, Read

(* The messages sent only change when one is added.                         *)
LEMMA SentStep ==
  ASSUME SentOK, Next
  PROVE  /\ SentOK'
         /\ ~PeerSends => sent' = sent /\ SentEnd' = SentEnd
         /\ ~PeerSends => \A k : StartOf(k)' = StartOf(k)
<1>1. CASE PeerSends
  BY <1>1, Sending
<1>2. CASE ~PeerSends
  <2>1. sent' = sent
    BY <1>2 DEF Next, Peer, Read, Arrive, PeerFin, PeerReset, Wakeup, Readable, Hangup, Recv,
          RecvOverrun, RecvWraps, RecvAgain, RecvEnds, FrameOne, FrameNone, FramePartial,
          FrameBad, ReturnRepeat,
          ReturnFirst, ReturnSecond, ReturnLost, ReturnError, Handle, HandleDone, Timeout, netVars
  <2> QED
    BY <1>2, <2>1 DEF SentOK, SentEnd, StartOf
<1> QED
  BY <1>1, <1>2

LEMMA SourcedStep ==
  ASSUME SentOK, TypeOK, Sourced, Next
  PROVE  Sourced'
<1> USE DEF Sourced
<1>0. SentEnd \in Nat
  BY Starting DEF SentOK, SentEnd, EndOf
<1>1. CASE PeerSends
  <2>1. wire = 0 /\ SentEnd' = SentEnd + wire' /\ wire' \in Nat
    BY <1>1, Sending DEF PeerSends
  <2>2. UNCHANGED <<base, recv_pos, kernel>>
    BY <1>1 DEF PeerSends, posVars
  <2>3. base \in Nat /\ recv_pos \in Nat /\ kernel \in Nat
    BY DEF TypeOK
  <2> DEFINE x == base + recv_pos + kernel
  <2>4. x \in Nat /\ x <= SentEnd
    BY <1>0, <2>1, <2>3
  <2>5. base' + recv_pos' + kernel' = x
    BY <2>2
  <2> HIDE DEF x
  <2>6. \A e, w \in Nat : x <= e => x + w <= e + w
    BY <2>4
  <2>7. x + wire' <= SentEnd + wire'
    BY <1>0, <2>1, <2>4, <2>6, Zenon
  <2> QED
    BY <2>1, <2>5, <2>7
<1>2. CASE Arrive
  <2>1. PICK n \in 1 .. wire : wire' = wire - n /\ kernel' = kernel + n
    BY <1>2 DEF Arrive
  <2>2. UNCHANGED <<base, recv_pos, SentEnd>>
    BY <1>2 DEF Arrive, posVars, SentEnd
  <2>3. base \in Nat /\ recv_pos \in Nat /\ kernel \in Nat /\ wire \in Nat
    BY DEF TypeOK
  <2> QED
    BY <1>0, <2>1, <2>2, <2>3
<1>3. CASE PeerReset
  BY <1>0, <1>3 DEF PeerReset, TypeOK, posVars, SentEnd
<1>4. CASE Recv
  <2>1. UNCHANGED <<base, wire, SentEnd>>
    BY <1>4 DEF Recv, SentEnd
  <2> QED
    BY <1>0, <1>4, <2>1, Receiving DEF TypeOK
<1>5. CASE HandleDone
  <2>1. UNCHANGED <<kernel, wire, SentEnd>>
    BY <1>5 DEF HandleDone, SentEnd, netVars
  <2>2. base' + recv_pos' = base + recv_pos
    BY <1>5 DEF HandleDone, Wrap, TypeOK
  <2> QED
    BY <1>0, <2>1, <2>2 DEF TypeOK
<1>6. CASE UNCHANGED <<base, recv_pos, kernel, wire, sent>>
  BY <1>6 DEF SentEnd
<1>7. \/ PeerSends \/ Arrive \/ PeerReset \/ Recv \/ HandleDone
      \/ UNCHANGED <<base, recv_pos, kernel, wire, sent>>
  BY DEF Next, Peer, Read, PeerFin, Wakeup, Readable, Hangup,
         RecvOverrun, RecvWraps, RecvAgain, RecvEnds, FrameOne, FrameNone, FramePartial,
         FrameBad, ReturnRepeat,
         ReturnFirst, ReturnSecond, ReturnLost, ReturnError, Handle, Timeout, netVars, posVars
<1> QED
  BY <1>1, <1>2, <1>3, <1>4, <1>5, <1>6, <1>7

-----------------------------------------------------------------------------
(* The three positions.                                                    *)

Positions == <<recv_pos, last_finish, handle_pos, base>>

(* The actions that leave the positions alone, the peer's next message aside. *)
Still ==
  \/ Arrive \/ PeerFin \/ PeerReset \/ Wakeup
  \/ Readable \/ Hangup \/ RecvOverrun \/ RecvWraps \/ RecvAgain \/ RecvEnds
  \/ FrameNone \/ FramePartial \/ FrameBad
  \/ ReturnRepeat \/ ReturnFirst \/ ReturnSecond \/ ReturnLost \/ ReturnError \/ Timeout

LEMMA StillKeeps ==
  ASSUME Still
  PROVE  UNCHANGED <<Positions, sent, delivered>>
  BY DEF Still, Positions, Arrive, PeerFin, PeerReset, Wakeup, Readable, Hangup,
         RecvOverrun, RecvWraps, RecvAgain, RecvEnds, FrameNone, FramePartial, FrameBad,
         ReturnRepeat,
         ReturnFirst, ReturnSecond, ReturnLost, ReturnError, Timeout, netVars, posVars

LEMMA Moves == Next <=> Still \/ PeerSends \/ Recv \/ FrameOne \/ Handle \/ HandleDone
  BY DEF Next, Peer, Read, Still

LEMMA FramedStep ==
  ASSUME SentOK, TypeOK, Sourced, Framed, NextUp, Windows, Next
  PROVE  Framed'
<1>0. /\ base \in Nat /\ recv_pos \in Nat /\ last_finish \in Nat /\ handle_pos \in Nat
      /\ handle_pos <= last_finish /\ last_finish <= recv_pos /\ recv_pos <= Block
  BY DEF TypeOK, Framed
<1>00. SentEnd \in Nat /\ SentEnd = EndOf(sent) /\ Len(sent) \in Nat
  BY Starting, Lengths DEF SentOK, SentEnd, EndOf
<1>1. CASE Still
  BY <1>1, StillKeeps DEF Framed, Positions, StartOf
<1>2. CASE PeerSends
  <2>1. UNCHANGED Positions
    BY <1>2 DEF PeerSends, posVars, Positions
  <2>2. PICK k \in 1 .. Len(sent) + 1 : base + last_finish = StartOf(k)
    BY DEF Framed
  <2>3. /\ Len(sent') = Len(sent) + 1 /\ StartOf(k)' = StartOf(k)
        /\ \A i \in 1 .. Len(sent) : sent'[i] = sent[i]
        /\ sent'[Len(sent) + 1].at = SentEnd
    BY <1>2, Sending
  <2>4. k \in 1 .. Len(sent') + 1
    BY <1>00, <2>3
  <2>5. \E i \in 1 .. Len(sent') + 1 : base' + last_finish' = StartOf(i)'
    BY <2>1, <2>2, <2>3, <2>4 DEF Positions
  <2>6. base + last_finish <= SentEnd
    BY <1>00, <2>2, Starting DEF SentOK, StartOf
  <2>7. ASSUME NEW i \in 1 .. Len(sent'), sent'[i].at < base' + last_finish'
        PROVE  sent'[i].len > Hdr
    <3>1. i # Len(sent) + 1
      BY <1>0, <1>00, <2>1, <2>3, <2>6, <2>7 DEF Positions
    <3>2. i \in 1 .. Len(sent)
      BY <1>00, <2>3, <3>1
    <3> QED
      BY <2>1, <2>3, <2>7, <3>2 DEF Framed, Positions
  <2>8. handle_pos' <= last_finish' /\ last_finish' <= recv_pos' /\ recv_pos' <= Block
    BY <1>0, <2>1 DEF Positions
  <2> QED
    BY <2>5, <2>7, <2>8 DEF Framed, StartOf
<1>3. CASE Recv
  <2>1. UNCHANGED <<base, last_finish, handle_pos, sent>>
    BY <1>3 DEF Recv
  <2>2. PICK n \in Nat : recv_pos' = recv_pos + n /\ recv_pos' <= Block
    BY <1>3, Receiving
  <2>3. last_finish <= recv_pos'
    BY <1>0, <2>2
  <2> QED
    BY <1>0, <2>1, <2>2, <2>3 DEF Framed, StartOf
<1>4. CASE FrameOne
  <2>1. UNCHANGED <<base, recv_pos, handle_pos, sent>>
    BY <1>4 DEF FrameOne, netVars
  <2>2. PICK k \in 1 .. Len(sent) :
          /\ sent[k].at = base + last_finish /\ sent[k].bytes = sent[k].len
          /\ sent[k].len > Hdr /\ sent[k].len \in Nat
          /\ last_finish' = last_finish + sent[k].len
          /\ last_finish + sent[k].len <= recv_pos
          /\ base + last_finish' = StartOf(k + 1)
    BY <1>4, Framing
  <2>3. ASSUME NEW i \in 1 .. Len(sent), sent[i].at < base + last_finish'
        PROVE  sent[i].len > Hdr
    <3>1. CASE sent[i].at < base + last_finish
      BY <3>1 DEF Framed
    <3>2. CASE sent[i].at = base + last_finish
      BY <2>2, <3>2, Apart DEF SentOK
    <3>3. CASE sent[i].at > base + last_finish
      <4>1. sent[k].at + sent[k].bytes <= sent[i].at
        BY <2>2, <3>3, Apart DEF SentOK
      <4>2. sent[i].at \in Nat
        BY OneMessage DEF SentOK
      <4> QED
        BY <1>0, <2>2, <2>3, <4>1, <4>2
    <3>4. sent[i].at \in Nat
      BY OneMessage DEF SentOK
    <3> QED
      BY <1>0, <3>1, <3>2, <3>3, <3>4
  <2>4. k + 1 \in 1 .. Len(sent) + 1
    BY <1>00
  <2>5. handle_pos <= last_finish' /\ last_finish' <= recv_pos
    BY <1>0, <2>2
  <2>6. \E i \in 1 .. Len(sent) + 1 : base + last_finish' = StartOf(i)
    BY <2>2, <2>4
  <2> QED
    BY <1>0, <2>1, <2>3, <2>5, <2>6 DEF Framed, StartOf
<1>5. CASE Handle
  BY <1>0, <1>5, Handling DEF Handle, Framed, StartOf, netVars
<1>6. CASE HandleDone
  <2>1. UNCHANGED sent
    BY <1>6 DEF HandleDone, netVars
  <2>2. CASE UNCHANGED Positions
    BY <2>1, <2>2 DEF Framed, Positions, StartOf
  <2>3. CASE Wraps /\ Wrap
    <3>1. handle_pos = recv_pos /\ last_finish = recv_pos
      BY <1>0, <2>3 DEF Wraps
    <3>2. base' + last_finish' = base + last_finish
      BY <1>0, <2>3, <3>1 DEF Wrap
    <3>3. handle_pos' <= last_finish' /\ last_finish' <= recv_pos' /\ recv_pos' <= Block
      BY <2>3, Sizes DEF Wrap
    <3> QED
      BY <2>1, <3>2, <3>3 DEF Framed, StartOf
  <2> QED
    BY <1>6, <2>2, <2>3 DEF HandleDone, Positions
<1> QED
  BY <1>1, <1>2, <1>3, <1>4, <1>5, <1>6, Moves

LEMMA NextUpStep ==
  ASSUME SentOK, TypeOK, Framed, NextUp, Next
  PROVE  NextUp'
<1>0. Len(delivered) \in Nat /\ base \in Nat /\ recv_pos \in Nat /\ Len(sent) \in Nat
  BY Lengths DEF TypeOK, SentOK
<1>1. CASE Still
  BY <1>1, StillKeeps DEF NextUp, Positions, StartOf
<1>2. CASE PeerSends
  <2>1. UNCHANGED <<Positions, delivered>>
    BY <1>2 DEF PeerSends, posVars, Positions
  <2>2. Len(delivered) + 1 \in 1 .. Len(sent) + 1
    BY <1>0 DEF NextUp
  <2>3. Len(sent') = Len(sent) + 1 /\ StartOf(Len(delivered) + 1)' = StartIn(sent',
        Len(delivered) + 1)
    BY <1>2, <2>1, Sending DEF StartOf
  <2>4. StartIn(sent', Len(delivered) + 1) = StartOf(Len(delivered) + 1)
    BY <1>2, <2>2, Sending DEF StartOf
  <2> QED
    BY <1>0, <2>1, <2>3, <2>4 DEF NextUp, Positions
<1>3. CASE Recv \/ FrameOne
  BY <1>3 DEF Recv, FrameOne, netVars, NextUp, StartOf
<1>4. CASE Handle
  <2> DEFINE k == Len(delivered) + 1
  <2>1. /\ k \in 1 .. Len(sent) /\ base + handle_pos' = StartOf(k + 1)
        /\ delivered' = Append(delivered, sent[k])
    BY <1>4, Handling
  <2>2. UNCHANGED <<base, sent>>
    BY <1>4 DEF Handle, netVars
  <2>3. Len(delivered') = k
    BY <2>1 DEF TypeOK
  <2> HIDE DEF k
  <2>4. k <= Len(sent)
    BY <1>0, <2>1
  <2> QED
    BY <2>1, <2>2, <2>3, <2>4 DEF NextUp, StartOf
<1>5. CASE HandleDone
  <2>1. UNCHANGED <<sent, delivered>>
    BY <1>5 DEF HandleDone, netVars
  <2>2. base' + handle_pos' = base + handle_pos
    BY <1>0, <1>5 DEF HandleDone, Wraps, Wrap
  <2> QED
    BY <2>1, <2>2 DEF NextUp, StartOf
<1> QED
  BY <1>1, <1>2, <1>3, <1>4, <1>5, Moves

-----------------------------------------------------------------------------
(* The windows.                                                            *)

(* A read begins: with room in front, or for the message under way.         *)
LEMMA Entering ==
  ASSUME SentOK, TypeOK, last_finish <= Front \/ ~recv_mark, last_finish <= recv_pos,
         recv_pos <= Block, left' = Window, HasRoom \/ recv_mark
  PROVE  left' \in Int /\ last_finish <= Front /\ Within(recv_pos + left')
<1>1. Window \in Int /\ Within(recv_pos + Window) /\ (HasRoom => recv_pos < Front)
  BY WindowFits
<1>2. last_finish <= Front
  BY <1>1, Sizes DEF TypeOK
<1> QED
  BY <1>1, <1>2

LEMMA WithinLess ==
  ASSUME SentOK, TypeOK, NEW a \in Int, NEW b \in Int, a <= b, Within(b)
  PROVE  Within(a)
<1> DEFINE h == HeaderAt(last_finish)
<1>1. h \in Int /\ last_finish \in Nat /\ Front \in Nat /\ Hdr \in Nat
  BY Headered, Sizes DEF TypeOK
<1>2. b <= Front \/ b <= last_finish + Hdr \/ b <= last_finish + h \/ Refused
  BY DEF Within
<1> HIDE DEF h
<1>3. a <= Front \/ a <= last_finish + Hdr \/ a <= last_finish + h \/ Refused
  BY <1>1, <1>2
<1> QED
  BY <1>3 DEF Within, h

(* The peer's next message changes no length word that was found.           *)
LEMMA HeaderKept ==
  ASSUME SentOK, PeerSends, HeaderAt(last_finish) # 0
  PROVE  HeaderAt(last_finish)' = HeaderAt(last_finish)
<1>1. SentOK'
  BY Sending
<1>2. HeaderAt(last_finish)' = WordAt(sent', base + last_finish)
  BY DEF HeaderAt, WordAt, PeerSends, posVars
<1>3. PICK k \in 1 .. Len(sent) : sent[k].at = base + last_finish
  BY Headered
<1>4. HeaderAt(last_finish) = sent[k].len
  BY <1>3, Headered
<1>5. sent'[k] = sent[k] /\ k \in 1 .. Len(sent')
  BY Sending, Lengths DEF SentOK
<1>6. WordAt(sent', base + last_finish) = sent'[k].len
  BY <1>1, <1>3, <1>5, Word DEF SentOK
<1> QED
  BY <1>2, <1>4, <1>5, <1>6

LEMMA WindowsStep ==
  ASSUME SentOK, TypeOK, Framed, NextUp, Windows, Marked, Next
  PROVE  Windows'
<1>0. /\ recv_pos \in Nat /\ last_finish \in Nat /\ left \in Int /\ last_finish <= recv_pos
      /\ HeaderAt(last_finish) \in Int /\ Front \in Nat /\ recv_pos <= Block
  BY Sizes, Headered DEF TypeOK, Framed
<1>1. ASSUME UNCHANGED <<recv_pos, last_finish, base, sent>>, pc' \notin {"recv", "frame"}
      PROVE  Windows'
  BY <1>1 DEF Windows
<1>2. ASSUME UNCHANGED <<recv_pos, last_finish, base, sent, pc, left, got>>
      PROVE  Windows'
  BY <1>2 DEF Windows, Within, Refused, HeaderAt
<1>3. ASSUME UNCHANGED <<recv_pos, last_finish, base, sent>>, pc' = "recv", left' = Window,
             HasRoom \/ recv_mark, Settled, got' = FALSE
      PROVE  Windows'
  <2>1. last_finish <= Front \/ ~recv_mark
    BY <1>3 DEF Windows, Marked
  <2>2. last_finish <= Front /\ Within(recv_pos + left')
    BY <1>0, <1>3, <2>1, Entering
  <2>3. Within(recv_pos + left)'
    BY <1>3, <2>2 DEF Within, Refused, HeaderAt
  <2> QED
    BY <1>3, <2>2, <2>3 DEF Windows
<1>4. CASE PeerSends
  <2>1. UNCHANGED <<pc, left, got, recv_pos, last_finish, base>>
    BY <1>4 DEF PeerSends, passVars, posVars
  <2>2. HeaderAt(last_finish) # 0 => HeaderAt(last_finish)' = HeaderAt(last_finish)
    BY <1>4, HeaderKept
  <2>3. ASSUME NEW e \in Int, Within(e) PROVE Within(e)'
    <3>1. UNCHANGED <<last_finish, Front, Hdr>>
      BY <2>1
    <3>2. CASE HeaderAt(last_finish) = 0
      <4>1. e <= Front \/ e <= last_finish + Hdr
        BY <1>0, <2>3, <3>2, Sizes DEF Within, Refused
      <4> QED
        BY <3>1, <4>1 DEF Within
    <3>3. CASE HeaderAt(last_finish) # 0
      BY <2>2, <2>3, <3>1, <3>3 DEF Within, Refused
    <3> QED
      BY <3>2, <3>3
  <2>4. recv_pos + left \in Int /\ recv_pos \in Int
    BY <1>0
  <2>5. /\ pc = "recv" => Within(recv_pos + left)'
        /\ pc = "frame" => Within(recv_pos)'
    <3>1. CASE pc = "recv"
      <4>1. Within(recv_pos + left)
        BY <3>1 DEF Windows
      <4> DEFINE e == recv_pos + left
      <4>2. e' = e
        BY <2>1
      <4> QED
        BY <2>1, <2>3, <2>4, <3>1, <4>1 DEF Within, Refused
    <3>2. CASE pc = "frame"
      <4>1. Within(recv_pos)
        BY <3>2 DEF Windows
      <4> QED
        BY <2>1, <2>3, <2>4, <3>2, <4>1 DEF Within, Refused
    <3> QED
      BY <3>1, <3>2
  <2> QED
    BY <2>1, <2>5 DEF Windows
<1>5. CASE Arrive \/ PeerFin \/ PeerReset \/ Wakeup
  BY <1>2, <1>5 DEF Arrive, PeerFin, PeerReset, Wakeup, posVars, passVars
<1>6. CASE Readable
  <2>1. Settled /\ UNCHANGED <<recv_pos, last_finish, base, sent>>
    BY <1>6 DEF Readable, Settled, posVars
  <2> QED
    BY <1>1, <1>3, <1>6, <2>1 DEF Readable, EnterRead
<1>7. CASE Hangup \/ Timeout \/ RecvOverrun \/ FrameNone \/ FramePartial \/ FrameBad
           \/ ReturnFirst \/ ReturnSecond \/ ReturnLost
  BY <1>1, <1>7 DEF Hangup, Timeout, RecvOverrun, FrameNone, FramePartial, FrameBad, ReturnFirst,
       ReturnSecond, ReturnLost, ConnClose, posVars, netVars
<1>8. CASE RecvAgain
  <2>1. UNCHANGED <<recv_pos, last_finish, base, sent, left, got>> /\ pc = "recv" /\ left > 0
    BY <1>8 DEF RecvAgain, posVars, netVars, passVars
  <2>2. Within(recv_pos)
    <3>1. recv_pos + left \in Int /\ recv_pos \in Int /\ recv_pos <= recv_pos + left
      BY <1>0, <2>1
    <3> QED
      BY <2>1, <3>1, WithinLess DEF Windows
  <2>3. Within(recv_pos)'
    BY <2>1, <2>2 DEF Within, Refused, HeaderAt
  <2> QED
    BY <1>8, <2>1, <2>3 DEF RecvAgain, Windows
<1>9. CASE RecvEnds \/ RecvWraps
  <2>1. /\ UNCHANGED <<recv_pos, last_finish, base, sent, left, got>> /\ pc = "recv"
        /\ pc' = IF got THEN "frame" ELSE "returned"
    BY <1>9 DEF RecvEnds, RecvWraps, posVars, netVars, passVars
  <2>2. ASSUME got PROVE Within(recv_pos)
    <3>1. recv_pos + left \in Int /\ recv_pos \in Int /\ recv_pos <= recv_pos + left
      BY <1>0, <2>1, <2>2 DEF Windows
    <3> QED
      BY <2>1, <3>1, WithinLess DEF Windows
  <2>3. got => Within(recv_pos)'
    BY <2>1, <2>2 DEF Within, Refused, HeaderAt
  <2> QED
    BY <2>1, <2>3 DEF Windows
<1>10. CASE Recv
  <2>1. UNCHANGED <<last_finish, base, sent>> /\ pc = "recv"
    BY <1>10 DEF Recv
  <2>2. /\ recv_pos' \in Nat /\ recv_pos' + left' = recv_pos + left
        /\ left' \in Int /\ left' >= 0
        /\ pc' = "frame" \/ (pc' = "recv" /\ left' > 0)
    BY <1>0, <1>10, Receiving
  <2>3. last_finish <= Front /\ Within(recv_pos + left)
    BY <2>1 DEF Windows
  <2>4. Within(recv_pos' + left') /\ Within(recv_pos')
    <3>1. Within(recv_pos' + left')
      BY <2>2, <2>3
    <3>2. \A a \in Nat, b \in Int : b >= 0 => a + b \in Int /\ a \in Int /\ a <= a + b
      OBVIOUS
    <3>3. recv_pos' + left' \in Int /\ recv_pos' \in Int /\ recv_pos' <= recv_pos' + left'
      BY <2>2, <3>2, Zenon
    <3> QED
      BY <3>1, <3>3, WithinLess
  <2>5. Within(recv_pos + left)' /\ Within(recv_pos)'
    BY <2>1, <2>4 DEF Within, Refused, HeaderAt
  <2> QED
    BY <2>1, <2>2, <2>3, <2>5 DEF Windows
<1>11. CASE FrameOne
  <2>1. UNCHANGED <<base, recv_pos, sent, pc>> /\ pc = "frame"
    BY <1>11 DEF FrameOne, netVars
  <2>2. PICK k \in 1 .. Len(sent) :
          /\ HeaderAt(last_finish) = sent[k].len
          /\ sent[k].len > Hdr /\ sent[k].len \in Nat
          /\ last_finish' = last_finish + sent[k].len
          /\ last_finish + sent[k].len <= recv_pos
    BY <1>11, Framing
  <2>3. Within(recv_pos)
    BY <2>1 DEF Windows
  <2>4. recv_pos <= Front \/ recv_pos = last_finish'
    <3>1. ~Refused
      BY <1>0, <1>11, Sizes DEF FrameOne, ValidHeader, Refused
    <3> QED
      BY <1>0, <2>2, <2>3, <3>1, Sizes DEF Within
  <2>5. last_finish' \in Nat /\ last_finish' <= recv_pos
    BY <1>0, <2>2
  <2>6. last_finish' <= Front \/ last_finish' = recv_pos
    BY <1>0, <2>4, <2>5
  <2>7. recv_pos <= Front \/ recv_pos <= last_finish' + Hdr
    <3>1. CASE recv_pos = last_finish'
      <4>1. \A e \in Nat : e <= e + Hdr
        BY Sizes
      <4> QED
        BY <2>5, <3>1, <4>1, Zenon
    <3> QED
      BY <2>4, <3>1
  <2>8. Within(recv_pos)'
    BY <2>1, <2>7 DEF Within
  <2> QED
    BY <2>1, <2>6, <2>8 DEF Windows
<1>12. CASE ReturnRepeat
  <2>1. Settled /\ UNCHANGED <<recv_pos, last_finish, base, sent>>
    BY <1>12 DEF ReturnRepeat, Settled, posVars, netVars
  <2> QED
    BY <1>3, <1>12, <2>1 DEF ReturnRepeat, StartPass
<1>13. CASE ReturnError
  <2>1. Settled /\ UNCHANGED <<recv_pos, last_finish, base, sent>>
    BY <1>13 DEF ReturnError, Settled, posVars, netVars
  <2>2. CASE times = 0
    BY <1>1, <1>13, <2>1, <2>2 DEF ReturnError
  <2>3. CASE times # 0
    BY <1>1, <1>3, <1>13, <2>1, <2>3 DEF ReturnError, EnterRead
  <2> QED
    BY <2>2, <2>3
<1>14. CASE Handle
  BY <1>1, <1>14 DEF Handle, ConnClose, netVars
<1>15. CASE HandleDone
  <2>1. pc' \notin {"recv", "frame"} /\ UNCHANGED sent
    BY <1>15 DEF HandleDone, ConnClose, netVars
  <2>2. CASE UNCHANGED <<recv_pos, last_finish, base>>
    BY <1>1, <2>1, <2>2
  <2>3. CASE recv_pos' = 0 /\ last_finish' = 0
    BY <2>1, <2>3 DEF Windows
  <2> QED
    BY <1>15, <2>2, <2>3 DEF HandleDone, Wrap
<1> QED
  BY <1>4, <1>5, <1>6, <1>7, <1>8, <1>9, <1>10, <1>11, <1>12, <1>13, <1>14, <1>15
     DEF Next, Peer, Read

(* recv writes beyond the buffer only in the window of a refused message.   *)
LEMMA OverranStep ==
  ASSUME SentOK, TypeOK, Windows, Overran, Next
  PROVE  Overran'
<1>1. CASE PeerSends
  <2>1. pc' = pc
    BY <1>1 DEF PeerSends
  <2>2. Refused => HeaderAt(last_finish) # 0
    BY Sizes DEF Refused
  <2>3. ASSUME Refused PROVE Refused'
    <3>1. HeaderAt(last_finish)' = HeaderAt(last_finish)
      BY <1>1, <2>2, <2>3, HeaderKept
    <3> QED
      BY <2>3, <3>1 DEF Refused
  <2> QED
    BY <2>1, <2>3 DEF Overran
<1>2. CASE RecvOverrun
  <2>1. pc = "recv" /\ left > 0 /\ recv_pos + Least(kernel, left) > Block
    BY <1>2 DEF RecvOverrun
  <2>2. last_finish <= Front /\ Within(recv_pos + left) /\ recv_pos + left \in Int
    BY <2>1 DEF Windows, TypeOK
  <2>3. recv_pos + left > Block
    BY <2>1, Sizes DEF Least, TypeOK
  <2>4. Refused
    BY <2>2, <2>3, WithinBlock, Sizes
  <2>5. UNCHANGED <<sent, base, last_finish>>
    BY <1>2 DEF RecvOverrun, posVars, netVars
  <2> QED
    BY <2>4, <2>5 DEF Overran, Refused, HeaderAt
<1>3. CASE Arrive \/ PeerFin \/ PeerReset \/ Wakeup
  BY <1>3 DEF Arrive, PeerFin, PeerReset, Wakeup, posVars, Overran, Refused, HeaderAt
<1>4. CASE Recv
  BY <1>4, Receiving DEF Overran
<1>5. CASE Timeout \/ (Read /\ ~RecvOverrun /\ ~Recv)
  <2>1. pc' # "overrun"
    BY <1>5 DEF Timeout, Read, Readable, EnterRead, Hangup, RecvWraps, RecvAgain, RecvEnds,
         FrameOne, FrameNone, FramePartial, FrameBad, ReturnRepeat, ReturnFirst, ReturnSecond,
         ReturnLost, ReturnError, Handle, HandleDone, ConnClose
  <2> QED
    BY <2>1 DEF Overran
<1> QED
  BY <1>1, <1>2, <1>3, <1>4, <1>5 DEF Next, Peer

-----------------------------------------------------------------------------
(* The mark and the ways out of a read.                                    *)

LEMMA MarkedStep ==
  ASSUME SentOK, TypeOK, Framed, NextUp, Marked, Next
  PROVE  Marked'
<1>0. recv_pos \in Nat /\ last_finish \in Nat
  BY DEF TypeOK
<1>1. ASSUME UNCHANGED <<recv_pos, last_finish, recv_mark>>, Settled' => Settled
      PROVE  Marked'
  BY <1>1 DEF Marked
<1>2. ASSUME pc' \in {"recv", "frame", "closed", "overrun"}
      PROVE  Marked'
  BY <1>2 DEF Marked, Settled
<1>3. CASE PeerSends \/ Arrive \/ PeerFin \/ PeerReset \/ Wakeup
  <2>1. UNCHANGED <<pc, passVars, posVars>>
    BY <1>3 DEF PeerSends, Arrive, PeerFin, PeerReset, Wakeup
  <2> QED
    BY <1>1, <2>1 DEF passVars, posVars, Settled
<1>4. ASSUME EnterRead, UNCHANGED posVars, Settled
      PROVE  Marked'
  <2>1. UNCHANGED <<recv_pos, last_finish, recv_mark>>
    BY <1>4 DEF posVars
  <2> QED
    BY <1>1, <1>4, <2>1
<1>5. CASE Readable
  BY <1>4, <1>5 DEF Readable, Settled
<1>6. CASE ReturnError
  <2>1. Settled
    BY <1>6 DEF ReturnError, Settled
  <2>2. UNCHANGED posVars
    BY <1>6 DEF ReturnError
  <2>3. CASE times = 0
    BY <1>1, <2>1, <2>2 DEF posVars
  <2>4. CASE times # 0
    BY <1>4, <1>6, <2>1, <2>2, <2>4 DEF ReturnError
  <2> QED
    BY <2>3, <2>4
<1>7. CASE Hangup \/ Timeout \/ Recv \/ RecvOverrun \/ RecvAgain \/ FrameOne \/ ReturnRepeat
        \/ ReturnLost
  <2>1. pc' \in {"recv", "frame", "closed", "overrun"}
    <3>1. CASE Recv
      BY <3>1, Receiving
    <3>2. CASE Hangup \/ Timeout \/ RecvOverrun \/ RecvAgain \/ FrameOne \/ ReturnRepeat
            \/ ReturnLost
      BY <3>2 DEF Hangup, Timeout, RecvOverrun, RecvAgain, FrameOne, ReturnRepeat, ReturnLost,
           ConnClose
    <3> QED
      BY <1>7, <3>1, <3>2
  <2> QED
    BY <1>2, <2>1
<1>8. CASE RecvEnds \/ RecvWraps
  <2>1. pc' = "frame" \/ (pc' = "returned" /\ rtn' = "close")
    BY <1>8 DEF RecvEnds, RecvWraps, TypeOK
  <2> QED
    BY <2>1 DEF Marked, Settled
<1>9. CASE FrameNone
  BY <1>9 DEF FrameNone, Marked
<1>10. CASE FramePartial
  BY <1>10 DEF FramePartial, Marked
<1>11. CASE FrameBad
  BY <1>11 DEF FrameBad, Marked, Settled
<1>12. CASE ReturnFirst
  <2>1. UNCHANGED <<recv_pos, last_finish, recv_mark>>
    BY <1>12 DEF ReturnFirst, posVars
  <2>2. Settled' => Settled
    BY <1>12 DEF ReturnFirst, Settled
  <2> QED
    BY <1>1, <2>1, <2>2
<1>13. CASE ReturnSecond
  <2>1. UNCHANGED <<recv_pos, last_finish, recv_mark>> /\ Settled
    BY <1>13 DEF ReturnSecond, posVars, Settled
  <2> QED
    BY <1>1, <2>1
<1>14. CASE Handle
  <2>1. UNCHANGED <<recv_pos, last_finish, recv_mark>>
    BY <1>14 DEF Handle
  <2>2. Settled' => Settled
    BY <1>14 DEF Handle, Settled, passVars, ConnClose
  <2> QED
    BY <1>1, <2>1, <2>2
<1>15. CASE HandleDone
  <2>1. Settled' => Settled
    BY <1>15 DEF HandleDone, Settled, passVars, ConnClose
  <2>2. recv_mark' = recv_mark
    BY <1>15 DEF HandleDone
  <2>3. CASE UNCHANGED <<recv_pos, last_finish>>
    BY <1>1, <2>1, <2>2, <2>3
  <2>4. CASE Wraps /\ Wrap
    <3>1. ~recv_mark' /\ recv_pos' = last_finish'
      BY <2>2, <2>4 DEF Wraps, Wrap
    <3> QED
      BY <3>1 DEF Marked
  <2> QED
    BY <1>15, <2>3, <2>4 DEF HandleDone
<1> QED
  BY <1>3, <1>5, <1>6, <1>7, <1>8, <1>9, <1>10, <1>11, <1>12, <1>13, <1>14, <1>15
     DEF Next, Peer, Read

LEMMA ErrorsStep ==
  ASSUME SentOK, TypeOK, Windows, Errors, Next
  PROVE  Errors'
<1>1. ASSUME UNCHANGED <<pc, passVars>>, rst => rst' /\ kernel' = kernel
      PROVE  Errors'
  BY <1>1 DEF Errors, passVars
<1>2. ASSUME UNCHANGED <<rst, kernel, rtn, times, pass>>,
             pc' \in {"idle", "handle", "closed", "overrun"}
      PROVE  Errors'
  BY <1>2 DEF Errors
<1>3. CASE PeerSends \/ Arrive \/ PeerFin \/ PeerReset \/ Wakeup
  <2>1. UNCHANGED <<pc, passVars>>
    BY <1>3 DEF PeerSends, Arrive, PeerFin, PeerReset, Wakeup
  <2>2. rst => rst' /\ kernel' = kernel
    BY <1>3 DEF PeerSends, Arrive, PeerFin, PeerReset, Wakeup
  <2> QED
    BY <1>1, <2>1, <2>2
<1>4. CASE Readable
  <2>1. times' = 1 /\ rtn' = "ok"
    BY <1>4 DEF Readable, EnterRead
  <2> QED
    BY <2>1 DEF Errors
<1>5. CASE Hangup \/ Timeout \/ RecvOverrun \/ ReturnFirst \/ ReturnSecond \/ ReturnLost
        \/ Handle \/ HandleDone
  <2>1. UNCHANGED <<rst, kernel, rtn, times, pass>>
    BY <1>5 DEF Hangup, Timeout, RecvOverrun, ReturnFirst, ReturnSecond, ReturnLost, Handle,
         HandleDone,
                passVars, netVars
  <2>2. pc' \in {"idle", "handle", "closed", "overrun"}
    BY <1>5 DEF Hangup, Timeout, RecvOverrun, ReturnFirst, ReturnSecond, ReturnLost, Handle,
         HandleDone, ConnClose
  <2> QED
    BY <1>2, <2>1, <2>2
<1>6. CASE Recv
  <2>1. kernel # 0 /\ UNCHANGED <<rtn, times, rst>>
    BY <1>6 DEF Recv, TypeOK
  <2> QED
    BY <2>1 DEF Errors
<1>7. CASE RecvAgain
  <2>1. ~rst /\ UNCHANGED <<rtn, times>>
    BY <1>7 DEF RecvAgain, passVars
  <2> QED
    BY <2>1 DEF Errors
<1>8. CASE RecvEnds
  <2>1. /\ pc = "recv" /\ UNCHANGED <<times, pass, got, rst, kernel>>
        /\ pc' = IF got THEN "frame" ELSE "returned"
        /\ rtn' = IF got /\ rst THEN "error" ELSE "close"
        /\ left <= 0 \/ (kernel = 0 /\ (fin \/ rst))
    BY <1>8 DEF RecvEnds, posVars, netVars
  <2>2. got => kernel = 0
    BY <2>1 DEF Windows, TypeOK
  <2> QED
    BY <2>1, <2>2 DEF Errors
<1>9. CASE RecvWraps
  <2>1. /\ pc = "recv" /\ UNCHANGED <<times, pass, got, rst, kernel>>
        /\ \/ got /\ pc' = "frame" /\ rtn' = rtn
           \/ ~got /\ pc' = "returned" /\ rtn' = "close"
    BY <1>9 DEF RecvWraps, posVars, netVars
  <2> QED
    BY <2>1 DEF Errors
<1>10. CASE FrameOne \/ FrameNone \/ FramePartial
  <2>1. pc = "frame" /\ UNCHANGED <<rtn, times, pass, got, rst, kernel>>
    BY <1>10 DEF FrameOne, FrameNone, FramePartial, passVars, netVars
  <2> QED
    BY <2>1 DEF Errors
<1>11. CASE FrameBad
  <2>1. pc = "frame" /\ rtn' = "close" /\ UNCHANGED <<times, rst, kernel>>
    BY <1>11 DEF FrameBad, netVars
  <2> QED
    BY <2>1 DEF Errors
<1>12. CASE ReturnRepeat
  <2>1. pc = "returned" /\ rtn = "ok" /\ rtn' = "ok" /\ UNCHANGED times
    BY <1>12 DEF ReturnRepeat, StartPass
  <2> QED
    BY <2>1 DEF Errors
<1>13. CASE ReturnError
  <2>1. rtn = "error" /\ pass = 2 /\ UNCHANGED <<rst, kernel>> /\ rst /\ kernel = 0 /\ times # 0
    BY <1>13 DEF ReturnError, netVars, Errors
  <2>2. times' = 0 /\ EnterRead
    BY <1>13, <2>1 DEF ReturnError
  <2>3. pc' \in {"recv", "handle"} /\ pass' = 1 /\ got' = FALSE /\ rtn' = "ok"
    BY <2>2 DEF EnterRead
  <2> QED
    BY <2>1, <2>3 DEF Errors
<1> QED
  BY <1>3, <1>4, <1>5, <1>6, <1>7, <1>8, <1>9, <1>10, <1>11, <1>12, <1>13 DEF Next, Peer, Read

LEMMA ReachStep ==
  ASSUME SentOK, TypeOK, Reach, Next
  PROVE  Reach'
<1>0. recv_pos \in Nat /\ left \in Int /\ Front \in Nat /\ (HasRoom <=> recv_pos < Front)
  BY Sizes DEF TypeOK, HasRoom
<1>1. CASE pc' # "recv"
  BY <1>1 DEF Reach
<1>2. CASE UNCHANGED <<pc, recv_pos, left>>
  BY <1>2 DEF Reach, HasRoom
<1>3. ASSUME UNCHANGED recv_pos, left' = Window
      PROVE  Reach'
  <2>1. CASE HasRoom
    BY <1>3, <2>1, WindowFits DEF Reach
  <2>2. CASE ~HasRoom
    BY <1>3, <2>2 DEF Reach, HasRoom
  <2> QED
    BY <2>1, <2>2
<1>4. CASE Recv
  <2>1. recv_pos' \in Nat /\ recv_pos < recv_pos' /\ recv_pos' + left' = recv_pos + left
    BY <1>4, <1>0, Receiving
  <2>2. \A a, b \in Nat : a < b /\ ReadBuf - b > MinItf => ReadBuf - a > MinItf
    BY Sizes
  <2>3. ReadBuf - recv_pos' > MinItf => ReadBuf - recv_pos > MinItf
    BY <1>0, <2>1, <2>2, Zenon
  <2> QED
    BY <1>4, <2>1, <2>3 DEF Reach, Recv, HasRoom
<1>5. CASE PeerSends \/ Arrive \/ PeerFin \/ PeerReset \/ Wakeup
  BY <1>2, <1>5 DEF PeerSends, Arrive, PeerFin, PeerReset, Wakeup, passVars, posVars
<1>6. CASE Readable
  BY <1>1, <1>3, <1>6 DEF Readable, EnterRead, posVars
<1>7. CASE ReturnError
  BY <1>1, <1>3, <1>7 DEF ReturnError, EnterRead, posVars
<1>8. CASE ReturnRepeat
  BY <1>3, <1>8 DEF ReturnRepeat, StartPass, posVars
<1>9. CASE Hangup \/ Timeout \/ RecvOverrun \/ RecvWraps \/ RecvAgain \/ RecvEnds \/ FrameOne
        \/ FrameNone
           \/ FramePartial \/ FrameBad \/ ReturnFirst \/ ReturnSecond \/ ReturnLost
           \/ Handle \/ HandleDone
  <2>1. pc' # "recv"
    BY <1>9 DEF Hangup, Timeout, RecvOverrun, RecvWraps, RecvAgain, RecvEnds, FrameOne,
         FrameNone, FramePartial,
         FrameBad, ReturnFirst, ReturnSecond, ReturnLost, Handle, HandleDone, ConnClose
  <2> QED
    BY <1>1, <2>1
<1> QED
  BY <1>4, <1>5, <1>6, <1>7, <1>8, <1>9 DEF Next, Peer, Read

(* A pass that uses up its window leaves no room in front, so input is left   *)
(* in the socket without an event only then.                                *)
LEMMA WaitingStep ==
  ASSUME SentOK, TypeOK, Framed, NextUp, Marked, Errors, Reach, Waiting, StallsAtTheEnd, Next
  PROVE  Waiting' /\ StallsAtTheEnd'
<1>0. recv_pos \in Nat /\ kernel \in Nat /\ left \in Int /\ Front \in Nat
      /\ (HasRoom <=> recv_pos < Front)
  BY Sizes DEF TypeOK, HasRoom
<1>1. ASSUME UNCHANGED <<recv_pos, kernel, edge>>, ~HasRoom \/ edge \/ kernel = 0, pc' # "idle"
      PROVE  Waiting' /\ StallsAtTheEnd'
  BY <1>0, <1>1 DEF Waiting, StallsAtTheEnd, Stalled, HasRoom
<1>2. CASE PeerSends
  <2>1. UNCHANGED <<pc, recv_pos, recv_mark, edge, kernel>>
    BY <1>2 DEF PeerSends, posVars
  <2> QED
    BY <2>1 DEF Waiting, StallsAtTheEnd, Stalled, HasRoom
<1>3. CASE Arrive \/ PeerFin \/ PeerReset \/ Wakeup
  <2>1. edge'
    BY <1>3 DEF Arrive, PeerFin, PeerReset, Wakeup
  <2> QED
    BY <2>1 DEF Waiting, StallsAtTheEnd, Stalled
<1>4. ASSUME EnterRead, UNCHANGED recv_pos
      PROVE  Waiting' /\ StallsAtTheEnd'
  <2>1. pc' = "recv" \/ (pc' = "handle" /\ ~HasRoom)
    BY <1>4 DEF EnterRead
  <2>2. ~HasRoom => ~HasRoom'
    BY <1>4 DEF HasRoom
  <2> QED
    BY <2>1, <2>2 DEF Waiting, StallsAtTheEnd, Stalled
<1>5. CASE Readable
  BY <1>4, <1>5 DEF Readable, posVars
<1>6. CASE Hangup \/ Timeout \/ RecvOverrun \/ ReturnRepeat \/ ReturnLost
  <2>1. pc' \in {"closed", "recv", "overrun"}
    BY <1>6 DEF Hangup, Timeout, RecvOverrun, ReturnRepeat, ReturnLost, ConnClose
  <2> QED
    BY <2>1 DEF Waiting, StallsAtTheEnd, Stalled
<1>7. CASE Recv
  <2>1. PICK n \in Nat :
          /\ n > 0 /\ recv_pos' = recv_pos + n /\ kernel' = kernel - n /\ left' = left - n
          /\ recv_pos' + left' = recv_pos + left
          /\ (pc' = "frame" /\ (kernel' = 0 \/ left' = 0)) \/ (pc' = "recv" /\ left' > 0)
    BY <1>7, Receiving
  <2>2. CASE pc' = "recv" \/ kernel' = 0
    BY <2>1, <2>2 DEF Waiting, StallsAtTheEnd, Stalled
  <2>3. CASE pc' = "frame" /\ left' = 0
    <3>1. recv_pos' \in Nat /\ recv_pos <= recv_pos' /\ recv_pos' = recv_pos + left
      BY <1>0, <2>1, <2>3
    <3>2. ~HasRoom \/ recv_pos + left = Front
      BY <1>7 DEF Recv, Reach
    <3>3. ~(recv_pos' < Front)
      BY <1>0, <3>1, <3>2
    <3>4. ~HasRoom'
      BY <3>1, <3>3, Sizes DEF HasRoom
    <3> QED
      BY <2>3, <3>4 DEF Waiting, StallsAtTheEnd, Stalled
  <2> QED
    BY <2>1, <2>2, <2>3
<1>8. CASE RecvAgain
  BY <1>1, <1>8 DEF RecvAgain, posVars, netVars
<1>9. CASE RecvEnds \/ RecvWraps
  <2>1. UNCHANGED <<recv_pos, kernel, edge>> /\ pc' # "idle"
        /\ pc = "recv" /\ (left <= 0 \/ kernel = 0 \/ recv_pos + left > MaxWord)
    BY <1>9 DEF RecvEnds, RecvWraps, posVars, netVars
  <2>2. ~HasRoom \/ kernel = 0
    BY <1>0, <2>1, Sizes DEF Reach
  <2> QED
    BY <1>1, <2>1, <2>2
<1>10. CASE FrameOne \/ FrameNone \/ FramePartial \/ FrameBad \/ ReturnFirst \/ ReturnSecond
         \/ Handle
  <2>1. UNCHANGED <<recv_pos, kernel, edge>> /\ pc' # "idle"
        /\ pc \in {"frame", "returned", "handle"}
    BY <1>10 DEF FrameOne, FrameNone, FramePartial, FrameBad, ReturnFirst, ReturnSecond, Handle,
         ConnClose, posVars, netVars
  <2>2. ~HasRoom \/ edge \/ kernel = 0
    BY <1>0, <2>1 DEF Waiting
  <2> QED
    BY <1>1, <2>1, <2>2
<1>11. CASE ReturnError
  <2>1. times # 0
    BY <1>11 DEF ReturnError, Errors
  <2> QED
    BY <1>4, <1>11, <2>1 DEF ReturnError, posVars
<1>12. CASE HandleDone
  <2>1. UNCHANGED <<kernel, edge, recv_mark>> /\ pc = "handle" /\ ~Deliverable
        /\ (pc' = "closed" \/ (pc' = "idle" /\ ~has_closed))
    BY <1>12 DEF HandleDone, netVars, ConnClose
  <2>2. CASE pc' = "closed"
    BY <2>2 DEF Waiting, StallsAtTheEnd, Stalled
  <2>3. CASE Wraps /\ pc' = "idle"
    BY <1>12, <2>3 DEF HandleDone, Wrap, Waiting, StallsAtTheEnd, Stalled
  <2>4. CASE ~Wraps /\ pc' = "idle"
    <3>1. UNCHANGED recv_pos
      BY <1>12, <2>4 DEF HandleDone
    <3>2. ASSUME ~edge, kernel > 0 PROVE recv_mark /\ ~HasRoom
      <4>1. ~HasRoom
        BY <2>1, <3>2 DEF Waiting
      <4>2. handle_pos = last_finish
        BY <2>1, AllHandled
      <4>3. recv_mark <=> last_finish # recv_pos
        BY <2>1, <2>4 DEF Marked, Settled
      <4> QED
        BY <2>4, <4>1, <4>2, <4>3 DEF Wraps
    <3> QED
      BY <2>1, <2>4, <3>1, <3>2 DEF Waiting, StallsAtTheEnd, Stalled, HasRoom
  <2> QED
    BY <2>1, <2>2, <2>3, <2>4
<1> QED
  BY <1>2, <1>3, <1>5, <1>6, <1>7, <1>8, <1>9, <1>10, <1>11, <1>12 DEF Next, Peer, Read

LEMMA HeldStep ==
  ASSUME SentOK, TypeOK, Framed, NextUp, Errors, NothingHeldBack, Next
  PROVE  NothingHeldBack'
<1>1. CASE pc' # "idle"
  BY <1>1 DEF NothingHeldBack
<1>2. CASE PeerSends \/ Arrive \/ PeerFin \/ PeerReset \/ Wakeup
  BY <1>2 DEF PeerSends, Arrive, PeerFin, PeerReset, Wakeup, posVars, NothingHeldBack
<1>3. CASE HandleDone
  <2>1. handle_pos = last_finish
    BY <1>3, AllHandled DEF HandleDone
  <2> QED
    BY <1>3, <2>1 DEF HandleDone, Wrap, NothingHeldBack
<1>4. CASE Read /\ ~HandleDone /\ ~Recv
  <2>1. ReturnError => times # 0
    BY DEF ReturnError, Errors
  <2>2. pc' # "idle"
    BY <1>4, <2>1 DEF Read, Readable, EnterRead, Hangup, RecvOverrun, RecvWraps, RecvAgain,
         RecvEnds, FrameOne, FrameNone,
         FramePartial, FrameBad, ReturnRepeat, ReturnFirst, ReturnSecond, ReturnLost, ReturnError,
         Handle, ConnClose
  <2> QED
    BY <1>1, <2>2
<1>5. CASE Recv
  <2>1. pc' # "idle"
    BY <1>5, Receiving
  <2> QED
    BY <1>1, <2>1
<1>6. CASE Timeout
  BY <1>1, <1>6 DEF Timeout, ConnClose
<1> QED
  BY <1>2, <1>3, <1>4, <1>5, <1>6 DEF Next, Peer

-----------------------------------------------------------------------------
(* The invariant.                                                          *)

LEMMA InitInv == Init => IInv
<1> SUFFICES ASSUME Init PROVE IInv
  OBVIOUS
<1>1. sent = <<>> /\ Len(sent) = 0 /\ SentEnd = 0 /\ EndOf(sent) = 0
  BY DEF Init, SentEnd, EndOf
<1>2. SentOK
  <2> DEFINE M == [at : Nat, len : Headers, bytes : Nat]
  <2> HIDE DEF M
  <2>1. sent \in Seq(M)
    BY <1>1
  <2>2. Laid(sent)
    BY <1>1, <2>1, Sizes DEF Laid, M
  <2> QED
    BY <1>1, <2>2 DEF SentOK, Row, Shaped, Adjacent, Ordered, Near
<1>3. delivered \in Seq([at : Nat, len : Nat, bytes : Nat])
  <2> DEFINE M == [at : Nat, len : Nat, bytes : Nat]
  <2> HIDE DEF M
  <2>1. delivered \in Seq(M)
    BY DEF Init
  <2> QED
    BY <2>1 DEF M
<1>4. TypeOK
  <2>1. left \in Int
    BY Sizes DEF Init
  <2>2. /\ pc \in {"recv", "frame", "returned", "handle", "idle", "closed", "overrun"}
        /\ pass \in {1, 2} /\ times \in {0, 1} /\ rtn \in {"ok", "error", "close"}
        /\ recv_pos \in Nat /\ last_finish \in Nat /\ handle_pos \in Nat /\ base \in Nat
        /\ kernel \in Nat /\ wire \in Nat
    BY DEF Init
  <2>3. /\ got \in BOOLEAN /\ has_closed \in BOOLEAN
        /\ recv_mark \in BOOLEAN /\ edge \in BOOLEAN /\ fin \in BOOLEAN /\ rst \in BOOLEAN
    BY DEF Init
  <2> QED
    BY <1>3, <2>1, <2>2, <2>3, Zenon DEF TypeOK
<1>5. StartOf(1) = 0 /\ 1 \in 1 .. Len(sent) + 1
  BY <1>1 DEF StartOf, StartIn
<1>6. Sourced /\ Framed /\ NextUp
  <2>1. Sourced
    BY <1>1 DEF Init, Sourced
  <2>2. Framed
    BY <1>1, <1>5, Sizes DEF Init, Framed
  <2>3. Len(delivered) = 0
    BY DEF Init
  <2>4. NextUp
    BY <1>1, <1>5, <2>3 DEF Init, NextUp
  <2> QED
    BY <2>1, <2>2, <2>4
<1>7. Windows
  BY Sizes DEF Init, Windows, Within
<1>8. Overran /\ Marked /\ Errors /\ Waiting /\ Reach
  BY Sizes DEF Init, Overran, Marked, Settled, Errors, Waiting, Reach
<1>9. NothingHeldBack /\ StallsAtTheEnd
  BY DEF Init, NothingHeldBack, StallsAtTheEnd, Stalled
<1> QED
  BY <1>2, <1>4, <1>6, <1>7, <1>8, <1>9 DEF IInv

LEMMA NextInv == IInv /\ Next => IInv'
<1> SUFFICES ASSUME IInv, Next PROVE IInv'
  OBVIOUS
<1>1. SentOK' /\ TypeOK'
  BY SentStep, TypeStep DEF IInv
<1>2. Sourced' /\ Framed' /\ NextUp'
  BY SourcedStep, FramedStep, NextUpStep DEF IInv
<1>3. Windows' /\ Overran' /\ Marked' /\ Errors' /\ Reach'
  BY WindowsStep, OverranStep, MarkedStep, ErrorsStep, ReachStep DEF IInv
<1>4. Waiting' /\ StallsAtTheEnd' /\ NothingHeldBack'
  BY WaitingStep, HeldStep DEF IInv
<1> QED
  BY <1>1, <1>2, <1>3, <1>4 DEF IInv

LEMMA StutterInv == IInv /\ UNCHANGED vars => IInv'
<1> SUFFICES ASSUME IInv, UNCHANGED vars PROVE IInv'
  OBVIOUS
<1>1. SentOK' /\ TypeOK' /\ Sourced' /\ Framed' /\ NextUp'
  BY DEF IInv, vars, SentOK, TypeOK, Sourced, Framed, NextUp, SentEnd, StartOf
<1>2. Windows' /\ Overran' /\ Marked' /\ Errors' /\ Waiting' /\ Reach'
  BY DEF IInv, vars, Windows, Overran, Within, Refused, HeaderAt, Marked, Settled, Errors,
       Waiting, Reach, HasRoom
<1>3. NothingHeldBack' /\ StallsAtTheEnd'
  BY DEF IInv, vars, NothingHeldBack, StallsAtTheEnd, Stalled, HasRoom
<1> QED
  BY <1>1, <1>2, <1>3 DEF IInv

(* The state of ws_net_read between any two of its steps, for every length  *)
(* word a peer may write: a window ends inside the buffer or belongs to a   *)
(* message that ws_conn_recv would refuse; what is framed and delivered     *)
(* ends where messages end.                                                 *)
THEOREM Invariance == Spec => []IInv
<1>1. IInv /\ [Next]_vars => IInv'
  BY NextInv, StutterInv
<1> QED
  BY <1>1, InitInv, PTL DEF Spec

(* ws_check_recv gives a recv more room than the read buffer has left only   *)
(* for a message whose length word is negative or above                     *)
(* YMZ_CONN_RECV_MAX_SIZE, which it does not test: no accepted length       *)
(* overruns the buffer, at whatever place the stream was cut.               *)
THEOREM Overruns == Spec => []OverrunByWord
<1>1. IInv => OverrunByWord
  <2> SUFFICES ASSUME IInv PROVE OverrunByWord
    OBVIOUS
  <2>1. pc = "overrun" => Refused
    BY DEF IInv, Overran
  <2>2. ASSUME pc = "recv", recv_pos + left > Block PROVE Refused
    <3>1. recv_pos + left \in Int
      BY DEF IInv, TypeOK
    <3> QED
      BY <2>2, <3>1, WithinBlock, Sizes DEF IInv, Windows
  <2> QED
    BY <2>1, <2>2 DEF OverrunByWord, Refused
<1> QED
  BY <1>1, Invariance, PTL

(* handle_pos, last_finish and recv_pos keep their order, and the framing    *)
(* and delivery loops read length words at the start of messages only,      *)
(* whatever words a peer wrote, as long as no recv left the buffer.         *)
THEOREM Alignment == Spec => []Aligned
<1>1. IInv => Aligned
  <2> SUFFICES ASSUME IInv PROVE Aligned
    OBVIOUS
  <2>1. \A k \in 1 .. Len(sent) + 1 : StartOf(k) \in Starts
    <3>1. Len(sent) \in Nat /\ EndOf(sent) = SentEnd
      BY Lengths DEF IInv, SentOK, EndOf, SentEnd
    <3>2. ASSUME NEW k \in 1 .. Len(sent) PROVE StartOf(k) \in Starts
      BY Starting DEF IInv, SentOK, StartOf, Starts
    <3>3. StartOf(Len(sent) + 1) \in Starts
      BY <3>1, Starting DEF IInv, SentOK, StartOf, Starts
    <3>4. \A k \in 1 .. Len(sent) + 1 : k \in 1 .. Len(sent) \/ k = Len(sent) + 1
      BY <3>1
    <3> QED
      BY <3>2, <3>3, <3>4
  <2>2. base + last_finish \in Starts
    BY <2>1 DEF IInv, Framed
  <2>3. Len(delivered) + 1 \in 1 .. Len(sent) + 1
    BY Lengths DEF IInv, SentOK, NextUp, TypeOK
  <2>4. base + handle_pos \in Starts
    BY <2>1, <2>3 DEF IInv, NextUp
  <2> QED
    BY <2>2, <2>4 DEF IInv, Framed, Aligned
<1> QED
  BY <1>1, Invariance, PTL

(* Every way back to the event loop leaves no complete message undelivered.  *)
THEOREM NoneHeldBack == Spec => []NothingHeldBack
<1>1. IInv => NothingHeldBack
  BY DEF IInv
<1> QED
  BY <1>1, Invariance, PTL

(* With edge-triggered events, ws_net_read leaves bytes in the socket only   *)
(* when the front part of the buffer is used up.                            *)
THEOREM StallsOnlyAtTheEnd == Spec => []StallsAtTheEnd
<1>1. IInv => StallsAtTheEnd
  BY DEF IInv
<1> QED
  BY <1>1, Invariance, PTL

LEMMA ClosingStep ==
  ASSUME IInv, Next, pc # "closed", pc' = "closed", handle_pos' # last_finish'
  PROVE  \/ pc = "handle" /\ delivered' # delivered
         \/ pc = "returned" /\ pass = 2 /\ rtn = "close"
<1>1. SentOK /\ TypeOK /\ Framed /\ NextUp /\ NothingHeldBack
  BY DEF IInv
<1>2. CASE Hangup \/ Timeout
  <2>1. pc = "idle" /\ UNCHANGED <<handle_pos, last_finish>>
    BY <1>2 DEF Hangup, Timeout, posVars
  <2> QED
    BY <1>1, <2>1 DEF NothingHeldBack
<1>3. CASE ReturnLost
  BY <1>3 DEF ReturnLost
<1>4. CASE Handle
  <2>1. pc = "handle" /\ delivered' = Append(delivered, sent[Len(delivered) + 1])
    BY <1>1, <1>4, Handling DEF Handle
  <2>2. Len(delivered') = Len(delivered) + 1 /\ Len(delivered) \in Nat
    BY <1>1, <2>1 DEF TypeOK
  <2> QED
    BY <2>1, <2>2
<1>5. CASE HandleDone
  <2>1. handle_pos = last_finish
    BY <1>1, <1>5, AllHandled DEF HandleDone
  <2> QED
    BY <1>5, <2>1 DEF HandleDone, Wrap
<1>6. CASE PeerSends \/ Arrive \/ PeerFin \/ PeerReset \/ Wakeup
  BY <1>6 DEF PeerSends, Arrive, PeerFin, PeerReset, Wakeup
<1>7. CASE Recv
  BY <1>1, <1>7, Receiving
<1>8. CASE Read /\ ~Hangup /\ ~Recv /\ ~ReturnLost /\ ~Handle /\ ~HandleDone
  BY <1>8 DEF Read, Readable, EnterRead, RecvOverrun, RecvWraps, RecvAgain, RecvEnds,
       FrameOne, FrameNone, FramePartial, FrameBad, ReturnRepeat, ReturnFirst, ReturnSecond,
       ReturnError
<1> QED
  BY <1>2, <1>3, <1>4, <1>5, <1>6, <1>7, <1>8 DEF Next, Peer

(* A connection is closed over framed messages that were not delivered only  *)
(* inside on_recv or by a second pass that found the end of the stream; the  *)
(* end found by a first pass, a timeout and a hangup never lose one.         *)
THEOREM ClosesWithNothingFramed == Spec => FramedThenClosed
<1>1. IInv /\ [Next]_vars =>
        [pc # "closed" /\ pc' = "closed" /\ handle_pos' # last_finish'
           => \/ pc = "handle" /\ delivered' # delivered
              \/ pc = "returned" /\ pass = 2 /\ rtn = "close"]_vars
  BY ClosingStep
<1> QED
  BY <1>1, Invariance, PTL DEF Spec, FramedThenClosed

-----------------------------------------------------------------------------
(* The receive path implements MsgStream.                                  *)

LEMMA Cut ==
  ASSUME NEW M, NEW s \in Seq(M), s # <<>>
  PROVE  /\ Len(s) \in Nat /\ Len(s) > 0
         /\ SubSeq(s, 1, Len(s) - 1) \in Seq(M)
         /\ Len(SubSeq(s, 1, Len(s) - 1)) = Len(s) - 1
         /\ \A k \in 1 .. Len(s) - 1 : SubSeq(s, 1, Len(s) - 1)[k] = s[k]
         /\ s = Append(SubSeq(s, 1, Len(s) - 1), s[Len(s)])
<1> DEFINE n == Len(s) - 1
           t == SubSeq(s, 1, n)
<1>1. Len(s) \in Nat /\ Len(s) > 0 /\ n \in Nat
  OBVIOUS
<1>2. t \in Seq(M) /\ Len(t) = n /\ \A k \in 1 .. n : t[k] = s[k]
  <2>1. \A i \in 1 .. n : s[i] \in M
    BY <1>1
  <2>2. /\ t \in Seq(M) /\ Len(t) = IF 1 <= n THEN n - 1 + 1 ELSE 0
        /\ \A i \in 1 .. n - 1 + 1 : t[i] = s[1 + i - 1]
    BY <1>1, <2>1, SubSeqProperties
  <2>3. n - 1 + 1 = n /\ \A i \in 1 .. n : 1 + i - 1 = i
    BY <1>1
  <2> HIDE DEF t, n
  <2>4. Len(t) = n
    BY <1>1, <2>2
  <2>5. \A k \in 1 .. n : t[k] = s[k]
    BY <1>1, <2>2, <2>3, Zenon
  <2> QED
    BY <2>2, <2>4, <2>5
<1>3. s[Len(s)] \in M
  BY <1>1
<1> HIDE DEF t
<1>4. Append(t, s[Len(s)]) \in Seq(M) /\ Len(Append(t, s[Len(s)])) = Len(s)
  BY <1>1, <1>2, <1>3
<1>5. \A k \in 1 .. Len(s) : Append(t, s[Len(s)])[k] = s[k]
  BY <1>1, <1>2, <1>3
<1>6. s = Append(t, s[Len(s)])
  BY <1>4, <1>5
<1> QED
  BY <1>1, <1>2, <1>6 DEF t

LEMMA CutAppended ==
  ASSUME NEW M, NEW s \in Seq(M), NEW m \in M
  PROVE  SubSeq(Append(s, m), 1, Len(Append(s, m)) - 1) = s
  OBVIOUS

LEMMA StreamInit == Init => Stream!Init
  BY DEF Init, Stream!Init, Received

LEMMA SentType == ASSUME SentOK PROVE sent \in Seq([at : Nat, len : Headers, bytes : Nat])
  BY DEF SentOK, Row, Laid

(* A message that was sent is one of those a peer can send.                 *)
LEMMA IsMessage ==
  ASSUME SentOK, NEW k \in 1 .. Len(sent)
  PROVE  sent[k] \in Messages
<1>1. sent[k] = Message(sent[k].at, sent[k].len) /\ sent[k].at <= (k - 1) * MaxWord
  BY DEF SentOK, Row, Shaped, Near
<1>2. sent[k].at \in Nat /\ sent[k].len \in Headers
  BY OneMessage DEF SentOK
<1>3. (k - 1) * MaxWord <= MaxSent * MaxWord /\ (k - 1) * MaxWord \in Int
      /\ MaxSent * MaxWord \in Int
  <2>1. k \in Nat /\ k - 1 <= MaxSent /\ k - 1 \in Nat
    BY Lengths, Sizes DEF SentOK
  <2>2. \A a, b, m \in Nat : a <= b => a * m <= b * m
    BY SMT
  <2>3. \A a, m \in Nat : a * m \in Int
    OBVIOUS
  <2> QED
    BY <2>1, <2>2, <2>3, Sizes, Zenon
<1>4. sent[k].at \in 0 .. MaxSent * MaxWord
  <2> DEFINE p == (k - 1) * MaxWord
             q == MaxSent * MaxWord
  <2>1. p \in Int /\ q \in Int /\ p <= q /\ sent[k].at <= p
    BY <1>1, <1>3
  <2> HIDE DEF p, q
  <2>2. sent[k].at \in 0 .. q
    BY <1>2, <2>1
  <2> QED
    BY <2>2 DEF q
<1> QED
  BY <1>1, <1>2, <1>4 DEF Messages

(* What is delivered next has arrived in full.                              *)
LEMMA Arrived ==
  ASSUME SentOK, TypeOK, Sourced, Framed, NEW k \in 1 .. Len(sent),
         sent[k].at + sent[k].bytes <= base + last_finish
  PROVE  k <= Len(Received) /\ Received[k] = sent[k]
<1>1. CASE wire = 0
  BY <1>1, Lengths DEF SentOK, Received
<1>2. CASE wire # 0
  <2>1. sent # <<>> /\ Len(sent) \in Nat
    BY Lengths DEF SentOK
  <2>2. k # Len(sent)
    <3> SUFFICES ASSUME k = Len(sent) PROVE FALSE
      OBVIOUS
    <3>1. SentEnd = sent[k].at + sent[k].bytes
      BY <2>1 DEF SentEnd
    <3>2. sent[k].at \in Nat /\ sent[k].bytes \in Nat
      BY OneMessage DEF SentOK
    <3>3. SentEnd \in Nat /\ base + recv_pos + kernel + wire <= SentEnd
      BY <3>1, <3>2 DEF Sourced
    <3>4. SentEnd <= base + last_finish /\ last_finish <= recv_pos
      BY <3>1 DEF Framed
    <3> QED
      BY <1>2, <3>3, <3>4 DEF TypeOK
  <2>3. k \in 1 .. Len(sent) - 1
    BY <2>1, <2>2
  <2> DEFINE M == [at : Nat, len : Headers, bytes : Nat]
  <2>4. sent \in Seq(M)
    BY SentType
  <2> HIDE DEF M
  <2>5. /\ Len(SubSeq(sent, 1, Len(sent) - 1)) = Len(sent) - 1
        /\ SubSeq(sent, 1, Len(sent) - 1)[k] = sent[k]
    BY <2>1, <2>3, <2>4, Cut
  <2> QED
    BY <1>2, <2>1, <2>3, <2>5 DEF Received
<1> QED
  BY <1>1, <1>2

LEMMA StreamStep ==
  ASSUME IInv, Next
  PROVE  Stream!Next \/ UNCHANGED Stream!vars
<1> DEFINE M == [at : Nat, len : Headers, bytes : Nat]
<1>0. SentOK /\ TypeOK /\ Sourced /\ Framed /\ NextUp /\ sent \in Seq(M)
  BY SentType DEF IInv
<1>1. CASE PeerSends
  <2>1. wire = 0 /\ UNCHANGED <<pc, delivered>>
    BY <1>1 DEF PeerSends
  <2>2. wire' # 0
    BY <1>1, <1>0, Sending
  <2>3. PICK h \in Headers : sent' = Append(sent, Message(SentEnd, h))
    BY <1>1 DEF PeerSends
  <2>4. Message(SentEnd, h) \in M
    <3>1. SentEnd \in Nat /\ h \in Int
      BY <1>0, Starting, HeadersAssumption, Sizes DEF SentOK, SentEnd, EndOf
    <3> QED
      BY <3>1, Sizes DEF Message
  <2> HIDE DEF M
  <2>5. SubSeq(sent', 1, Len(sent') - 1) = sent
    BY <1>0, <2>3, <2>4, CutAppended
  <2>6. Received' = Received
    BY <2>1, <2>2, <2>5 DEF Received
  <2> QED
    BY <2>1, <2>6 DEF Stream!vars
<1>2. CASE Arrive
  <2>1. UNCHANGED <<pc, delivered, sent>>
    BY <1>2 DEF Arrive
  <2>2. PICK n \in 1 .. wire : wire' = wire - n
    BY <1>2 DEF Arrive
  <2>3. wire # 0 /\ wire \in Nat
    BY <1>0, <2>2 DEF TypeOK
  <2>4. CASE wire' # 0
    BY <2>1, <2>3, <2>4 DEF Received, Stream!vars
  <2>5. CASE wire' = 0
    <3>1. sent # <<>>
      <4> SUFFICES ASSUME sent = <<>> PROVE FALSE
        OBVIOUS
      <4>1. SentEnd = 0
        BY DEF SentEnd
      <4> QED
        BY <1>0, <2>3, <4>1 DEF Sourced, TypeOK
    <3>2. sent[Len(sent)] \in Messages
      BY <1>0, <3>1, Lengths, IsMessage DEF SentOK
    <3> HIDE DEF M
    <3>3. sent = Append(SubSeq(sent, 1, Len(sent) - 1), sent[Len(sent)])
      BY <1>0, <3>1, Cut
    <3>4. Received' = Append(Received, sent[Len(sent)])
      BY <2>1, <2>3, <2>5, <3>3 DEF Received
    <3> QED
      BY <2>1, <3>2, <3>4 DEF Stream!Next, Stream!Send
  <2> QED
    BY <2>4, <2>5
<1>3. CASE Handle
  <2> DEFINE k == Len(delivered) + 1
  <2>1. /\ k \in 1 .. Len(sent) /\ delivered' = Append(delivered, sent[k])
        /\ sent[k].at + sent[k].bytes <= base + last_finish
    BY <1>0, <1>3, Handling
  <2>2. k <= Len(Received) /\ Received[k] = sent[k]
    BY <1>0, <2>1, Arrived
  <2>3. UNCHANGED <<sent, wire>> /\ pc = "handle" /\ (pc' = "handle" \/ pc' = "closed")
    BY <1>3 DEF Handle, netVars, ConnClose
  <2>4. Received' = Received
    BY <2>3 DEF Received
  <2>5. Len(delivered) < Len(Received)
    <3>1. Len(delivered) \in Nat
      BY <1>0 DEF TypeOK
    <3>2. Len(Received) \in Nat
      <4> HIDE DEF M
      <4>1. Len(sent) \in Nat
        BY <1>0, Lengths DEF SentOK
      <4>2. sent # <<>>
        BY <2>1
      <4>3. Len(SubSeq(sent, 1, Len(sent) - 1)) = Len(sent) - 1 /\ Len(sent) > 0
        BY <1>0, <4>2, Cut
      <4> QED
        BY <4>1, <4>3 DEF Received
    <3> QED
      BY <2>2, <3>1, <3>2
  <2>6. CASE pc' = "handle"
    BY <2>1, <2>2, <2>3, <2>4, <2>5, <2>6 DEF Stream!Next, Stream!Deliver
  <2>7. CASE pc' = "closed"
    BY <2>1, <2>2, <2>3, <2>4, <2>5, <2>7 DEF Stream!Next, Stream!DeliverLast
  <2> QED
    BY <2>3, <2>6, <2>7
<1>4. CASE Next /\ ~PeerSends /\ ~Arrive /\ ~Handle
  <2>1. UNCHANGED <<sent, wire, delivered>>
    BY <1>4 DEF Next, Peer, Read, PeerFin, PeerReset, Wakeup, Readable, Hangup, Recv,
         RecvOverrun, RecvWraps, RecvAgain, RecvEnds, FrameOne, FrameNone, FramePartial,
         FrameBad, ReturnRepeat,
         ReturnFirst, ReturnSecond, ReturnLost, ReturnError, HandleDone, Timeout, netVars
  <2>2. pc = "closed" => pc' = "closed"
    BY <1>4 DEF Next, Peer, Read, PeerFin, PeerReset, Wakeup, Readable, Hangup, Recv,
         RecvOverrun, RecvWraps, RecvAgain, RecvEnds, FrameOne, FrameNone, FramePartial,
         FrameBad, ReturnRepeat,
         ReturnFirst, ReturnSecond, ReturnLost, ReturnError, HandleDone, Timeout
  <2>3. Received' = Received
    BY <2>1 DEF Received
  <2>4. CASE pc = "closed" \/ pc' # "closed"
    BY <2>1, <2>2, <2>3, <2>4 DEF Stream!vars
  <2>5. CASE pc # "closed" /\ pc' = "closed"
    BY <2>1, <2>3, <2>5 DEF Stream!Next, Stream!Close
  <2> QED
    BY <2>4, <2>5
<1> QED
  BY <1>1, <1>2, <1>3, <1>4

(* The receive path implements MsgStream: on_recv is called once for each     *)
(* message that arrived, in order and with its length, and not at all after *)
(* the connection was closed, however recv cuts the stream into pieces.     *)
THEOREM ImplementsStream == Spec => StreamSpec
<1>1. IInv /\ [Next]_vars => [Stream!Next]_Stream!vars
  <2>1. IInv /\ Next => [Stream!Next]_Stream!vars
    BY StreamStep
  <2>2. UNCHANGED vars => UNCHANGED Stream!vars
    BY DEF vars, Stream!vars, Received
  <2> QED
    BY <2>1, <2>2
<1> QED
  BY <1>1, StreamInit, Invariance, PTL DEF Spec, StreamSpec, Stream!Spec
=============================================================================
