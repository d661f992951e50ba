------------------------- MODULE SharedQueueProofs --------------------------
(***************************************************************************)
(* What holds of SharedQueue for every number of slots and words: the      *)
(* cursors stay ordered whatever the two processes do, and until the       *)
(* producer moves head under the consumer's feet the queue is first in,    *)
(* first out.                                                              *)
(***************************************************************************)
EXTENDS SharedQueue, SequenceTheorems, TLAPS

(* Every cursor stands for a slot. *)
LEMMA SlotInRange ==
  ASSUME NEW c \in Nat
  PROVE  SlotOf(c) \in Slots
BY ConstantsAssumption DEF SlotOf, Slots

(* Cursors less than a lap apart have different slots.                     *)
LEMMA SlotsDiffer ==
  ASSUME NEW c \in Nat, NEW d \in Nat, c < d, d - c < BufferSize
  PROVE  SlotOf(c) # SlotOf(d)
<1>1. ASSUME NEW b \in Nat, b >= 1, d - c < b, c % b = d % b
      PROVE  FALSE
  <2>1. c = b * (c \div b) + (c % b) /\ d = b * (d \div b) + (d % b)
    BY <1>1
  <2>0. c \div b \in Int /\ d \div b \in Int
    BY <1>1
  <2>2. PICK p \in Int : p = c \div b
    BY <2>0
  <2>3. PICK q \in Int : q = d \div b
    BY <2>0
  <2>4. b * q = b * p + (d - c)
    BY <1>1, <2>1, <2>2, <2>3
  <2>5. CASE q <= p
    <3>1. b * q <= b * p
      BY <1>1, <2>5
    <3>2. QED
      BY <1>1, <2>4, <3>1
  <2>6. CASE q >= p + 1
    <3>1. b * q >= b * (p + 1)
      BY <1>1, <2>6
    <3>2. b * (p + 1) = b * p + b
      BY <1>1
    <3>3. QED
      BY <1>1, <2>4, <3>1, <3>2
  <2>7. QED
    BY <2>5, <2>6
<1>2. BufferSize \in Nat /\ BufferSize >= 1
  BY ConstantsAssumption
<1>3. ~(c % BufferSize = d % BufferSize)
  BY <1>1, <1>2
<1>4. QED
  BY <1>3 DEF SlotOf
-----------------------------------------------------------------------------
(***************************************************************************)
(* The inductive invariant.                                                *)
(***************************************************************************)
Taking  == {"get", "peek"}
Getting == Taking \cup {"get_tail", "peek_tail"}

(* Every cursor anybody holds was below tail when it was read, and tail    *)
(* never goes back.                                                        *)
CursorInv ==
  /\ head <= tail /\ phead <= tail /\ chead <= tail
  /\ ppc = "drop" => phead < tail
  /\ cpc \in Taking => chead < tail

(* The commands were sent in the order of their numbers.                   *)
SentInv ==
  /\ Len(sent) = tail
  /\ \A c \in 1 .. tail : sent[c] <= puts /\ (ppc # "idle" => sent[c] < puts)
  /\ \A c, d \in 1 .. tail : c < d => sent[c] < sent[d]

(* What the consumer holds of head, and the producer.                      *)
Aim ==
  /\ cpc \in Getting => chead = head
  /\ cpc = "clear" => head <= chead
  /\ ppc # "idle" => phead <= head

(* The producer writes only to a slot nobody will read.                    *)
Room ==
  /\ tail - head <= BufferSize
  /\ ppc = "write" => tail - head < BufferSize

(* The slots between the cursors hold the commands that were sent.         *)
Content ==
  /\ \A c \in 1 .. tail : c > head =>
       \A w \in Words : slot[SlotOf(c - 1)][w] = sent[c]
  /\ ppc = "write" => \A w \in Words : w < pi => slot[SlotOf(tail)][w] = puts
  /\ ppc = "drop" => pi = 1

(* The consumer has read words of the command at the head.                 *)
Reads ==
  /\ cpc \in Taking => \A w \in Words : w < ci => cmd[w] = sent[chead + 1]

(* What was returned is older than what is in the queue.                   *)
Older ==
  /\ Fifo
  /\ \A j \in 1 .. Len(out) :
       /\ out[j][1] <= puts
       /\ ppc # "idle" => out[j][1] < puts
       /\ \A c \in 1 .. tail : c > head => out[j][1] < sent[c]

RaceFree == Aim /\ Room /\ Content /\ Reads /\ Older

Inv == TypeOK /\ CursorInv /\ SentInv /\ (~raced => RaceFree)

(* An empty queue. *)
LEMMA InitInv ==
  ASSUME Init
  PROVE  Inv
<1>1. Blank \in [Words -> Nat]
  BY DEF Blank
<1>2. TypeOK
  <2>1. /\ head \in Nat /\ tail \in Nat /\ puts \in Nat /\ clears \in Nat
        /\ phead \in Nat /\ chead \in Nat /\ pi \in Nat \ {0} /\ ci \in Nat \ {0}
    BY DEF Init
  <2>2. slot \in [Slots -> [Words -> Nat]] /\ cmd \in [Words -> Nat]
    BY <1>1 DEF Init
  <2>3. out \in Seq([Words -> Nat]) /\ sent \in Seq(Nat)
    BY DEF Init
  <2>4. QED
    BY <2>1, <2>2, <2>3 DEF Init, TypeOK
<1>3. CursorInv /\ SentInv
  BY DEF Init, CursorInv, SentInv, Taking
<1>4. RaceFree
  BY ConstantsAssumption
     DEF Init, RaceFree, Aim, Room, Content, Reads, Older, Fifo, Taking, Getting
<1>5. QED
  BY <1>2, <1>3, <1>4 DEF Inv
-----------------------------------------------------------------------------
(* TypeOK, given that the cursors are in order. *)
LEMMA Typed ==
  ASSUME TypeOK, CursorInv, Next
  PROVE  TypeOK'
<1>1. CASE PutCall
  BY <1>1 DEF TypeOK, PutCall, memory, consumer
<1>2. CASE PutDrop
  BY <1>2 DEF TypeOK, PutDrop, consumer
<1>3. CASE PutWord
  <2>1. SlotOf(tail) \in Slots
    BY SlotInRange DEF TypeOK
  <2>2. slot' \in [Slots -> [Words -> Nat]]
    BY <1>3, <2>1 DEF TypeOK, PutWord
  <2>3. pi' \in Nat \ {0}
    BY <1>3 DEF TypeOK, PutWord
  <2>4. QED
    BY <1>3, <2>2, <2>3 DEF TypeOK, PutWord, consumer
<1>4. CASE PutTail
  <2>1. tail' \in Nat /\ sent' \in Seq(Nat)
    BY <1>4 DEF TypeOK, PutTail
  <2>2. QED
    BY <1>4, <2>1 DEF TypeOK, PutTail, consumer
<1>5. CASE PutAbandoned
  BY <1>5 DEF TypeOK, PutAbandoned, memory, consumer
<1>6. CASE ProducerClear
  BY <1>6 DEF TypeOK, ProducerClear, producer, consumer
<1>7. CASE GetHead
  BY <1>7 DEF TypeOK, GetHead, memory, producer
<1>8. CASE GetTail
  <2>1. Blank \in [Words -> Nat]
    BY DEF Blank
  <2>2. ci' \in Nat \ {0} /\ cmd' \in [Words -> Nat]
    BY <1>8, <2>1 DEF TypeOK, GetTail
  <2>3. QED
    BY <1>8, <2>2 DEF TypeOK, GetTail, memory, producer
<1>9. CASE GetWord
  <2>1. SlotOf(chead) \in Slots /\ ci \in Words
    BY <1>9, SlotInRange, ConstantsAssumption DEF TypeOK, GetWord, Words
  <2>2. cmd' \in [Words -> Nat]
    BY <1>9, <2>1 DEF TypeOK, GetWord
  <2>3. ci' \in Nat \ {0}
    BY <1>9 DEF TypeOK, GetWord
  <2>4. QED
    BY <1>9, <2>2, <2>3 DEF TypeOK, GetWord, memory, producer
<1>10. CASE GetAdvance
  <2>1. out' \in Seq([Words -> Nat]) /\ head' \in Nat
    BY <1>10 DEF TypeOK, GetAdvance
  <2>2. QED
    BY <1>10, <2>1 DEF TypeOK, GetAdvance, producer
<1>11. CASE PeekReturn
  BY <1>11 DEF TypeOK, PeekReturn, memory, producer
<1>12. CASE ClearTail
  BY <1>12 DEF TypeOK, ClearTail, memory, producer
<1>13. CASE ClearHead
  BY <1>13 DEF TypeOK, ClearHead, producer
<1>14. QED
  BY <1>1, <1>2, <1>3, <1>4, <1>5, <1>6, <1>7, <1>8, <1>9, <1>10, <1>11, <1>12,
     <1>13 DEF Next, Producer, Consumer

(* No step lets head pass tail.                                            *)
LEMMA CursorsStep ==
  ASSUME TypeOK, CursorInv, Next
  PROVE  CursorInv'
<1>1. /\ head \in Nat /\ tail \in Nat /\ phead \in Nat /\ chead \in Nat
      /\ ci \in Nat \ {0} /\ BufferSize \in Nat \ {0}
  BY ConstantsAssumption DEF TypeOK
<1>2. CASE Producer
  BY <1>1, <1>2
     DEF Producer, PutCall, PutDrop, PutWord, PutTail, PutAbandoned, ProducerClear,
         CursorInv, Taking, memory, producer, consumer
<1>3. CASE Consumer
  BY <1>1, <1>3
     DEF Consumer, GetHead, GetTail, GetWord, GetAdvance, PeekReturn, ClearTail,
         ClearHead, CursorInv, Taking, memory, producer, consumer
<1>4. QED
  BY <1>2, <1>3 DEF Next

(* Only PutTail adds to what was sent.                                     *)
LEMMA SentStep ==
  ASSUME TypeOK, SentInv, Next
  PROVE  SentInv'
<1>1. tail \in Nat /\ sent \in Seq(Nat) /\ puts \in Nat /\ Len(sent) = tail
  BY DEF TypeOK, SentInv
<1>2. CASE PutTail
  <2>1. tail' = tail + 1 /\ sent' = Append(sent, puts) /\ puts' = puts
        /\ ppc # "idle" /\ ppc' = "idle"
    BY <1>2 DEF PutTail
  <2>2. /\ Len(sent') = tail + 1 /\ sent'[tail + 1] = puts
        /\ \A c \in 1 .. tail : sent'[c] = sent[c] /\ sent[c] < puts /\ sent[c] \in Nat
    BY <1>1, <2>1 DEF SentInv
  <2>3. ASSUME NEW c \in 1 .. tail + 1
        PROVE  sent'[c] <= puts
    BY <1>1, <2>2
  <2>4. ASSUME NEW c \in 1 .. tail + 1, NEW d \in 1 .. tail + 1, c < d
        PROVE  sent'[c] < sent'[d]
    <3>1. c \in 1 .. tail
      BY <1>1, <2>4
    <3>2. CASE d = tail + 1
      BY <2>2, <3>1, <3>2
    <3>3. CASE d \in 1 .. tail
      BY <2>2, <2>4, <3>1, <3>3 DEF SentInv
    <3>4. QED
      BY <1>1, <3>2, <3>3
  <2>5. QED
    BY <2>1, <2>2, <2>3, <2>4 DEF SentInv
<1>3. CASE PutCall
  BY <1>1, <1>3 DEF PutCall, SentInv, memory
<1>4. CASE ~PutTail /\ ~PutCall
  <2>1. UNCHANGED <<tail, sent, puts>> /\ (ppc' # "idle" => ppc # "idle")
    BY <1>4 DEF Next, Producer, Consumer, PutDrop, PutWord, PutAbandoned,
                ProducerClear, GetHead, GetTail, GetWord, GetAdvance, PeekReturn,
                ClearTail, ClearHead, memory, producer
  <2>2. QED
    BY <2>1 DEF SentInv
<1>5. QED
  BY <1>2, <1>3, <1>4

(* What the two processes hold of the cursors, as long as there is no race. *)
LEMMA AimStep ==
  ASSUME Inv, ~raced, Next, ~raced'
  PROVE  Aim'
<1>1. /\ head \in Nat /\ tail \in Nat /\ phead \in Nat /\ chead \in Nat
      /\ head <= tail /\ Aim
  BY DEF Inv, TypeOK, CursorInv, RaceFree
<1>2. CASE PutCall
  BY <1>1, <1>2 DEF PutCall, Aim, Getting, Taking, memory, consumer
<1>3. CASE PutDrop
  <2>1. cpc = "idle" /\ head = phead
    BY <1>3, Zenon DEF PutDrop
  <2>2. QED
    BY <1>1, <1>3, <2>1 DEF PutDrop, Aim, Getting, Taking, consumer
<1>4. CASE PutWord
  BY <1>1, <1>4 DEF PutWord, Aim, Getting, Taking, consumer
<1>5. CASE PutTail
  BY <1>1, <1>5 DEF PutTail, Aim, Getting, Taking, consumer
<1>6. CASE PutAbandoned
  BY <1>1, <1>6 DEF PutAbandoned, Aim, Getting, Taking, memory, consumer
<1>7. CASE ProducerClear
  BY <1>1, <1>7 DEF ProducerClear, Aim, Getting, Taking, producer, consumer
<1>8. CASE GetHead
  BY <1>1, <1>8 DEF GetHead, Aim, Getting, Taking, memory, producer
<1>9. CASE GetTail
  BY <1>1, <1>9 DEF GetTail, Aim, Getting, Taking, memory, producer
<1>10. CASE GetWord
  BY <1>1, <1>10 DEF GetWord, Aim, Getting, Taking, memory, producer
<1>11. CASE GetAdvance
  BY <1>1, <1>11 DEF GetAdvance, Aim, Getting, Taking, producer
<1>12. CASE PeekReturn
  BY <1>1, <1>12 DEF PeekReturn, Aim, Getting, Taking, memory, producer
<1>13. CASE ClearTail
  BY <1>1, <1>13 DEF ClearTail, Aim, Getting, Taking, memory, producer
<1>14. CASE ClearHead
  BY <1>1, <1>14 DEF ClearHead, Aim, Getting, Taking, producer
<1>15. QED
  BY <1>2, <1>3, <1>4, <1>5, <1>6, <1>7, <1>8, <1>9, <1>10, <1>11, <1>12, <1>13, <1>14
     DEF Next, Producer, Consumer

(* The queue never holds more than it has slots for, until a drop or a     *)
(* clear() races with the consumer.                                        *)
LEMMA RoomStep ==
  ASSUME Inv, ~raced, Next, ~raced'
  PROVE  Room'
<1>1. /\ head \in Nat /\ tail \in Nat /\ phead \in Nat /\ chead \in Nat
      /\ head <= tail /\ Aim /\ Room /\ CursorInv /\ BufferSize \in Nat \ {0}
  BY ConstantsAssumption DEF Inv, TypeOK, CursorInv, RaceFree
<1>2. CASE PutCall
  BY <1>1, <1>2 DEF PutCall, Aim, Room, CursorInv, Getting, Taking, memory, consumer
<1>3. CASE PutDrop
  <2>1. cpc = "idle" /\ head = phead
    BY <1>3, Zenon DEF PutDrop
  <2>2. QED
    BY <1>1, <1>3, <2>1 DEF PutDrop, Aim, Room, CursorInv, Getting, Taking, consumer
<1>4. CASE PutWord
  BY <1>1, <1>4 DEF PutWord, Aim, Room, CursorInv, Getting, Taking, consumer
<1>5. CASE PutTail
  BY <1>1, <1>5 DEF PutTail, Aim, Room, CursorInv, Getting, Taking, consumer
<1>6. CASE PutAbandoned
  BY <1>1, <1>6 DEF PutAbandoned, Aim, Room, CursorInv, Getting, Taking, memory, consumer
<1>7. CASE ProducerClear
  BY <1>1, <1>7 DEF ProducerClear, Aim, Room, CursorInv, Getting, Taking, producer, consumer
<1>8. CASE GetHead
  BY <1>1, <1>8 DEF GetHead, Aim, Room, CursorInv, Getting, Taking, memory, producer
<1>9. CASE GetTail
  BY <1>1, <1>9 DEF GetTail, Aim, Room, CursorInv, Getting, Taking, memory, producer
<1>10. CASE GetWord
  BY <1>1, <1>10 DEF GetWord, Aim, Room, CursorInv, Getting, Taking, memory, producer
<1>11. CASE GetAdvance
  BY <1>1, <1>11 DEF GetAdvance, Aim, Room, CursorInv, Getting, Taking, producer
<1>12. CASE PeekReturn
  BY <1>1, <1>12 DEF PeekReturn, Aim, Room, CursorInv, Getting, Taking, memory, producer
<1>13. CASE ClearTail
  BY <1>1, <1>13 DEF ClearTail, Aim, Room, CursorInv, Getting, Taking, memory, producer
<1>14. CASE ClearHead
  BY <1>1, <1>14 DEF ClearHead, Aim, Room, CursorInv, Getting, Taking, producer
<1>15. QED
  BY <1>2, <1>3, <1>4, <1>5, <1>6, <1>7, <1>8, <1>9, <1>10, <1>11, <1>12, <1>13, <1>14
     DEF Next, Producer, Consumer

(* Without a race head never goes back. *)
LEMMA HeadForward ==
  ASSUME Inv, ~raced, Next, ~raced'
  PROVE  head <= head'
<1>1. /\ head \in Nat /\ tail \in Nat /\ phead \in Nat /\ chead \in Nat
      /\ head <= tail /\ Aim
  BY DEF Inv, TypeOK, CursorInv, RaceFree
<1>2. CASE PutCall
  BY <1>1, <1>2 DEF PutCall, Aim, Getting, Taking, memory, consumer
<1>3. CASE PutDrop
  <2>1. cpc = "idle" /\ head = phead
    BY <1>3, Zenon DEF PutDrop
  <2>2. QED
    BY <1>1, <1>3, <2>1 DEF PutDrop, Aim, Getting, Taking, consumer
<1>4. CASE PutWord
  BY <1>1, <1>4 DEF PutWord, Aim, Getting, Taking, consumer
<1>5. CASE PutTail
  BY <1>1, <1>5 DEF PutTail, Aim, Getting, Taking, consumer
<1>6. CASE PutAbandoned
  BY <1>1, <1>6 DEF PutAbandoned, Aim, Getting, Taking, memory, consumer
<1>7. CASE ProducerClear
  BY <1>1, <1>7 DEF ProducerClear, Aim, Getting, Taking, producer, consumer
<1>8. CASE GetHead
  BY <1>1, <1>8 DEF GetHead, Aim, Getting, Taking, memory, producer
<1>9. CASE GetTail
  BY <1>1, <1>9 DEF GetTail, Aim, Getting, Taking, memory, producer
<1>10. CASE GetWord
  BY <1>1, <1>10 DEF GetWord, Aim, Getting, Taking, memory, producer
<1>11. CASE GetAdvance
  BY <1>1, <1>11 DEF GetAdvance, Aim, Getting, Taking, producer
<1>12. CASE PeekReturn
  BY <1>1, <1>12 DEF PeekReturn, Aim, Getting, Taking, memory, producer
<1>13. CASE ClearTail
  BY <1>1, <1>13 DEF ClearTail, Aim, Getting, Taking, memory, producer
<1>14. CASE ClearHead
  BY <1>1, <1>14 DEF ClearHead, Aim, Getting, Taking, producer
<1>15. QED
  BY <1>2, <1>3, <1>4, <1>5, <1>6, <1>7, <1>8, <1>9, <1>10, <1>11, <1>12, <1>13, <1>14
     DEF Next, Producer, Consumer

(* The slots hold the commands that were sent and not consumed. *)
LEMMA ContentStep ==
  ASSUME Inv, ~raced, Next, ~raced'
  PROVE  Content'
<1>1. /\ head \in Nat /\ tail \in Nat /\ head' \in Nat /\ head <= head'
      /\ BufferSize \in Nat \ {0} /\ pi \in Nat \ {0}
      /\ Room /\ Content /\ SentInv /\ sent \in Seq(Nat)
      /\ slot \in [Slots -> [Words -> Nat]]
  BY HeadForward, Typed, ConstantsAssumption DEF Inv, TypeOK, RaceFree
<1>2. CASE PutWord
  <2>1. /\ ppc = "write" /\ ppc' = "write" /\ pi' = pi + 1
        /\ slot' = [slot EXCEPT ![SlotOf(tail)][pi] = puts]
        /\ UNCHANGED <<head, tail, sent, puts>>
    BY <1>2 DEF PutWord
  <2>2. SlotOf(tail) \in Slots
    BY <1>1, SlotInRange
  <2>3. ASSUME NEW c \in 1 .. tail, c > head, NEW w \in Words
        PROVE  slot'[SlotOf(c - 1)][w] = sent[c]
    <3>1. c - 1 \in Nat /\ c - 1 < tail /\ tail - (c - 1) < BufferSize
      BY <1>1, <2>1, <2>3 DEF Room
    <3>2. SlotOf(c - 1) # SlotOf(tail)
      <4>1. PICK d \in Nat : d = c - 1
        BY <3>1
      <4>2. SlotOf(d) # SlotOf(tail)
        BY <1>1, <3>1, <4>1, SlotsDiffer
      <4>3. QED
        BY <4>1, <4>2
    <3>3. SlotOf(c - 1) \in Slots
      BY <3>1, SlotInRange
    <3>4. slot'[SlotOf(c - 1)] = slot[SlotOf(c - 1)]
      BY <1>1, <2>1, <3>2, <3>3
    <3>5. QED
      BY <1>1, <2>3, <3>4 DEF Content
  <2>4. ASSUME NEW w \in Words, w < pi + 1
        PROVE  slot'[SlotOf(tail)][w] = puts
    <3>1. CASE w = pi
      BY <1>1, <2>1, <2>2, <3>1
    <3>2. CASE w # pi
      <4>1. w < pi
        BY <1>1, <2>4, <3>2 DEF Words
      <4>2. slot'[SlotOf(tail)][w] = slot[SlotOf(tail)][w]
        BY <1>1, <2>1, <2>2, <3>2
      <4>3. QED
        BY <1>1, <2>1, <4>1, <4>2 DEF Content
    <3>3. QED
      BY <3>1, <3>2
  <2>5. QED
    BY <2>1, <2>3, <2>4 DEF Content
<1>3. CASE PutTail
  <2>1. /\ tail' = tail + 1 /\ sent' = Append(sent, puts) /\ ppc = "write"
        /\ ppc' = "idle" /\ pi > NumWords /\ UNCHANGED <<head, slot>>
    BY <1>3 DEF PutTail
  <2>2. \A w \in Words : slot[SlotOf(tail)][w] = puts
    BY <1>1, <2>1, ConstantsAssumption DEF Content, Words
  <2>3. sent'[tail + 1] = puts /\ \A c \in 1 .. tail : sent'[c] = sent[c]
    BY <1>1, <2>1 DEF SentInv
  <2>4. ASSUME NEW c \in 1 .. tail + 1, c > head, NEW w \in Words
        PROVE  slot[SlotOf(c - 1)][w] = sent'[c]
    <3>1. CASE c = tail + 1
      <4>1. c - 1 = tail
        BY <1>1, <3>1
      <4>2. QED
        BY <2>2, <2>3, <3>1, <4>1
    <3>2. CASE c \in 1 .. tail
      BY <1>1, <2>3, <2>4, <3>2 DEF Content
    <3>3. QED
      BY <1>1, <2>4, <3>1, <3>2
  <2>5. QED
    BY <2>1, <2>4 DEF Content
<1>4. CASE ~PutWord /\ ~PutTail
  <2>1. /\ UNCHANGED <<tail, slot, sent>>
        /\ ppc' = "write" => (ppc = "write" /\ UNCHANGED <<pi, puts>>) \/ pi' = 1
        /\ ppc' = "drop" => pi' = 1
    BY <1>1, <1>4 DEF Content, Next, Producer, Consumer, PutCall, PutDrop, PutAbandoned,
                ProducerClear, GetHead, GetTail, GetWord, GetAdvance, PeekReturn,
                ClearTail, ClearHead, memory, producer
  <2>2. \A w \in Words : ~(w < 1)
    BY DEF Words
  <2>3. ppc' = "write" => \A w \in Words : w < pi' => slot[SlotOf(tail)][w] = puts'
    <3>1. CASE pi' = 1
      BY <2>2, <3>1
    <3>2. CASE ppc = "write" /\ UNCHANGED <<pi, puts>>
      BY <1>1, <3>2 DEF Content
    <3>3. QED
      BY <2>1, <3>1, <3>2
  <2>4. \A c \in 1 .. tail : c > head' => c > head
    BY <1>1
  <2>5. QED
    BY <1>1, <2>1, <2>3, <2>4 DEF Content
<1>5. QED
  BY <1>2, <1>3, <1>4

(* What the consumer has copied is a part of the command it aims at. *)
LEMMA ReadsStep ==
  ASSUME Inv, ~raced, Next, ~raced'
  PROVE  Reads'
<1>1. /\ head \in Nat /\ tail \in Nat /\ chead \in Nat /\ ci \in Nat \ {0}
      /\ Aim /\ Content /\ Reads /\ SentInv /\ sent \in Seq(Nat)
      /\ cmd \in [Words -> Nat] /\ (cpc \in Taking => chead < tail)
  BY DEF Inv, TypeOK, RaceFree, CursorInv
<1>2. CASE GetWord
  <2>1. /\ cpc \in Taking /\ ci' = ci + 1
        /\ cmd' = [cmd EXCEPT ![ci] = slot[SlotOf(chead)][ci]]
        /\ UNCHANGED <<cpc, chead, sent>>
    BY <1>2 DEF GetWord, Taking
  <2>2. ASSUME NEW w \in Words, w < ci + 1
        PROVE  cmd'[w] = sent[chead + 1]
    <3>1. CASE w = ci
      <4>1. chead = head
        BY <1>1, <2>1 DEF Aim, Getting
      <4>2. chead + 1 \in 1 .. tail /\ chead + 1 > head /\ (chead + 1) - 1 = chead
        BY <1>1, <2>1, <4>1
      <4>3. slot[SlotOf(chead)][w] = sent[chead + 1]
        BY <1>1, <4>2 DEF Content
      <4>4. QED
        BY <1>1, <2>1, <3>1, <4>3
    <3>2. CASE w # ci
      <4>1. w < ci
        BY <1>1, <2>2, <3>2 DEF Words
      <4>2. QED
        BY <1>1, <2>1, <3>2, <4>1 DEF Reads
    <3>3. QED
      BY <3>1, <3>2
  <2>3. QED
    BY <2>1, <2>2 DEF Reads
<1>3. CASE GetTail
  <2>1. cpc' \in Taking => ci' = 1
    BY <1>3 DEF GetTail, Taking
  <2>2. QED
    BY <2>1 DEF Reads, Words
<1>4. CASE ~GetWord /\ ~GetTail
  <2>1. cpc' \in Taking => cpc \in Taking /\ UNCHANGED <<chead, ci, cmd>>
    BY <1>4 DEF Next, Producer, Consumer, PutCall, PutDrop, PutWord, PutTail,
                PutAbandoned, ProducerClear, GetHead, GetAdvance, PeekReturn,
                ClearTail, ClearHead, consumer, Taking
  <2>2. \A c \in 1 .. tail : sent'[c] = sent[c]
    <3>1. sent' = sent \/ sent' = Append(sent, puts)
      BY <1>4 DEF Next, Producer, Consumer, PutCall, PutDrop, PutWord, PutTail,
                  PutAbandoned, ProducerClear, GetHead, GetAdvance, PeekReturn,
                  ClearTail, ClearHead
    <3>2. QED
      BY <1>1, <3>1 DEF SentInv
  <2>3. cpc \in Taking => chead + 1 \in 1 .. tail
    BY <1>1
  <2>4. QED
    BY <1>1, <2>1, <2>2, <2>3 DEF Reads
<1>5. QED
  BY <1>2, <1>3, <1>4

(* What was delivered is older than what is left. *)
LEMMA OlderStep ==
  ASSUME Inv, ~raced, Next, ~raced'
  PROVE  Older'
<1>1. /\ head \in Nat /\ tail \in Nat /\ chead \in Nat /\ ci \in Nat \ {0}
      /\ puts \in Nat /\ head' \in Nat /\ head <= head'
      /\ Aim /\ Reads /\ Older /\ SentInv /\ sent \in Seq(Nat)
      /\ cmd \in [Words -> Nat] /\ out \in Seq([Words -> Nat])
      /\ cpc \in Taking => chead < tail
  BY HeadForward, Typed DEF Inv, TypeOK, RaceFree, CursorInv
<1>2. 1 \in Words
  BY ConstantsAssumption DEF Words
<1>3. \A j \in 1 .. Len(out) : out[j] \in [Words -> Nat] /\ out[j][1] \in Nat
  BY <1>1, <1>2
<1>4. CASE GetAdvance
  <2>1. /\ cpc = "get" /\ ci > NumWords /\ head' = chead + 1
        /\ out' = Append(out, cmd) /\ UNCHANGED <<tail, ppc, sent, puts>>
    BY <1>4 DEF GetAdvance, producer
  <2>2. chead = head /\ head < tail
    BY <1>1, <2>1 DEF Aim, Getting, Taking
  <2>3. \A w \in Words : cmd[w] = sent[head + 1]
    BY <1>1, <2>1, <2>2, ConstantsAssumption DEF Reads, Taking, Words
  <2>4. cmd[1] = sent[head + 1] /\ Whole(cmd)
    BY <1>2, <2>3 DEF Whole
  <2>5. head + 1 \in 1 .. tail
    BY <1>1, <2>2
  <2>6. /\ cmd[1] <= puts /\ (ppc # "idle" => cmd[1] < puts)
        /\ \A c \in 1 .. tail : c > head + 1 => cmd[1] < sent[c]
    BY <1>1, <2>4, <2>5 DEF SentInv
  <2>7. /\ Len(out') = Len(out) + 1 /\ out'[Len(out) + 1] = cmd
        /\ \A j \in 1 .. Len(out) : out'[j] = out[j]
        /\ Len(out) \in Nat
    BY <1>1, <2>1
  <2>8. ASSUME NEW j \in 1 .. Len(out) + 1
        PROVE  /\ Whole(out'[j]) /\ out'[j][1] <= puts
               /\ ppc # "idle" => out'[j][1] < puts
               /\ \A c \in 1 .. tail : c > head + 1 => out'[j][1] < sent[c]
    <3>1. CASE j = Len(out) + 1
      BY <2>4, <2>6, <2>7, <3>1
    <3>2. CASE j \in 1 .. Len(out)
      <4>1. out'[j] = out[j]
        BY <2>7, <3>2
      <4>2. /\ Whole(out[j]) /\ out[j][1] <= puts
            /\ ppc # "idle" => out[j][1] < puts
            /\ \A c \in 1 .. tail : c > head => out[j][1] < sent[c]
        BY <1>1, <3>2 DEF Older, Fifo
      <4>3. \A c \in 1 .. tail : c > head + 1 => c > head
        BY <1>1
      <4>4. QED
        BY <4>1, <4>2, <4>3
    <3>3. QED
      BY <2>7, <3>1, <3>2
  <2>9. ASSUME NEW j \in 1 .. Len(out)
        PROVE  out'[j][1] < out'[j + 1][1]
    <3>1. CASE j = Len(out)
      <4>1. out[j][1] < sent[head + 1]
        <5>1. head + 1 > head
          BY <1>1
        <5>2. \A c \in 1 .. tail : c > head => out[j][1] < sent[c]
          BY <1>1 DEF Older
        <5>3. QED
          BY <2>5, <5>1, <5>2
      <4>2. QED
        BY <2>4, <2>7, <3>1, <4>1
    <3>2. CASE j < Len(out)
      <4>1. j \in 1 .. Len(out) - 1 /\ j + 1 \in 1 .. Len(out)
        BY <2>7, <3>2
      <4>2. QED
        BY <1>1, <2>7, <4>1 DEF Older, Fifo
    <3>3. QED
      BY <2>7, <3>1, <3>2
  <2>10. Fifo'
    <3>1. \A j \in 1 .. Len(out') : Whole(out'[j])
      BY <2>7, <2>8
    <3>2. \A j \in 1 .. Len(out') - 1 : out'[j][1] < out'[j + 1][1]
      BY <2>7, <2>9
    <3>3. QED
      BY <3>1, <3>2 DEF Fifo, Whole
  <2>11. head' = head + 1
    BY <2>1, <2>2
  <2>12. QED
    BY <2>1, <2>7, <2>8, <2>10, <2>11 DEF Older
<1>5. CASE PutTail
  <2>1. /\ tail' = tail + 1 /\ sent' = Append(sent, puts) /\ ppc = "write"
        /\ ppc' = "idle" /\ UNCHANGED <<head, out, puts>>
    BY <1>5 DEF PutTail
  <2>2. sent'[tail + 1] = puts /\ \A c \in 1 .. tail : sent'[c] = sent[c]
    BY <1>1, <2>1 DEF SentInv
  <2>3. ASSUME NEW j \in 1 .. Len(out), NEW c \in 1 .. tail + 1, c > head
        PROVE  out[j][1] < sent'[c]
    <3>1. CASE c = tail + 1
      BY <1>1, <2>1, <2>2, <3>1 DEF Older
    <3>2. CASE c \in 1 .. tail
      BY <1>1, <2>2, <2>3, <3>2 DEF Older
    <3>3. QED
      BY <1>1, <3>1, <3>2
  <2>4. Fifo'
    BY <1>1, <2>1 DEF Older, Fifo, Whole
  <2>5. \A j \in 1 .. Len(out) : out[j][1] <= puts
    BY <1>1 DEF Older
  <2>6. QED
    BY <2>1, <2>3, <2>4, <2>5 DEF Older
<1>6. CASE PutCall
  <2>1. UNCHANGED <<head, tail, sent, out>> /\ puts' = puts + 1
    BY <1>6 DEF PutCall, memory
  <2>2. Fifo'
    BY <1>1, <2>1 DEF Older, Fifo, Whole
  <2>3. ASSUME NEW j \in 1 .. Len(out)
        PROVE  /\ out[j][1] <= puts + 1 /\ out[j][1] < puts + 1
               /\ \A c \in 1 .. tail : c > head => out[j][1] < sent[c]
    <3>1. out[j][1] <= puts /\ out[j][1] \in Nat
      BY <1>1, <1>3 DEF Older
    <3>2. \A c \in 1 .. tail : c > head => out[j][1] < sent[c]
      BY <1>1 DEF Older
    <3>3. QED
      BY <1>1, <3>1, <3>2
  <2>4. QED
    BY <2>1, <2>2, <2>3 DEF Older
<1>7. CASE ~GetAdvance /\ ~PutTail /\ ~PutCall
  <2>1. UNCHANGED <<tail, sent, out, puts>> /\ (ppc' # "idle" => ppc # "idle")
    BY <1>7 DEF Next, Producer, Consumer, PutDrop, PutWord, PutAbandoned,
                ProducerClear, GetHead, GetTail, GetWord, PeekReturn, ClearTail,
                ClearHead, memory, producer
  <2>2. \A c \in 1 .. tail : c > head' => c > head
    BY <1>1
  <2>3. Fifo'
    BY <1>1, <2>1 DEF Older, Fifo, Whole
  <2>4. QED
    BY <1>1, <2>1, <2>2, <2>3 DEF Older
<1>8. QED
  BY <1>4, <1>5, <1>6, <1>7
-----------------------------------------------------------------------------
(* Inv is inductive. *)
LEMMA Step ==
  ASSUME Inv, [Next]_vars
  PROVE  Inv'
<1>1. CASE Next
  <2>1. TypeOK' /\ CursorInv' /\ SentInv'
    BY <1>1, Typed, CursorsStep, SentStep DEF Inv
  <2>2. raced => raced'
    BY <1>1 DEF Next, Producer, Consumer, PutCall, PutDrop, PutWord, PutTail,
                PutAbandoned, ProducerClear, GetHead, GetTail, GetWord, GetAdvance,
                PeekReturn, ClearTail, ClearHead
  <2>3. ~raced' => RaceFree'
    BY <1>1, <2>2, AimStep, RoomStep, ContentStep, ReadsStep, OlderStep DEF RaceFree
  <2>4. QED
    BY <2>1, <2>3 DEF Inv
<1>2. CASE UNCHANGED vars
  BY <1>2 DEF Inv, TypeOK, CursorInv, SentInv, RaceFree, Aim, Room, Content, Reads,
              Older, Fifo, Whole, vars, memory, producer, consumer
<1>3. QED
  BY <1>1, <1>2

(* Inv is an invariant. *)
LEMMA Invariant == Spec => []Inv
<1>1. Init => Inv
  BY InitInv
<1>2. Inv /\ [Next]_vars => Inv'
  BY Step
<1>3. QED
  BY <1>1, <1>2, PTL DEF Spec

(* The cursors, slots and copies of the queue keep their types, although   *)
(* put(), get() and clear() of two processes write them with no lock       *)
(* (queue.py).                                                             *)
THEOREM QueueTypes == Spec => []TypeOK
<1>1. Inv => TypeOK
  BY DEF Inv
<1>2. QED
  BY <1>1, Invariant, PTL

(* The cursors never cross, although put(), get() and clear() of two       *)
(* processes write head with no lock between them (queue.py).              *)
THEOREM CursorsStayOrdered == Spec => []CursorsOrdered
<1>1. Inv => CursorsOrdered
  BY DEF Inv, CursorInv, CursorsOrdered
<1>2. QED
  BY <1>1, Invariant, PTL

(* The queue is first in, first out and its commands are whole, as long as *)
(* the producer has not dropped a command or cleared the queue during a    *)
(* call of the consumer.                                                   *)
THEOREM FirstInFirstOut == Spec => []FifoUnlessRaced
<1>1. Inv => FifoUnlessRaced
  BY DEF Inv, RaceFree, Older, FifoUnlessRaced
<1>2. QED
  BY <1>1, Invariant, PTL

(* Until then it never holds more commands than it has slots, so that no   *)
(* command still to be returned has been overwritten (put()).              *)
THEOREM WithinCapacity == Spec => [](~raced => tail - head <= BufferSize)
<1>1. Inv => (~raced => tail - head <= BufferSize)
  BY DEF Inv, RaceFree, Room
<1>2. QED
  BY <1>1, Invariant, PTL
-----------------------------------------------------------------------------
(***************************************************************************)
(* The bounded queue that it implements.                                   *)
(***************************************************************************)
(* Each put() under way has a number, and drops a command only where the   *)
(* queue it saw was full.                                                  *)
PutInv ==
  /\ puts <= MaxPuts
  /\ ppc # "idle" => puts >= 1
  /\ ppc = "drop" => tail - phead >= BufferSize

(* PutInv is inductive, whatever races there are. *)
LEMMA PutStep ==
  ASSUME TypeOK, PutInv, [Next]_vars
  PROVE  PutInv'
<1>1. /\ head \in Nat /\ tail \in Nat /\ phead \in Nat /\ puts \in Nat
      /\ MaxPuts \in Nat /\ BufferSize \in Nat \ {0}
  BY ConstantsAssumption DEF TypeOK
<1>2. CASE Producer
  BY <1>1, <1>2
     DEF Producer, PutCall, PutDrop, PutWord, PutTail, PutAbandoned, ProducerClear,
         PutInv, memory, producer
<1>3. CASE Consumer \/ UNCHANGED vars
  <2>1. UNCHANGED <<tail, ppc, phead, puts>>
    BY <1>3
       DEF Consumer, GetHead, GetTail, GetWord, GetAdvance, PeekReturn, ClearTail,
           ClearHead, vars, memory, producer
  <2>2. QED
    BY <2>1 DEF PutInv
<1>4. QED
  BY <1>2, <1>3 DEF Next

AllCommands == {Command(n) : n \in Nat}

(* A sequence of the commands that were sent after the n-th. *)
IsHeld(q, n) ==
  /\ q \in Seq(AllCommands) /\ Len(q) = tail - n
  /\ \A i \in 1 .. tail - n : q[i] = Command(sent[n + i])

(* The commands between the cursors are one. *)
LEMMA HeldIs == Inv => IsHeld(Held, head)
<1> SUFFICES ASSUME Inv PROVE IsHeld(Held, head)
  OBVIOUS
<1>1. /\ head \in Nat /\ tail \in Nat /\ head <= tail /\ tail - head \in Nat
      /\ sent \in Seq(Nat) /\ Len(sent) = tail
  BY DEF Inv, TypeOK, CursorInv, SentInv
<1>2. ASSUME NEW i \in 1 .. tail - head
      PROVE  Command(sent[head + i]) \in AllCommands
  <2>1. head + i \in 1 .. Len(sent)
    BY <1>1
  <2>2. sent[head + i] \in Nat
    BY <1>1, <2>1
  <2>3. QED
    BY <2>2 DEF AllCommands
<1> DEFINE n == tail - head
           e(i) == Command(sent[head + i])
<1>3. [i \in 1 .. n |-> e(i)] \in Seq(AllCommands)
  <2>1. \A i \in 1 .. n : e(i) \in AllCommands
    BY <1>2
  <2>2. n \in Nat
    BY <1>1
  <2> HIDE DEF n, e
  <2>3. QED
    BY <2>1, <2>2, IsASeq
<1>4. Held = [i \in 1 .. n |-> e(i)]
  BY DEF Held
<1>5. Held \in Seq(AllCommands) /\ DOMAIN Held = 1 .. n
  BY <1>3, <1>4
<1>6. Len(Held) = n
  BY <1>1, <1>5, LenProperties
<1>7. QED
  BY <1>4, <1>5, <1>6 DEF IsHeld

(* A step that leaves the cursors leaves the commands. *)
LEMMA HeldStays ==
  ASSUME UNCHANGED <<head, tail, sent>>
  PROVE  Held' = Held
BY DEF Held

(* When head moves on, the commands before it are gone. *)
LEMMA HeldDrops ==
  ASSUME Inv, Inv', NEW n \in Nat, head' = head + n, UNCHANGED <<tail, sent>>
  PROVE  /\ n <= Len(Held)
         /\ Held' = SubSeq(Held, n + 1, Len(Held))
<1>1. head \in Nat /\ tail \in Nat /\ head' \in Nat /\ head' <= tail
  BY DEF Inv, TypeOK, CursorInv
<1>2. /\ Held \in Seq(AllCommands) /\ Len(Held) = tail - head
      /\ \A i \in 1 .. tail - head : Held[i] = Command(sent[head + i])
  BY HeldIs DEF IsHeld
<1>3. /\ Held' \in Seq(AllCommands) /\ Len(Held') = tail - head'
      /\ \A i \in 1 .. tail - head' : Held'[i] = Command(sent[head' + i])
  <2>1. IsHeld(Held, head)'
    BY HeldIs, PTL
  <2>2. QED
    BY <2>1 DEF IsHeld, Command, AllCommands
<1>4. /\ SubSeq(Held, n + 1, Len(Held)) \in Seq(AllCommands)
      /\ Len(SubSeq(Held, n + 1, Len(Held))) = Len(Held) - n
      /\ \A i \in 1 .. Len(Held) - n : SubSeq(Held, n + 1, Len(Held))[i] = Held[n + i]
  BY <1>1, <1>2, SubSeqProperties
<1>5. QED
  BY <1>1, <1>2, <1>3, <1>4, SeqEqual


(* put() adds its command at the end. *)
LEMMA HeldGrows ==
  ASSUME Inv, Inv', PutTail
  PROVE  Held' = Append(Held, Command(puts))
<1>1. /\ head \in Nat /\ tail \in Nat /\ head <= tail /\ puts \in Nat
      /\ sent \in Seq(Nat) /\ Len(sent) = tail
      /\ head' = head /\ tail' = tail + 1 /\ sent' = Append(sent, puts)
  BY DEF Inv, TypeOK, CursorInv, SentInv, PutTail
<1>2. /\ Held \in Seq(AllCommands) /\ Len(Held) = tail - head
      /\ \A i \in 1 .. tail - head : Held[i] = Command(sent[head + i])
  BY HeldIs DEF IsHeld
<1>3. Command(puts) \in AllCommands
  BY <1>1 DEF AllCommands
<1>4. /\ Append(Held, Command(puts)) \in Seq(AllCommands)
      /\ Len(Append(Held, Command(puts))) = Len(Held) + 1
      /\ \A i \in 1 .. Len(Held) : Append(Held, Command(puts))[i] = Held[i]
      /\ Append(Held, Command(puts))[Len(Held) + 1] = Command(puts)
  BY <1>2, <1>3, AppendProperties
<1>5. /\ Held' \in Seq(AllCommands) /\ Len(Held') = tail + 1 - head
      /\ \A i \in 1 .. tail + 1 - head : Held'[i] = Command(sent'[head + i])
  <2>1. IsHeld(Held, head)'
    BY HeldIs, PTL
  <2>2. /\ Held' \in Seq(AllCommands) /\ Len(Held') = tail' - head'
        /\ \A i \in 1 .. tail' - head' : Held'[i] = Command(sent'[head' + i])
    BY <2>1 DEF IsHeld, Command, AllCommands
  <2>3. QED
    BY <1>1, <2>2
<1> DEFINE more == Append(Held, Command(puts))
           next == Held'
<1>6. ASSUME NEW i \in 1 .. tail + 1 - head
      PROVE  next[i] = more[i]
  <2>1. next[i] = Command(sent'[head + i])
    BY <1>5
  <2>2. CASE i = tail + 1 - head
    <3>1. sent'[head + i] = puts
      BY <1>1, <2>2
    <3>2. more[i] = Command(puts)
      <4>1. i = Len(Held) + 1
        BY <1>1, <1>2, <2>2
      <4>2. QED
        BY <1>4, <4>1, Zenon
    <3>3. QED
      BY <2>1, <3>1, <3>2, Zenon
  <2>3. CASE i \in 1 .. tail - head
    <3>1. sent'[head + i] = sent[head + i]
      <4>1. head + i \in 1 .. Len(sent)
        BY <1>1, <2>3
      <4>2. QED
        BY <1>1, <4>1, AppendProperties
    <3>2. more[i] = Held[i]
      BY <1>2, <1>4, <2>3
    <3>3. Held[i] = Command(sent[head + i])
      BY <1>2, <2>3
    <3>4. QED
      BY <2>1, <3>1, <3>2, <3>3, Zenon
  <2>4. i = tail + 1 - head \/ i \in 1 .. tail - head
    BY <1>1
  <2>5. QED
    BY <2>2, <2>3, <2>4, Zenon
<1>7. QED
  BY <1>1, <1>2, <1>4, <1>5, <1>6, SeqEqual

(* Without a race each step is a step of the bounded queue, or none. *)
LEMMA QueueStep ==
  ASSUME Inv, Inv', PutInv, Next, ~raced'
  PROVE  Queue!Next \/ UNCHANGED Queue!vars
<1>0. ~raced
  BY DEF Next, Producer, Consumer, PutCall, PutDrop, PutWord, PutTail, PutAbandoned,
         ProducerClear, GetHead, GetTail, GetWord, GetAdvance, PeekReturn, ClearTail,
         ClearHead
<1>1. /\ head \in Nat /\ tail \in Nat /\ phead \in Nat /\ chead \in Nat
      /\ head <= tail /\ chead <= tail /\ puts \in Nat
      /\ BufferSize \in Nat \ {0} /\ Aim /\ Room
  BY <1>0, ConstantsAssumption DEF Inv, TypeOK, CursorInv, RaceFree
<1>2. Held \in Seq(AllCommands) /\ Len(Held) = tail - head
  BY HeldIs DEF IsHeld
<1> DEFINE doom == IF cpc = "clear" THEN chead - head ELSE 0
<1>3. CASE PutTail
  <2>1. puts \in 1 .. MaxPuts /\ Len(Held) < BufferSize
    BY <1>1, <1>2, <1>3, ConstantsAssumption DEF PutTail, PutInv, Room
  <2>2. UNCHANGED <<out, doom, clears>>
    BY <1>3 DEF PutTail, consumer
  <2>3. Queue!Put
    BY <1>3, <2>1, <2>2, HeldGrows DEF Queue!Put
  <2>4. QED
    BY <2>3 DEF Queue!Next
<1>4. CASE PutDrop
  <2>1. cpc = "idle" /\ head = phead
    BY <1>4, Zenon DEF PutDrop
  <2>2. head' = head + 1 /\ UNCHANGED <<tail, sent, out, cpc, clears>>
    BY <1>4, <2>1 DEF PutDrop, consumer
  <2>3. Len(Held) = BufferSize
    BY <1>1, <1>2, <1>4, <2>1 DEF PutDrop, PutInv, Room
  <2>4. Held' = SubSeq(Held, 2, Len(Held))
    BY <2>2, HeldDrops
  <2>5. Held # <<>>
    BY <1>1, <2>3
  <2>6. Held' = Tail(Held)
    BY <1>2, <2>4, <2>5, TailIsSubSeq
  <2>7. Queue!MakeRoom
    BY <2>1, <2>2, <2>3, <2>6 DEF Queue!MakeRoom
  <2>8. QED
    BY <2>7 DEF Queue!Next
<1>5. CASE ProducerClear
  <2>1. cpc = "idle"
    BY <1>5, Zenon DEF ProducerClear
  <2>2. head' = head + Len(Held) /\ Len(Held) \in Nat
        /\ clears' = clears + 1 /\ UNCHANGED <<tail, sent, out, cpc>>
    BY <1>1, <1>2, <1>5 DEF ProducerClear, consumer
  <2>3. Held' = SubSeq(Held, Len(Held) + 1, Len(Held))
    BY <2>2, HeldDrops
  <2>4. Held' = <<>>
    BY <2>2, <2>3, SubSeqEmpty
  <2>5. Queue!Clear
    BY <2>1, <2>2, <2>4 DEF Queue!Clear
  <2>6. QED
    BY <2>5 DEF Queue!Next
<1>6. CASE GetAdvance
  <2>1. /\ cpc = "get" /\ cpc' = "idle" /\ ci > NumWords /\ head' = chead + 1
        /\ out' = Append(out, cmd) /\ UNCHANGED <<tail, sent, clears>>
    BY <1>6 DEF GetAdvance
  <2>2. chead = head /\ head < tail
    BY <1>1, <2>1 DEF Aim, Getting, Taking, Inv, CursorInv
  <2>3. cmd = Command(sent[head + 1])
    <3>1. ci \in Nat /\ cmd \in [Words -> Nat]
      BY DEF Inv, TypeOK
    <3>2. \A w \in Words : cmd[w] = sent[head + 1]
      BY <1>0, <2>1, <2>2, <3>1, ConstantsAssumption
         DEF Inv, RaceFree, Reads, Taking, Words
    <3>3. QED
      BY <3>1, <3>2 DEF Command
  <2>4. Held # <<>> /\ Held[1] = cmd
    BY <1>1, <1>2, <2>2, <2>3, HeldIs DEF IsHeld
  <2>5. Held' = SubSeq(Held, 2, Len(Held))
    BY <2>1, <2>2, HeldDrops
  <2>6. Held' = Tail(Held) /\ Head(Held) = cmd
    BY <1>2, <2>4, <2>5, TailIsSubSeq
  <2>7. Queue!Get
    BY <2>1, <2>4, <2>6 DEF Queue!Get
  <2>8. QED
    BY <2>7 DEF Queue!Next
<1>7. CASE ClearTail
  <2>1. Held' = Held
    BY <1>7, HeldStays DEF ClearTail, memory
  <2>2. out' = out /\ doom' = Len(Held) /\ clears' = clears + 1
    BY <1>2, <1>7 DEF ClearTail, memory
  <2>3. Queue!ClearCall
    BY <2>1, <2>2 DEF Queue!ClearCall
  <2>4. QED
    BY <2>3 DEF Queue!Next
<1>8. CASE ClearHead
  <2>1. /\ doom = chead - head /\ doom \in Nat /\ head' = head + doom
        /\ doom' = 0 /\ UNCHANGED <<tail, sent, out, clears>>
    BY <1>1, <1>8 DEF ClearHead, Aim
  <2>2. Held' = SubSeq(Held, doom + 1, Len(Held))
    <3> HIDE DEF doom
    <3> QED
      BY <2>1, HeldDrops
  <2>3. Queue!ClearDone
    BY <2>1, <2>2 DEF Queue!ClearDone
  <2>4. QED
    BY <2>3 DEF Queue!Next
<1>9. CASE PutCall \/ PutWord \/ PutAbandoned \/ GetHead \/ GetTail \/ GetWord
           \/ PeekReturn
  <2>1. UNCHANGED <<head, tail, sent, out, clears>>
    BY <1>9
       DEF PutCall, PutWord, PutAbandoned, GetHead, GetTail, GetWord, PeekReturn,
           memory
  <2>2. doom' = doom
    BY <1>9
       DEF PutCall, PutWord, PutAbandoned, GetHead, GetTail, GetWord, PeekReturn,
           memory, consumer
  <2>3. Held' = Held
    BY <2>1, HeldStays
  <2>4. QED
    BY <2>1, <2>2, <2>3 DEF Queue!vars
<1>10. QED
  BY <1>3, <1>4, <1>5, <1>6, <1>7, <1>8, <1>9 DEF Next, Producer, Consumer

(* Until the producer moves head inside a call of the consumer, the two    *)
(* processes with their words and cursors and no lock between them         *)
(* implement a bounded queue of whole commands: nothing is lost but what a *)
(* full queue drops, and nothing comes twice or out of order (queue.py).   *)
THEOREM QueueImplements == Spec => QueueSpec
<1>1. Init => PutInv
  BY ConstantsAssumption DEF Init, PutInv
<1>2. Init => Queue!Init
  <2>1. SUFFICES ASSUME Init PROVE Held = <<>>
    BY DEF Init, Queue!Init
  <2>2. IsHeld(Held, head)
    BY <2>1, InitInv, HeldIs
  <2>3. head = 0 /\ tail = 0
    BY <2>1 DEF Init
  <2>4. Held \in Seq(AllCommands) /\ Len(Held) = 0
    BY <2>2, <2>3 DEF IsHeld
  <2>5. QED
    BY <2>4, EmptySeq
<1>3. Inv /\ Inv' /\ PutInv /\ [Next]_vars => [~raced' => Queue!Next]_(Queue!vars)
  <2>1. SUFFICES ASSUME Inv, Inv', PutInv, [Next]_vars, ~raced'
                 PROVE  Queue!Next \/ UNCHANGED Queue!vars
    BY Zenon
  <2>2. CASE UNCHANGED vars
    BY <2>2, HeldStays DEF vars, memory, consumer, Queue!vars
  <2>3. CASE Next
    BY <2>1, <2>3, QueueStep
  <2>4. QED
    BY <2>1, <2>2, <2>3
<1>4. TypeOK /\ PutInv /\ [Next]_vars => PutInv'
  BY PutStep
<1>5. QED
  BY <1>1, <1>2, <1>3, <1>4, Invariant, QueueTypes, PTL DEF Spec, QueueSpec
=============================================================================
