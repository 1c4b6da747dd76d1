--------------------------- MODULE IdeDriver_proofs ---------------------------
(***************************************************************************)
(* Proofs about IdeDriver: an interrupt-driven driver is one of the guests *)
(* EidePath allows, and every interrupt it gets has work behind it and all *)
(* of its work an interrupt.                                               *)
(***************************************************************************)
EXTENDS IdeDriver, EidePath_proofs

(* The handler orders that touch the data last.                            *)
DataLast == Orders \subseteq {<<"ack", "status", "data">>, <<"status", "ack", "data">>}

(* What the driver may still have to do: program the transfer, or the rest *)
(* of a handler, with Status read or not.                                  *)
Programs == {<<"address", "count", "command">>, <<"count", "command">>, <<"command">>}
Unread   == {<<"ack", "status", "data">>, <<"status", "ack", "data">>, <<"status", "data">>}
Read     == {<<"ack", "data">>, <<"data">>}

LEMMA Todos ==
  ASSUME NEW t \in Programs \cup Unread \cup Read
  PROVE  /\ t # <<>>
         /\ Head(t) = "address" => t \in Programs /\ Tail(t) = <<"count", "command">>
         /\ Head(t) = "count"   => t \in Programs /\ Tail(t) = <<"command">>
         /\ Head(t) = "command" => t \in Programs /\ Tail(t) = <<>>
         /\ Head(t) = "status"  => t \in Unread /\ Tail(t) \in Read
         /\ Head(t) = "data"    => t \in Read /\ Tail(t) = <<>>
         /\ Head(t) = "ack"     => \/ t \in Unread /\ Tail(t) \in Unread
                                   \/ t \in Read /\ Tail(t) \in Read
<1>1. ASSUME NEW x, NEW y, NEW z
      PROVE  /\ Head(<<x, y, z>>) = x /\ Tail(<<x, y, z>>) = <<y, z>> /\ <<x, y, z>> # <<>>
             /\ Head(<<x, y>>) = x /\ Tail(<<x, y>>) = <<y>> /\ <<x, y>> # <<>>
             /\ Head(<<x>>) = x /\ Tail(<<x>>) = <<>> /\ <<x>> # <<>>
  OBVIOUS
<1>2. CASE t = <<"address", "count", "command">>
  <2>1. Head(t) = "address" /\ Tail(t) = <<"count", "command">> /\ t # <<>>
    BY <1>1, <1>2
  <2>2. t \in Programs
    BY <1>2, <2>1, Zenon DEF Programs
  <2> QED BY <2>1, <2>2
<1>3. CASE t = <<"count", "command">>
  <2>1. Head(t) = "count" /\ Tail(t) = <<"command">> /\ t # <<>>
    BY <1>1, <1>3
  <2>2. t \in Programs
    BY <1>3, <2>1, Zenon DEF Programs
  <2> QED BY <2>1, <2>2
<1>4. CASE t = <<"command">>
  <2>1. Head(t) = "command" /\ Tail(t) = <<>> /\ t # <<>>
    BY <1>1, <1>4
  <2>2. t \in Programs
    BY <1>4, <2>1, Zenon DEF Programs
  <2> QED BY <2>1, <2>2
<1>5. CASE t = <<"ack", "status", "data">>
  <2>1. Head(t) = "ack" /\ Tail(t) = <<"status", "data">> /\ t # <<>>
    BY <1>1, <1>5
  <2>2. t \in Unread /\ Tail(t) \in Unread
    BY <1>5, <2>1, Zenon DEF Unread
  <2> QED BY <2>1, <2>2
<1>6. CASE t = <<"status", "ack", "data">>
  <2>1. Head(t) = "status" /\ Tail(t) = <<"ack", "data">> /\ t # <<>>
    BY <1>1, <1>6
  <2>2. t \in Unread /\ Tail(t) \in Read
    BY <1>6, <2>1, Zenon DEF Unread, Read
  <2> QED BY <2>1, <2>2
<1>7. CASE t = <<"status", "data">>
  <2>1. Head(t) = "status" /\ Tail(t) = <<"data">> /\ t # <<>>
    BY <1>1, <1>7
  <2>2. t \in Unread /\ Tail(t) \in Read
    BY <1>7, <2>1, Zenon DEF Unread, Read
  <2> QED BY <2>1, <2>2
<1>8. CASE t = <<"ack", "data">>
  <2>1. Head(t) = "ack" /\ Tail(t) = <<"data">> /\ t # <<>>
    BY <1>1, <1>8
  <2>2. t \in Read /\ Tail(t) \in Read
    BY <1>8, <2>1, Zenon DEF Read
  <2> QED BY <2>1, <2>2
<1>9. CASE t = <<"data">>
  <2>1. Head(t) = "data" /\ Tail(t) = <<>> /\ t # <<>>
    BY <1>1, <1>9
  <2>2. t \in Read
    BY <1>9, <2>1, Zenon DEF Read
  <2> QED BY <2>1, <2>2
<1> QED BY <1>2, <1>3, <1>4, <1>5, <1>6, <1>7, <1>8, <1>9, Zenon DEF Programs, Unread, Read

-------------------------------------------------------------------------------
(* Division by the words of a sector: what a remainder is.                 *)
LEMMA Times ==
  ASSUME NEW a \in Int, NEW n \in Nat \ {0}, a >= 1
  PROVE  a * n >= n /\ (a - 1) * n = a * n - n
OBVIOUS

LEMMA DivMod ==
  ASSUME NEW a \in Nat, NEW n \in Nat \ {0}
  PROVE  a = n * (a \div n) + (a % n) /\ a % n \in 0 .. n - 1 /\ a \div n \in Nat
OBVIOUS

LEMMA OneRemainder ==
  ASSUME NEW a \in Int, NEW b \in Int, NEW n \in Nat \ {0},
         NEW r \in 0 .. n - 1, NEW s \in 0 .. n - 1, a * n + r = b * n + s
  PROVE  r = s
<1>1. ASSUME NEW c \in Int, c * n < n, c * n > -n
      PROVE  c = 0
  <2>1. CASE c >= 1
    BY <1>1, <2>1, Times
  <2>2. CASE c <= -1
    <3>1. (-c) * n >= n
      BY <2>2, Times
    <3>2. (-c) * n = -(c * n)
      OBVIOUS
    <3> QED BY <1>1, <3>1, <3>2
  <2> QED BY <2>1, <2>2
<1>2. (a - b) * n = s - r
  OBVIOUS
<1>3. a - b = 0
  BY <1>1, <1>2
<1> QED BY <1>3

LEMMA Remainder ==
  ASSUME NEW k \in Int, NEW n \in Nat \ {0}, NEW s \in 0 .. n - 1, k * n + s \in Nat
  PROVE  (k * n + s) % n = s
<1> DEFINE x == k * n + s
           q == x \div n
           r == x % n
<1>1. x \in Nat
  OBVIOUS
<1> HIDE DEF x
<1>2. x = n * q + r /\ r \in 0 .. n - 1 /\ q \in Nat
  BY <1>1, DivMod
<1> HIDE DEF q, r
<1>3. n * q = q * n
  BY <1>2
<1>4. k * n + s = q * n + r
  BY <1>2, <1>3 DEF x
<1>5. r = s
  BY <1>2, <1>4, OneRemainder
<1> QED BY <1>5 DEF r, x

(* A sector is a whole number of words, at least one.                      *)
LEMMA Words == WordsPerSector \in Nat \ {0} /\ SectorBytes = 2 * WordsPerSector
BY IdeDriveAssumption, IdeDriverAssumption DEF WordsPerSector

-------------------------------------------------------------------------------
(* A drive nobody has told to use DMA or eight-bit transfers.              *)
Pio(d) == ~d.dma /\ ~d.eightbit /\ ~d.dmarq /\ ~d.dmaPending

(* The drive's side of a transfer of c sectors, m words of which are moved:*)
(* either it offers the next word, or all of them are.                     *)
Offers(d, k, c, m) ==
  /\ d.state = IF k = "ReadSectors" THEN "ReadReady" ELSE "WriteReady"
  /\ "DRQ" \in d.status
  /\ d.remaining >= 1
  /\ \E q \in 0 .. WordsPerSector - 1 :
       /\ d.pos = 2 * q
       /\ m + d.remaining * WordsPerSector - q = c * WordsPerSector

(* What a byte of the data register does, in a sector and at its end.      *)
ByteMoved(d, e) ==
  /\ Pio(e)
  /\ d.pos + 1 < SectorBytes =>
       /\ e.fault = "none" /\ e.state = d.state /\ e.pos = d.pos + 1
       /\ e.remaining = d.remaining /\ e.status = d.status /\ e.irq = d.irq
  /\ d.pos + 1 = SectorBytes /\ e.fault = "none" =>
       /\ e.irq
       /\ d.remaining = 1 => e.state = "Idle"
       /\ d.remaining # 1 => /\ e.state = d.state /\ e.pos = 0 /\ "DRQ" \in e.status
                             /\ e.remaining = d.remaining - 1

LEMMA ReadByte ==
  ASSUME NEW d, Good(d), Pio(d), d.fault = "none", d.state = "ReadReady"
  PROVE  ByteMoved(d, DataRead8(d))
<1> DEFINE read   == [d EXCEPT !.pos = @ + 1]
           left   == [read EXCEPT !.remaining = @ - 1]
           idle   == SetStatus(left, {}, {"BSY"})
           busy   == [SetStatus(left, {"BSY"}, {"DRQ"}) EXCEPT !.state = "ReadAsyncLoad"]
           loaded == ReadBlock(busy)
           open   == SetStatus(loaded, {"DRQ"}, {"BSY"})
<1>1. /\ DOMAIN read = Fields /\ read.pos = d.pos + 1 /\ read.remaining = d.remaining
      /\ read.fault = "none" /\ read.state = d.state /\ read.status = d.status
      /\ read.irq = d.irq /\ Pio(read)
  BY DEF Good, Shaped, Fields, Pio
<1>2. d.pos < SectorBytes /\ d.pos \in Nat /\ d.remaining \in Nat /\ d.remaining >= 1
  BY DEF Good, Sound, Shaped, RoomLeft, Transferring
<1>3. DataRead8(d) = IF read.pos < SectorBytes THEN read ELSE EndReadSector(read)
  BY <1>2 DEF DataRead8, Try
<1> HIDE DEF read
<1>4. CASE d.pos + 1 < SectorBytes
  BY <1>1, <1>2, <1>3, <1>4, IdeDriveAssumption DEF ByteMoved
<1>5. CASE d.pos + 1 = SectorBytes
  <2>0. DataRead8(d) = EndReadSector(read)
    BY <1>1, <1>3, <1>5, IdeDriveAssumption
  <2>1. /\ DOMAIN left = Fields /\ left.remaining = d.remaining - 1 /\ left.fault = "none"
        /\ Pio(left)
    BY <1>1 DEF Pio, Fields
  <2>2. CASE d.remaining = 1
    <3>1. EndReadSector(read) = Finish(idle)
      BY <1>1, <2>2 DEF EndReadSector
    <3> HIDE DEF left
    <3>2. Pio(Finish(idle)) /\ Finish(idle).irq /\ Finish(idle).state = "Idle"
      BY <2>1 DEF Finish, PulseIrq, SetStatus, Pio, Fields
    <3> QED BY <1>5, <2>0, <2>2, <3>1, <3>2, IdeDriveAssumption DEF ByteMoved
  <2>3. CASE d.remaining # 1
    <3>1. EndReadSector(read) = Try(loaded, PulseUnlessDma(open))
      BY <1>1, <1>2, <2>3 DEF EndReadSector
    <3> HIDE DEF left
    <3>2. /\ DOMAIN busy = Fields /\ busy.remaining = d.remaining - 1 /\ busy.fault = "none"
          /\ Pio(busy)
      BY <2>1 DEF SetStatus, Pio, Fields
    <3> HIDE DEF busy
    <3>3. /\ DOMAIN loaded = Fields /\ Pio(loaded)
          /\ loaded.fault = "none" => /\ loaded.state = "ReadReady" /\ loaded.pos = 0
                                      /\ loaded.remaining = d.remaining - 1
      BY <3>2 DEF ReadBlock, Fail, Pio, Fields
    <3> HIDE DEF loaded
    <3>4. CASE loaded.fault # "none"
      BY <1>5, <2>0, <3>1, <3>3, <3>4, IdeDriveAssumption DEF Try, ByteMoved
    <3>5. CASE loaded.fault = "none"
      <4>1. EndReadSector(read) = PulseIrq(open)
        <5>1. open.dma = loaded.dma
          BY <3>3 DEF SetStatus, Fields
        <5> QED BY <3>1, <3>3, <3>5, <5>1 DEF Try, PulseUnlessDma, Pio
      <4>2. /\ Pio(PulseIrq(open)) /\ PulseIrq(open).irq
            /\ PulseIrq(open).state = "ReadReady" /\ PulseIrq(open).pos = 0
            /\ "DRQ" \in PulseIrq(open).status
            /\ PulseIrq(open).remaining = d.remaining - 1
        BY <3>3, <3>5 DEF PulseIrq, SetStatus, Pio, Fields
      <4> QED BY <1>5, <2>0, <2>3, <4>1, <4>2, IdeDriveAssumption DEF ByteMoved
    <3> QED BY <3>4, <3>5
  <2> QED BY <2>2, <2>3
<1> QED BY <1>2, <1>4, <1>5, IdeDriveAssumption

LEMMA WriteByte ==
  ASSUME NEW d, Good(d), Pio(d), d.fault = "none", d.state = "WriteReady"
  PROVE  ByteMoved(d, DataWrite8(d))
<1> DEFINE written == [d EXCEPT !.pos = @ + 1, !.buf = GuestData]
           busy    == [SetStatus(written, {"BSY"}, {"DRQ"}) EXCEPT !.state = "WriteAsyncFlush"]
           flushed == WriteBlock(busy)
           open    == SetStatus(flushed, {"DRQ"}, {"BSY"})
           pulsed  == PulseUnlessDma(open)
           left    == [pulsed EXCEPT !.remaining = @ - 1]
<1>1. /\ DOMAIN written = Fields /\ written.pos = d.pos + 1 /\ written.remaining = d.remaining
      /\ written.fault = "none" /\ written.state = d.state /\ written.status = d.status
      /\ written.irq = d.irq /\ Pio(written)
  BY DEF Good, Shaped, Fields, Pio
<1>2. d.pos < SectorBytes /\ d.pos \in Nat /\ d.remaining \in Nat /\ d.remaining >= 1
  BY DEF Good, Sound, Shaped, RoomLeft, Transferring
<1>3. DataWrite8(d) = IF written.pos < SectorBytes THEN written ELSE EndWriteSector(written)
  BY <1>2 DEF DataWrite8, Try
<1> HIDE DEF written
<1>4. CASE d.pos + 1 < SectorBytes
  BY <1>1, <1>2, <1>3, <1>4, IdeDriveAssumption DEF ByteMoved
<1>5. CASE d.pos + 1 = SectorBytes
  <2>0. DataWrite8(d) = EndWriteSector(written)
    BY <1>1, <1>3, <1>5, IdeDriveAssumption
  <2>1. EndWriteSector(written) = IF flushed.fault # "none" THEN flushed
                                  ELSE IF left.remaining = 0 THEN Finish(left) ELSE left
    BY <1>1, <1>2 DEF EndWriteSector, Try
  <2>2. /\ DOMAIN busy = Fields /\ busy.remaining = d.remaining /\ busy.fault = "none"
        /\ Pio(busy)
    BY <1>1 DEF SetStatus, Pio, Fields
  <2> HIDE DEF busy
  <2>3. /\ DOMAIN flushed = Fields /\ Pio(flushed)
        /\ flushed.fault = "none" => /\ flushed.state = "WriteReady" /\ flushed.pos = 0
                                     /\ flushed.remaining = d.remaining
    BY <2>2 DEF WriteBlock, Fail, Pio, Fields
  <2> HIDE DEF flushed
  <2>4. CASE flushed.fault # "none"
    BY <1>5, <2>0, <2>1, <2>3, <2>4, IdeDriveAssumption DEF ByteMoved
  <2>5. CASE flushed.fault = "none"
    <3>1. pulsed = PulseIrq(open)
      <4>1. open.dma = flushed.dma
        BY <2>3 DEF SetStatus, Fields
      <4> QED BY <2>3, <4>1 DEF PulseUnlessDma, Pio
    <3>2. /\ DOMAIN pulsed = Fields /\ Pio(pulsed) /\ pulsed.irq /\ pulsed.state = "WriteReady"
          /\ pulsed.pos = 0 /\ pulsed.remaining = d.remaining /\ "DRQ" \in pulsed.status
      BY <2>3, <2>5, <3>1 DEF PulseIrq, SetStatus, Pio, Fields
    <3> HIDE DEF pulsed
    <3>3. /\ DOMAIN left = Fields /\ Pio(left) /\ left.irq /\ left.state = "WriteReady"
          /\ left.pos = 0 /\ left.remaining = d.remaining - 1 /\ "DRQ" \in left.status
      BY <3>2 DEF Pio, Fields
    <3> HIDE DEF left
    <3>4. Pio(Finish(left)) /\ Finish(left).irq /\ Finish(left).state = "Idle"
      BY <3>3 DEF Finish, PulseIrq, SetStatus, Pio, Fields
    <3> QED BY <1>2, <1>5, <2>0, <2>1, <2>5, <3>3, <3>4, IdeDriveAssumption DEF ByteMoved
  <2> QED BY <2>4, <2>5
<1> QED BY <1>2, <1>4, <1>5, IdeDriveAssumption

(* Two bytes are a word: m + 1 words are moved, and the drive interrupts   *)
(* exactly when they make up a sector.                                     *)
WordMoved(d, e, k, c, m) ==
  /\ Pio(e)
  /\ e.fault = "none" =>
       /\ m + 1 = c * WordsPerSector => e.state = "Idle" /\ (m + 1) % WordsPerSector = 0
       /\ m + 1 # c * WordsPerSector => Offers(e, k, c, m + 1)
       /\ IF (m + 1) % WordsPerSector = 0 THEN e.irq ELSE e.irq = d.irq

LEMMA TwoBytes ==
  ASSUME NEW d, NEW mid, NEW e, NEW k, NEW c \in Nat, NEW m \in Nat,
         Shaped(d), d.fault = "none", Offers(d, k, c, m),
         ByteMoved(d, mid), ByteMoved(mid, e)
  PROVE  WordMoved(d, e, k, c, m)
<1> DEFINE n == WordsPerSector
<1>0. n \in Nat \ {0} /\ SectorBytes = 2 * n
  BY Words
<1>1. PICK q \in 0 .. n - 1 : d.pos = 2 * q /\ m + d.remaining * n - q = c * n
  BY DEF Offers
<1>2. d.remaining \in Nat /\ d.remaining >= 1
  BY DEF Offers, Shaped
<1> HIDE DEF n
<1>3. /\ Pio(mid) /\ mid.fault = "none" /\ mid.state = d.state /\ mid.pos = 2 * q + 1
      /\ mid.remaining = d.remaining /\ mid.status = d.status /\ mid.irq = d.irq
  BY <1>0, <1>1 DEF ByteMoved
<1>4. Pio(e)
  BY DEF ByteMoved
<1>5. d.remaining * n >= n /\ (d.remaining - 1) * n = d.remaining * n - n
  BY <1>0, <1>2, Times
<1>6. d.remaining * n \in Nat /\ c * n \in Nat
  BY <1>0, <1>2
<1> DEFINE j == c - d.remaining
<1>7. j \in Int /\ j * n \in Int /\ m = j * n + q
  <2>1. d.remaining \in Int /\ n \in Int /\ c \in Int
    BY <1>0, <1>2
  <2>2. (c - d.remaining) * n = c * n - d.remaining * n
    BY <2>1
  <2>3. j \in Int /\ j * n \in Int
    BY <2>1
  <2> QED BY <1>1, <1>6, <2>2, <2>3
<1>10. (j + 1) * n = j * n + n
  BY <1>0, <1>7
<1> HIDE DEF j
<1> SUFFICES ASSUME e.fault = "none"
             PROVE  /\ m + 1 = c * n => e.state = "Idle" /\ (m + 1) % n = 0
                    /\ m + 1 # c * n => Offers(e, k, c, m + 1)
                    /\ IF (m + 1) % n = 0 THEN e.irq ELSE e.irq = d.irq
  BY <1>4 DEF WordMoved, n
<1>8. CASE q + 1 < n
  <2>1. /\ e.state = d.state /\ e.pos = 2 * (q + 1) /\ e.remaining = d.remaining
        /\ e.status = d.status /\ e.irq = d.irq
    BY <1>0, <1>3, <1>8 DEF ByteMoved
  <2>2. m + 1 = j * n + (q + 1) /\ q + 1 \in 0 .. n - 1
    BY <1>0, <1>7, <1>8
  <2>3. (m + 1) % n = q + 1
    BY <1>0, <1>7, <2>2, Remainder
  <2>4. m + 1 # c * n
    BY <1>0, <1>1, <1>5, <1>6, <1>8
  <2>5. m + 1 + e.remaining * n - (q + 1) = c * n
    BY <1>1, <1>6, <2>1
  <2>6. Offers(e, k, c, m + 1)
    BY <2>1, <2>2, <2>5 DEF Offers, n
  <2> QED BY <1>0, <2>1, <2>2, <2>3, <2>4, <2>6
<1>9. CASE q + 1 = n
  <2>1. /\ e.irq
        /\ d.remaining = 1 => e.state = "Idle"
        /\ d.remaining # 1 => /\ e.state = d.state /\ e.pos = 0 /\ "DRQ" \in e.status
                              /\ e.remaining = d.remaining - 1
    BY <1>0, <1>3, <1>9 DEF ByteMoved
  <2>2. m + 1 = (j + 1) * n + 0 /\ 0 \in 0 .. n - 1
    BY <1>0, <1>7, <1>9, <1>10
  <2>3. (m + 1) % n = 0
    <3>1. j + 1 \in Int /\ m + 1 \in Nat
      BY <1>7
    <3> HIDE DEF j
    <3> QED BY <1>0, <2>2, <3>1, Remainder
  <2>4. CASE d.remaining = 1
    <3>1. m + 1 = c * n
      BY <1>0, <1>1, <1>9, <2>4
    <3> QED BY <2>1, <2>3, <2>4, <3>1
  <2>5. CASE d.remaining # 1
    <3>1. e.remaining = d.remaining - 1 /\ e.remaining \in Nat /\ e.remaining >= 1
      BY <1>2, <2>1, <2>5
    <3>2. m + 1 + e.remaining * n - 0 = c * n
      BY <1>0, <1>1, <1>5, <1>6, <1>9, <3>1
    <3>3. e.remaining * n >= n /\ e.remaining * n \in Nat
      BY <1>0, <3>1, Times
    <3>4. m + 1 # c * n
      BY <1>0, <1>6, <3>2, <3>3
    <3>5. Offers(e, k, c, m + 1)
      BY <2>1, <2>2, <2>5, <3>1, <3>2 DEF Offers, n
    <3> QED BY <2>1, <2>3, <3>4, <3>5
  <2> QED BY <2>4, <2>5
<1> QED BY <1>0, <1>1, <1>8, <1>9

LEMMA WordIsMoved ==
  ASSUME NEW d, NEW k \in {"ReadSectors", "WriteSectors"}, NEW c \in Nat, NEW m \in Nat,
         Good(d), Pio(d), d.fault = "none", Offers(d, k, c, m)
  PROVE  WordMoved(d, IF k = "ReadSectors" THEN DataRead16(d) ELSE DataWrite16(d, FALSE), k, c, m)
<1>1. d.pos + 1 < SectorBytes /\ Shaped(d)
  BY Words DEF Offers, Good
<1>2. CASE k = "ReadSectors"
  <2>1. d.state = "ReadReady"
    BY <1>2 DEF Offers
  <2>2. ByteMoved(d, DataRead8(d)) /\ Good(DataRead8(d))
    BY <2>1, ReadByte, DataRead8Good
  <2>3. /\ Pio(DataRead8(d)) /\ DataRead8(d).fault = "none" /\ DataRead8(d).state = "ReadReady"
    BY <1>1, <2>1, <2>2 DEF ByteMoved
  <2>4. ByteMoved(DataRead8(d), DataRead8(DataRead8(d)))
    BY <2>2, <2>3, ReadByte
  <2>5. DataRead16(d) = DataRead8(DataRead8(d))
    BY DEF DataRead16, Pio
  <2> QED BY <1>1, <1>2, <2>2, <2>4, <2>5, TwoBytes
<1>3. CASE k = "WriteSectors"
  <2>1. d.state = "WriteReady"
    BY <1>3 DEF Offers
  <2>2. ByteMoved(d, DataWrite8(d)) /\ Good(DataWrite8(d))
    BY <2>1, WriteByte, DataWrite8Good
  <2>3. /\ Pio(DataWrite8(d)) /\ DataWrite8(d).fault = "none" /\ DataWrite8(d).state = "WriteReady"
    BY <1>1, <2>1, <2>2 DEF ByteMoved
  <2>4. ByteMoved(DataWrite8(d), DataWrite8(DataWrite8(d)))
    BY <2>2, <2>3, WriteByte
  <2>5. DataWrite16(d, FALSE) = DataWrite8(DataWrite8(d))
    BY DEF DataWrite16, Pio
  <2> QED BY <1>1, <1>3, <2>2, <2>4, <2>5, TwoBytes
<1> QED BY <1>2, <1>3

-------------------------------------------------------------------------------
(* What the driver asks for stays what it was, and only of IDE0.           *)
Asked == /\ selected = 0
         /\ kind \in {"ReadSectors", "WriteSectors"}
         /\ count \in Counts
         /\ order \in Orders

LEMMA AskedStep ==
  ASSUME Asked, [DriverNext]_allVars
  PROVE  Asked'
<1>1. UNCHANGED <<selected, kind, count, order>>
  BY DEF DriverNext, Issue, Ack, Status, MoveWord, Wait, EndOfStep, OtherPhases, Task, AckLatch,
     ReadStatusReg, NoAccess, driveVars, SampleLatch, DmaBlock, Parked, allVars, vars, driverVars
<1> QED BY <1>1 DEF Asked

(* Every access of the driver is one a guest of EidePath may make.         *)
LEMMA DriverIsAGuestStep ==
  ASSUME Asked, [DriverNext]_allVars
  PROVE  [Next]_vars
<1>1. CASE Issue
  <2>1. Turn("cpu") /\ \A e : OnDrive(e) = e
    BY <1>1 DEF Issue, OnDrive, Asked
  <2>2. CASE Task(WriteDevHead(drive, TRUE, 0))
    <3>1. Drives(WriteDevHead(drive, TRUE, 0)) /\ selected' = 0 /\ UNCHANGED <<dma, job, latchVars>>
      BY <2>1, <2>2 DEF Task, Asked
    <3>2. 0 \in Values["head"]
      BY IdeDriverAssumption
    <3>3. WriteDeviceHead("cpu")
      BY <2>1, <3>1, <3>2 DEF WriteDeviceHead
    <3> QED BY <3>3 DEF Next, Access
  <2>3. CASE Task(WriteReg(drive, "sector_count", count))
    <3>1. count \in Values["sector_count"] /\ "sector_count" \in Regs \ {"head"}
      BY IdeDriverAssumption DEF Asked, Regs
    <3>2. WriteTaskReg("cpu")
      BY <2>1, <2>3, <3>1 DEF WriteTaskReg
    <3> QED BY <3>2 DEF Next, Access
  <2>4. CASE /\ Drives(ExecCmd(drive, kind)) /\ job' = JobOf(kind)
             /\ UNCHANGED <<selected, dma, latchVars>>
    <3>1. kind \in CommandsUsed /\ selected = 0
      BY IdeDriverAssumption DEF Asked
    <3>2. WriteCommand("cpu")
      BY <2>1, <2>4, <3>1 DEF WriteCommand
    <3> QED BY <3>2 DEF Next, Access
  <2> QED BY <1>1, <2>2, <2>3, <2>4 DEF Issue
<1>2. CASE MoveWord
  <2>1. ReadData("cpu") \/ WriteData("cpu")
    BY <1>2 DEF MoveWord, ReadData, WriteData
  <2> QED BY <2>1 DEF Next, Access
<1>3. CASE Ack \/ Status \/ Wait
  BY <1>3 DEF Ack, Status, Wait, Next, Access
<1>4. CASE EndOfStep \/ OtherPhases
  BY <1>4 DEF EndOfStep, OtherPhases, Next, StepLoop
<1>5. CASE UNCHANGED allVars
  BY <1>5 DEF allVars
<1> QED BY <1>1, <1>2, <1>3, <1>4, <1>5 DEF DriverNext

LEMMA InitAsked == DriverInit => Asked
BY DEF DriverInit, Init, Asked

(* The driver of IdeDriver is a guest of EidePath: what is proved there of *)
(* any program holds of this one.                                          *)
THEOREM DriverIsAGuest == DriverSpec => Spec
<1>1. DriverInit => Init
  BY DEF DriverInit
<1> QED BY <1>1, InitAsked, AskedStep, DriverIsAGuestStep, PTL DEF DriverSpec, Spec

(* So the driver's sectors come in order, as any guest's do.               *)
THEOREM DriverSectorsInOrder == DriverSpec => []SectorsInOrder
BY DriverIsAGuest, SectorsKeepOrder, PTL

-------------------------------------------------------------------------------
(* InterruptsMatchWork with what it needs.  While the transfer is being    *)
(* programmed nothing has been raised or latched.  From then on the drive  *)
(* offers the next word until all are moved, and a handler runs only while *)
(* words are left.  Once it has read Status, which lowered INTRQ, INTRQ    *)
(* stays low until the sector ends, so that step samples the low level and *)
(* the end of the sector is a new edge.                                    *)
WorkInv ==
  /\ Asked /\ DriveGood /\ Pio(drive)
  /\ moved \in Nat
  /\ todo \in Programs \cup Unread \cup Read \cup {<<>>}
  /\ todo \in Programs =>
       /\ Running /\ moved = 0 /\ ~drive.irq /\ ~latched /\ ~wasAsserted
       /\ todo = <<"command">> => drive.reg["sector_count"] = count
  /\ Running /\ todo \notin Programs =>
       IF Done THEN todo = <<>> ELSE Offers(drive, kind, count, moved)
  /\ todo \in Read => drq
  /\ Running /\ todo \in Read => ~drive.irq /\ (phase = "cpu" => ~wasAsserted)
  /\ NoMissedIrq

(* The command opens the transfer: it interrupts and offers the first word.*)
LEMMA CommandOpens ==
  ASSUME NEW d, NEW k \in {"ReadSectors", "WriteSectors"}, NEW c \in Nat, c >= 1,
         Good(d), Pio(d), d.fault = "none", d.reg["sector_count"] = c
  PROVE  LET e == ExecCmd(d, k)
         IN  Pio(e) /\ (e.fault = "none" => e.irq /\ Offers(e, k, c, 0))
<1> DEFINE b == SetStatus(d, {"BSY"}, {"ERR"})
<1>1. Shaped(d) /\ "BSY" \notin d.status
  BY DEF Good, Sound, NeverBusy
<1>2. /\ Shaped(b) /\ b.fault = "none" /\ Pio(b) /\ b.reg = d.reg
  BY <1>1 DEF SetStatus, Shaped, Fields, Pio
<1>3. ExecCmd(d, k) = Run(b, k)
  BY <1>1 DEF ExecCmd
<1>4. SectorCount(b) = c
  BY <1>2 DEF SectorCount
<1> HIDE DEF b
<1>5. Pio(Fail(b, "fatal")) /\ Fail(b, "fatal").fault # "none"
  BY <1>2 DEF Fail, Pio, Shaped, Fields
<1>6. ASSUME NEW e, e.state = (IF k = "ReadSectors" THEN "ReadReady" ELSE "WriteReady"),
             "DRQ" \in e.status, e.remaining = c, e.pos = 0
      PROVE  Offers(e, k, c, 0)
  <2>1. WordsPerSector \in Nat \ {0} /\ c * WordsPerSector \in Nat
    BY Words
  <2>2. 0 \in 0 .. WordsPerSector - 1 /\ e.pos = 2 * 0
        /\ 0 + e.remaining * WordsPerSector - 0 = c * WordsPerSector
    BY <1>6, <2>1
  <2> QED BY <1>6, <2>2 DEF Offers
<1>7. CASE k = "ReadSectors"
  <2> DEFINE sought == [b EXCEPT !.cursor = SectorOffset(b), !.state = "ReadAsyncLoad"]
             loaded == ReadBlock(sought)
             ready  == [loaded EXCEPT !.remaining = SectorCount(b)]
             open   == PulseIrq(SetStatus(ready, {"DSC", "DRDY", "DRQ"}, {"BSY"}))
  <2>1. Run(b, k) = ReadSectors(b)
    BY <1>7 DEF Run
  <2>2. ReadSectors(b) = Fail(b, "fatal") \/ ReadSectors(b) = Try(loaded, open)
    BY DEF ReadSectors
  <2>3. DOMAIN sought = Fields /\ Pio(sought) /\ sought.fault = "none"
    BY <1>2 DEF Shaped, Pio, Fields
  <2> HIDE DEF sought
  <2>4. /\ DOMAIN loaded = Fields /\ Pio(loaded)
        /\ loaded.fault = "none" => loaded.state = "ReadReady" /\ loaded.pos = 0
    BY <2>3 DEF ReadBlock, Fail, Pio, Fields
  <2> HIDE DEF loaded
  <2>5. Pio(open) /\ open.irq /\ "DRQ" \in open.status /\ open.remaining = c
        /\ open.state = loaded.state /\ open.pos = loaded.pos
    BY <1>4, <2>4 DEF PulseIrq, SetStatus, Pio, Fields
  <2> HIDE DEF open
  <2>6. loaded.fault = "none" => Offers(open, k, c, 0)
    BY <1>6, <1>7, <2>4, <2>5
  <2> QED BY <1>3, <1>5, <2>1, <2>2, <2>4, <2>5, <2>6 DEF Try
<1>8. CASE k = "WriteSectors"
  <2> DEFINE sought == [b EXCEPT !.cursor = SectorOffset(b), !.state = "WriteReady",
                                 !.remaining = SectorCount(b), !.pos = 0]
             open   == PulseIrq(SetStatus(sought, {"DSC", "DRQ"}, {"BSY", "DRDY"}))
  <2>1. Run(b, k) = WriteSectors(b)
    BY <1>8 DEF Run
  <2>2. WriteSectors(b) = Fail(b, "fatal") \/ WriteSectors(b) = open
    BY DEF WriteSectors
  <2>3. Pio(open) /\ open.irq /\ "DRQ" \in open.status /\ open.remaining = c
        /\ open.state = "WriteReady" /\ open.pos = 0
    BY <1>2, <1>4 DEF PulseIrq, SetStatus, Shaped, Pio, Fields
  <2> HIDE DEF open
  <2>4. Offers(open, k, c, 0)
    BY <1>6, <1>8, <2>3
  <2> QED BY <1>3, <1>5, <2>1, <2>2, <2>3, <2>4
<1> QED BY <1>7, <1>8

LEMMA WorkInit == DriverInit => WorkInv
<1> SUFFICES ASSUME DriverInit PROVE WorkInv
  OBVIOUS
<1>1. Asked /\ DriveGood
  BY InitAsked, InitGood DEF DriverInit
<1>2. /\ drive = NewDrive /\ ~latched /\ ~wasAsserted /\ moved = 0 /\ todo \in Programs
      /\ todo = <<"address", "count", "command">>
  BY DEF DriverInit, Init, Programs
<1>3. Pio(NewDrive) /\ ~NewDrive.irq /\ NewDrive.fault = "none"
  BY DEF Pio, NewDrive
<1>4. todo # <<>> /\ todo # <<"command">> /\ todo \notin Read
  BY <1>2 DEF Read
<1> QED BY <1>1, <1>2, <1>3, <1>4 DEF WorkInv, Running, NoMissedIrq

(* What the parts of todo have to do with each other.                      *)
LEMMA Kinds ==
  /\ \A t \in Programs : t # <<>> /\ t \notin Unread /\ t \notin Read
  /\ \A t \in Unread : t # <<>> /\ t \notin Programs /\ t \notin Read
  /\ \A t \in Read : t # <<>> /\ t \notin Programs /\ t \notin Unread
  /\ <<"count", "command">> \in Programs /\ <<"command">> \in Programs
  /\ <<"count", "command">> # <<"command">>
  /\ <<>> \notin Programs
BY DEF Programs, Unread, Read

LEMMA IssueWork ==
  ASSUME WorkInv, Issue, DriveGood', Asked'
  PROVE  WorkInv'
<1>1. /\ Turn("cpu") /\ todo # <<>> /\ UNCHANGED <<kind, count, moved, drq, latchVars, selected>>
      /\ Head(todo) \in {"address", "count", "command"} /\ todo' = Tail(todo)
  BY DEF Issue, Finished, Task
<1>2. /\ todo \in Programs /\ Running /\ phase' = "cop" /\ selected = 0
  <2>1. todo \in Programs
    BY <1>1, Todos DEF WorkInv
  <2> QED BY <1>1, <2>1 DEF WorkInv, Asked, Turn, After
<1>3. /\ moved = 0 /\ ~drive.irq /\ ~latched /\ ~wasAsserted
      /\ Pio(drive) /\ Good(drive) /\ drive.fault = "none"
  BY <1>2 DEF WorkInv, DriveGood, Running
<1>4. ~latched' /\ ~wasAsserted' /\ moved' = 0
  BY <1>1, <1>3 DEF latchVars
<1>5. CASE Head(todo) # "command"
  <2>1. \/ Head(todo) = "address" /\ todo' = <<"count", "command">>
        \/ Head(todo) = "count" /\ todo' = <<"command">>
    BY <1>1, <1>2, <1>5, Todos
  <2>2. \/ Head(todo) = "address" /\ drive' = WriteDevHead(drive, TRUE, 0)
        \/ Head(todo) = "count" /\ drive' = WriteReg(drive, "sector_count", count)
    BY <1>2, <1>5 DEF Issue, Finished, Task, Drives, OnDrive
  <2>3. DOMAIN drive = Fields /\ DOMAIN drive.reg = Regs
    BY <1>3 DEF Good, Shaped
  <2>4. /\ Pio(drive') /\ ~drive'.irq /\ drive'.fault = "none"
        /\ Head(todo) = "count" => drive'.reg["sector_count"] = count
    BY <1>3, <2>2, <2>3 DEF WriteDevHead, WriteReg, Pio, Fields, Regs
  <2>5. todo' \in Programs /\ todo' \notin Read /\ todo' # <<>>
        /\ (todo' = <<"command">> => Head(todo) = "count")
    BY <2>1, Kinds
  <2>6. todo' = <<"command">> => drive'.reg["sector_count"] = count'
    BY <1>1, <2>4, <2>5
  <2> QED BY <1>4, <2>4, <2>5, <2>6 DEF WorkInv, Running, NoMissedIrq, Pio
<1>6. CASE Head(todo) = "command"
  <2>1. todo' = <<>> /\ drive' = ExecCmd(drive, kind)
    BY <1>1, <1>2, <1>6, Todos DEF Issue, Finished, Drives
  <2>2. todo = <<"command">>
    BY <1>2, <1>6, Todos DEF Programs
  <2>3. /\ count \in Nat /\ count >= 1 /\ kind \in {"ReadSectors", "WriteSectors"}
        /\ drive.reg["sector_count"] = count
    <3>1. count \in 1 .. 255
      BY IdeDriverAssumption DEF WorkInv, Asked
    <3> QED BY <1>2, <2>2, <3>1 DEF WorkInv, Asked
  <2>4. /\ Pio(drive') /\ (drive'.fault = "none" => drive'.irq /\ Offers(drive', kind, count, 0))
    BY <1>3, <2>1, <2>3, CommandOpens
  <2>5. count * WordsPerSector # 0
    BY <2>3, Words, Times
  <2>6. Pio(drive)'
    BY <2>4 DEF Pio
  <2>7. Running' => Offers(drive, kind, count, moved)' /\ ~Done' /\ NoMissedIrq'
    BY <1>1, <1>4, <2>4, <2>5 DEF Running, Offers, Done, NoMissedIrq, WordsPerSector
  <2>8. todo' \notin Programs /\ todo' \notin Read
    BY <2>1, Kinds
  <2> QED BY <1>4, <2>1, <2>6, <2>7, <2>8 DEF WorkInv, NoMissedIrq
<1> QED BY <1>5, <1>6

LEMMA CountIsNat ==
  ASSUME Asked
  PROVE  count \in Nat /\ kind \in {"ReadSectors", "WriteSectors"} /\ order \in Orders
BY IdeDriverAssumption DEF Asked

(* The parts of a handler that move no data leave the transfer alone.      *)
LEMMA OtherWork ==
  ASSUME WorkInv, DriveGood', Asked', UNCHANGED <<kind, count, moved>>,
         todo \in Unread \cup Read, Running,
         Pio(drive'), drive'.state = drive.state, drive'.status = drive.status,
         drive'.remaining = drive.remaining, drive'.pos = drive.pos,
         todo' \in Unread \cup Read,
         todo' \in Read => drq' /\ ~drive'.irq /\ (phase' = "cpu" => ~wasAsserted')
  PROVE  WorkInv'
<1>1. todo' \notin Programs /\ todo' # <<>> /\ todo \notin Programs /\ todo # <<>>
  BY Kinds
<1>2. ~Done /\ Offers(drive, kind, count, moved)
  BY <1>1 DEF WorkInv
<1>3. ~Done' /\ Offers(drive, kind, count, moved)'
  BY <1>2 DEF Done, Offers, WordsPerSector
<1> QED BY <1>1, <1>3 DEF WorkInv, NoMissedIrq, Pio

LEMMA AckWork ==
  ASSUME WorkInv, Ack, DriveGood', Asked'
  PROVE  WorkInv'
<1>1. /\ Running /\ phase' = "cop" /\ todo # <<>> /\ Head(todo) = "ack" /\ todo' = Tail(todo)
      /\ UNCHANGED <<drive, wasAsserted, kind, count, moved, drq>>
  BY DEF Ack, AckLatch, Finished, Turn, After
<1>2. \/ todo \in Unread /\ todo' \in Unread
      \/ todo \in Read /\ todo' \in Read
  BY <1>1, Todos DEF WorkInv
<1>3. todo' \in Read => todo \in Read
  BY <1>2, Kinds
<1> QED BY <1>1, <1>2, <1>3, OtherWork DEF WorkInv

LEMMA StatusWork ==
  ASSUME WorkInv, Status, DriveGood', Asked'
  PROVE  WorkInv'
<1>1. /\ Running /\ phase' = "cop" /\ todo # <<>> /\ Head(todo) = "status" /\ todo' = Tail(todo)
      /\ UNCHANGED <<wasAsserted, kind, count, moved>> /\ (drq' <=> "DRQ" \in drive.status)
      /\ drive' = OnDrive(ReadStatus(drive))
  BY DEF Status, ReadStatusReg, Task, Drives, latchVars, Finished, Turn, After
<1>2. todo \in Unread /\ todo' \in Read
  BY <1>1, Todos DEF WorkInv
<1>3. drive' = ReadStatus(drive) /\ DOMAIN drive = Fields /\ Pio(drive)
  BY <1>1 DEF OnDrive, WorkInv, Asked, DriveGood, Good, Shaped
<1>4. /\ Pio(drive') /\ ~drive'.irq /\ drive'.state = drive.state /\ drive'.status = drive.status
      /\ drive'.remaining = drive.remaining /\ drive'.pos = drive.pos
  BY <1>3 DEF ReadStatus, Pio, Fields
<1>5. "DRQ" \in drive.status
  BY <1>1, <1>2, Kinds DEF WorkInv, Offers
<1> QED BY <1>1, <1>2, <1>4, <1>5, OtherWork

LEMMA MoveWork ==
  ASSUME WorkInv, MoveWord, DriveGood', Asked'
  PROVE  WorkInv'
<1> DEFINE e == IF kind = "ReadSectors" THEN DataRead16(drive) ELSE DataWrite16(drive, FALSE)
<1>1. /\ Running /\ phase = "cpu" /\ phase' = "cop" /\ todo # <<>> /\ Head(todo) = "data" /\ drq
      /\ UNCHANGED <<wasAsserted, latched, kind, count, drq>> /\ moved' = moved + 1
      /\ todo' = IF moved' % WordsPerSector = 0 THEN Tail(todo) ELSE todo
      /\ drive' = OnDrive(e)
  BY DEF MoveWord, Task, Drives, latchVars, Turn, After
<1>2. todo \in Read /\ Tail(todo) = <<>>
  BY <1>1, Todos DEF WorkInv
<1>3. drive' = e
  BY <1>1 DEF OnDrive, WorkInv, Asked
<1>4. ~Done /\ Offers(drive, kind, count, moved) /\ ~drive.irq /\ ~wasAsserted
  BY <1>1, <1>2, Kinds DEF WorkInv
<1>5. count \in Nat /\ kind \in {"ReadSectors", "WriteSectors"} /\ moved \in Nat
  BY CountIsNat DEF WorkInv
<1>6. WordMoved(drive, e, kind, count, moved)
  BY <1>1, <1>4, <1>5, WordIsMoved DEF WorkInv, DriveGood, Running
<1> HIDE DEF e
<1>7. Pio(drive') /\ moved' \in Nat
  BY <1>1, <1>3, <1>5, <1>6 DEF WordMoved
<1>8. todo' \in {todo, <<>>} /\ todo' \notin Programs
  BY <1>1, <1>2, Kinds
<1>9. CASE ~Running'
  BY <1>1, <1>2, <1>7, <1>8, <1>9, Kinds DEF WorkInv, NoMissedIrq, Pio
<1>10. CASE Running'
  <2>1. drive'.fault = "none" /\ e.fault = "none"
    BY <1>3, <1>10 DEF Running
  <2>2. Done' <=> moved + 1 = count * WordsPerSector
    BY <1>1 DEF Done, WordsPerSector
  <2>3. CASE (moved + 1) % WordsPerSector = 0
    <3>1. todo' = <<>> /\ drive'.irq /\ ~wasAsserted'
      BY <1>1, <1>2, <1>3, <1>4, <1>6, <2>1, <2>3 DEF WordMoved
    <3>2. ~Done' => Offers(drive, kind, count, moved)'
      BY <1>1, <1>3, <1>6, <2>1, <2>2 DEF WordMoved, Offers, WordsPerSector
    <3>3. todo' \notin Read /\ todo' \notin Programs
      BY <3>1, Kinds
    <3> QED BY <1>7, <3>1, <3>2, <3>3 DEF WorkInv, NoMissedIrq, Pio
  <2>4. CASE (moved + 1) % WordsPerSector # 0
    <3>1. todo' = todo /\ ~drive'.irq /\ ~Done'
      BY <1>1, <1>3, <1>4, <1>6, <2>1, <2>2, <2>4 DEF WordMoved
    <3>2. Offers(drive, kind, count, moved)'
      BY <1>1, <1>3, <1>6, <2>1, <2>2, <3>1 DEF WordMoved, Offers, WordsPerSector
    <3>3. todo' \in Read /\ todo' # <<>> /\ todo' \notin Programs
      BY <1>2, <3>1, Kinds
    <3> QED BY <1>1, <1>7, <3>1, <3>2, <3>3 DEF WorkInv, NoMissedIrq, Pio
  <2> QED BY <2>3, <2>4
<1> QED BY <1>9, <1>10

(* A step of the emulator that leaves the drive and the driver alone.      *)
LEMMA IdleWork ==
  ASSUME WorkInv, DriveGood', Asked', UNCHANGED <<driverVars, latched, wasAsserted>>,
         Pio(drive'), drive'.state = drive.state, drive'.status = drive.status,
         drive'.remaining = drive.remaining, drive'.pos = drive.pos, drive'.irq = drive.irq,
         drive'.fault = drive.fault, drive'.reg = drive.reg, phase' = phase \/ phase' # "cpu"
  PROVE  WorkInv'
<1>1. UNCHANGED <<kind, count, moved, todo, drq, order>>
  BY DEF driverVars
<1>2. Running' <=> Running
  BY DEF Running
<1>3. (Done' <=> Done) /\ (Offers(drive, kind, count, moved)' <=> Offers(drive, kind, count, moved))
  BY <1>1 DEF Done, Offers, WordsPerSector
<1> QED BY <1>1, <1>2, <1>3 DEF WorkInv, NoMissedIrq, Pio

LEMMA OtherPhasesWork ==
  ASSUME WorkInv, OtherPhases, DriveGood', Asked'
  PROVE  WorkInv'
<1>1. UNCHANGED <<driverVars, latched, wasAsserted>> /\ phase' # "cpu"
  BY DEF OtherPhases, DmaBlock, Parked, latchVars, After
<1>2. DOMAIN drive = Fields /\ Pio(drive)
  BY DEF WorkInv, DriveGood, Good, Shaped
<1>3. drive' \in {drive, ClearDmaPending(drive)}
  BY <1>2 DEF OtherPhases, DmaBlock, Parked, driveVars, MovesWord, Pio
<1>4. /\ Pio(drive') /\ drive'.state = drive.state /\ drive'.status = drive.status
      /\ drive'.remaining = drive.remaining /\ drive'.pos = drive.pos /\ drive'.irq = drive.irq
      /\ drive'.fault = drive.fault /\ drive'.reg = drive.reg
  BY <1>2, <1>3 DEF ClearDmaPending, Pio, Fields
<1> QED BY <1>1, <1>4, IdleWork

LEMMA EndOfStepWork ==
  ASSUME DataLast, WorkInv, EndOfStep, DriveGood', Asked'
  PROVE  WorkInv'
<1>1. /\ UNCHANGED <<drive, kind, count, moved, drq, order>> /\ Running
      /\ (latched' <=> latched \/ (drive.irq /\ ~wasAsserted))
      /\ (wasAsserted' <=> drive.irq) /\ line' = latched'
      /\ todo' = IF line' /\ todo = <<>> /\ ~Done THEN order ELSE todo
  BY DEF EndOfStep, SampleLatch
<1>2. order \in Unread
  BY CountIsNat DEF WorkInv, DataLast, Unread
<1>3. Running' /\ (Done' <=> Done)
      /\ (Offers(drive, kind, count, moved)' <=> Offers(drive, kind, count, moved))
  BY <1>1 DEF Running, Done, Offers, WordsPerSector
<1>4. CASE todo = <<>> /\ ~Done
  <2>1. latched'
    BY <1>1, <1>4 DEF WorkInv, NoMissedIrq
  <2>2. todo' \in Unread
    BY <1>1, <1>2, <1>4, <2>1
  <2>3. todo' \notin Read /\ todo' \notin Programs /\ todo' # <<>> /\ todo \notin Programs
    BY <1>4, <2>2, Kinds
  <2>4. Offers(drive, kind, count, moved)
    BY <1>1, <1>4, <2>3 DEF WorkInv
  <2> QED BY <1>1, <1>3, <1>4, <2>2, <2>3, <2>4 DEF WorkInv, NoMissedIrq, Pio
<1>5. CASE ~(todo = <<>> /\ ~Done)
  <2>1. todo' = todo
    BY <1>1, <1>5
  <2> QED BY <1>1, <1>3, <1>5, <2>1, Kinds DEF WorkInv, NoMissedIrq, Pio
<1> QED BY <1>4, <1>5

LEMMA WorkStep ==
  ASSUME DataLast, WorkInv, [DriverNext]_allVars
  PROVE  WorkInv'
<1>1. DriveGood' /\ Asked'
  BY AskedStep, DriverIsAGuestStep, StepGood DEF WorkInv
<1>2. CASE Wait
  <2>1. UNCHANGED <<drive, driverVars, latched, wasAsserted>> /\ phase' # "cpu"
    BY <1>2 DEF Wait, NoAccess, Turn, driveVars, latchVars, After
  <2> QED BY <1>1, <2>1, IdleWork DEF WorkInv
<1>3. CASE UNCHANGED allVars
  <2>1. UNCHANGED <<drive, driverVars, latched, wasAsserted, phase>>
    BY <1>3 DEF allVars, vars
  <2> QED BY <1>1, <2>1, IdleWork DEF WorkInv
<1> QED BY <1>1, <1>2, <1>3, IssueWork, AckWork, StatusWork, MoveWork, EndOfStepWork,
        OtherPhasesWork DEF DriverNext

(* A driver that acknowledges and reads Status before it moves a sector is *)
(* never interrupted without a sector to move and never left waiting with  *)
(* sectors to go and no interrupt latched or on its way: update_irq_latch  *)
(* (eide.rs) sees the rise of INTRQ that ends each sector.                 *)
THEOREM InterruptsAndSectorsMatch ==
  ASSUME DataLast
  PROVE  DriverSpec => []InterruptsMatchWork
<1>1. WorkInv => InterruptsMatchWork
  <2> SUFFICES ASSUME WorkInv PROVE NoSpuriousIrq
    BY DEF WorkInv, InterruptsMatchWork
  <2>1. todo # <<>> /\ Head(todo) = "data" => todo \in Read
    BY Todos DEF WorkInv
  <2> QED BY <2>1 DEF WorkInv, NoSpuriousIrq
<1> QED BY <1>1, WorkInit, WorkStep, PTL DEF DriverSpec
===============================================================================
